------------------------- MODULE PriceAlertsProofs -------------------------
(***************************************************************************)
(* The safety of the price alerts for every number of replicas, chats,     *)
(* symbols, alerts and faults and every choice of prices, thresholds,      *)
(* limits and freshness that keeps the assumptions.                        *)
(***************************************************************************)
EXTENDS PriceAlerts, FiniteSetTheorems, WellFoundedInduction, TLAPS

-----------------------------------------------------------------------------
(* The inductive invariant *)

\* A quoted price is a real one and was quoted after its cycle began.
QuoteTimes == \A r \in Replicas :
    /\ tickers[r].startedAt <= now
    /\ \A s \in Symbols :
        /\ fetches[r][s].pc \in {"quoted", "storing", "stored"} =>
               fetches[r][s].price > 0 /\ tickers[r].startedAt <= fetches[r][s].quotedAt
        /\ fetches[r][s].pc # "storing" => fetches[r][s].crossed = {}

\* The row of a symbol in market_prices has one writer.
OneWriter == \A s \in Symbols : \A q, r \in Replicas :
    fetches[q][s].pc = "storing" /\ fetches[r][s].pc = "storing" => q = r

\* Stored prices follow each other in time, and the caches follow them.
PriceOrder == \A s \in Symbols :
    /\ marketPrices[s].at <= now /\ (marketPrices[s] = NoPrice \/ marketPrices[s].price > 0)
    /\ \A r \in Replicas :
        /\ fetches[r][s].pc = "storing" =>
               marketPrices[s].at <= fetches[r][s].storedAt /\ fetches[r][s].storedAt <= now
        /\ fetches[r][s].pc = "stored" =>
               marketPrices[s].price > 0 /\ fetches[r][s].storedAt <= marketPrices[s].at
        /\ cache[r][s] # NoPrice => marketPrices[s].price > 0 /\ cache[r][s].at <= marketPrices[s].at

\* A job belongs to a triggered or canceled alert, an open one to a triggered alert; an id
\* that was not drawn or was cleaned up has nothing.
Rows == \A a \in Alerts :
    /\ Open(a) => alerts[a].status = "triggered"
    /\ alerts[a].status = "active" => jobs[a] = "none"
    /\ alerts[a].status = "absent" => jobs[a] = "none" /\ crossings[a] = NoCrossing
    /\ a > lastId => alerts[a].status = "absent"

\* A row that is not committed yet has an id of its own.
Drawn == \A c \in Chats : updates[c].id # 0 =>
    /\ updates[c].id <= lastId
    /\ alerts[updates[c].id].status = "absent"
    /\ updates[c].row.chat = c /\ updates[c].row.status = "active"
    /\ \A d \in Chats : updates[d].id = updates[c].id => d = c

\* The alert of a message that is being delivered.
Sending == \A c \in Chats : sends[c] # 0 =>
    alerts[sends[c]].chat = c /\ alerts[sends[c]].status = "triggered" /\ Open(sends[c])

\* The alerts that count against the limit, the one being created included.
Counted(c) == {a \in Alerts : \/ alerts[a].chat = c /\ (alerts[a].status = "active" \/ Open(a))
                              \/ updates[c].id = a}
Limited == \A c \in Chats : Cardinality(Counted(c)) <= MaxActive

\* What an open transaction has read of the alerts it saw crossed still holds when it commits.
SeenInTime == \A r \in Replicas, s \in Symbols : \A a \in fetches[r][s].crossed :
    /\ alerts[a].status # "absent" /\ alerts[a].symbol = s
    /\ alerts[a].createdAt < fetches[r][s].quotedAt /\ alerts[a].base.at <= fetches[r][s].quotedAt
    /\ fetches[r][s].storedAt - fetches[r][s].quotedAt <= Fresh
    /\ alerts[a].status = "active" => crossings[a] = NoCrossing

\* A listed candidate carries the crossing of its alert, as long as that is active.
Listed == \A r \in Replicas : \A candidate \in tickers[r].batch :
    /\ alerts[candidate.id].status # "absent"
    /\ alerts[candidate.id].status = "active" =>
        /\ crossings[candidate.id] # NoCrossing
        /\ crossings[candidate.id].price = candidate.price /\ crossings[candidate.id].at = candidate.at

\* Of the crossings a pass began with, those still to be triggered and not skipped lie ahead:
\* in the batch or behind all of it.
Ahead == \A r \in Replicas :
    /\ tickers[r].pc = "triggering" <=> tickers[r].batch # {}
    /\ \A a \in tickers[r].due :
        /\ a <= lastId
        /\ \A c \in Chats : updates[c].id # a
        /\ alerts[a].status = "active" => crossings[a] # NoCrossing
        /\ alerts[a].status = "active" /\ a \notin tickers[r].busy =>
            /\ a > tickers[r].afterId
            /\ \A candidate \in tickers[r].batch :
                   a < candidate.id => \E other \in tickers[r].batch : other.id = a

IInv == /\ TypeOK /\ QuoteTimes /\ OneWriter /\ PriceOrder /\ Rows /\ Drawn /\ Sending /\ Limited
        /\ SeenInTime /\ ObservedInTime /\ Listed /\ Ahead

-----------------------------------------------------------------------------
(* Types *)

CrossingRow == [price : Nat, at : Times, quotedAt : Times]
Ticker == [pc : {"idle", "fetching", "listing", "triggering"}, enabled : BOOLEAN,
           startedAt : Times \cup {Zero}, afterId : 0..MaxAlerts,
           batch : SUBSET [id : Alerts, price : Nat, at : Times],
           due : SUBSET Alerts, busy : SUBSET Alerts]
Fetch == [pc : {"done", "asking", "quoted", "storing", "stored"},
          price : Nat, quotedAt : Times, storedAt : Times, crossed : SUBSET Alerts]
Update == [replica : Replicas \cup {0}, id : 0..MaxAlerts, row : AlertRow]

\* TypeOK with names for the types of the records.
Types ==
    /\ now \in Times /\ lastId \in 0..MaxAlerts /\ faults \in 0..MaxFaults
    /\ market \in [Symbols -> Prices]
    /\ marketPrices \in [Symbols -> PriceAt]
    /\ alerts \in [Alerts -> AlertRow]
    /\ crossings \in [Alerts -> CrossingRow]
    /\ jobs \in [Alerts -> {"none", "pending", "sending", "sent", "failed", "canceled"}]
    /\ tickers \in [Replicas -> Ticker]
    /\ fetches \in [Replicas -> [Symbols -> Fetch]]
    /\ cache \in [Replicas -> [Symbols -> PriceAt]]
    /\ updates \in [Chats -> Update]
    /\ sends \in [Chats -> 0..MaxAlerts]

\* Types and TypeOK say the same.
LEMMA TypesAreTypeOK == TypeOK <=> Types
BY DEF TypeOK, Types, CrossingRow, Ticker, Fetch, Update

\* So they do after a step.
LEMMA TypesAreTypeOKNext == TypeOK' <=> Types'
BY DEF TypeOK, Types, CrossingRow, Ticker, Fetch, Update

\* The constants as numbers.
LEMMA Bounds ==
    /\ Fresh \in Nat /\ MaxActive \in Nat /\ MaxAlerts \in Nat /\ MaxTime \in Nat /\ MaxTime > 0
    /\ MaxFaults \in Nat /\ BatchLimit \in Nat /\ BatchLimit > 0
    /\ Prices \subseteq Nat /\ 0 \notin Prices /\ Percents \subseteq Int
BY AlertsAssumption

\* The neutral values have the types of their rows.
LEMMA Neutral ==
    /\ NoPrice \in PriceAt /\ NoAlert \in AlertRow /\ NoCrossing \in CrossingRow
    /\ NoUpdate \in Update /\ NoFetch \in Fetch
    /\ \A enabled \in BOOLEAN : NewTicker(enabled) \in Ticker
<1>1. 0 \in Times /\ 0 \in 0..MaxAlerts /\ Zero \in Times \cup {Zero}
  BY Bounds DEF Times, Zero
<1>2. NoPrice \in PriceAt
  BY <1>1 DEF NoPrice, PriceAt
<1>3. NoAlert \in AlertRow
  BY <1>1, <1>2 DEF NoAlert, AlertRow
<1>4. NoCrossing \in CrossingRow
  BY <1>1 DEF NoCrossing, CrossingRow
<1>5. NoUpdate \in Update
  BY <1>1, <1>3 DEF NoUpdate, Update
<1>6. NoFetch \in Fetch
  BY <1>1 DEF NoFetch, Fetch
<1>7. ASSUME NEW enabled \in BOOLEAN PROVE NewTicker(enabled) \in Ticker
  BY <1>1 DEF NewTicker, Ticker
<1> QED BY <1>2, <1>3, <1>4, <1>5, <1>6, <1>7

\* The invariant holds at the start.
LEMMA InitIsGood == ASSUME Init PROVE IInv
<1>1. Types
  <2>1. NewTicker(TRUE) \in Ticker
    BY Neutral
  <2>2. now \in Times /\ 0 \in 0..MaxAlerts /\ 0 \in 0..MaxFaults
    BY Bounds DEF Init, Times
  <2>3. tickers \in [Replicas -> Ticker]
    BY <2>1 DEF Init
  <2> QED BY <2>2, <2>3, Neutral DEF Init, Types
<1>2. \A a \in Alerts : alerts[a] = NoAlert /\ crossings[a] = NoCrossing /\ jobs[a] = "none"
  BY DEF Init
<1>3. \A r \in Replicas : /\ tickers[r].batch = {} /\ tickers[r].due = {} /\ tickers[r].pc = "idle"
                          /\ \A s \in Symbols : fetches[r][s].pc = "done" /\ fetches[r][s].crossed = {}
  BY DEF Init, NewTicker, NoFetch
<1>4. QuoteTimes
  BY <1>3 DEF Init, NewTicker, Zero, QuoteTimes
<1>9. OneWriter /\ SeenInTime /\ Listed /\ Ahead
  BY <1>3 DEF OneWriter, SeenInTime, Listed, Ahead
<1>5. PriceOrder
  <2>1. /\ now = 1 /\ \A s \in Symbols : marketPrices[s] = NoPrice
        /\ \A r \in Replicas, s \in Symbols : cache[r][s] = NoPrice
    BY DEF Init
  <2>2. NoPrice.at <= 1
    BY DEF NoPrice
  <2> QED BY <1>3, <2>1, <2>2 DEF PriceOrder
<1>6. Rows /\ ObservedInTime
  BY <1>2 DEF Rows, ObservedInTime, HasCrossing, Open, NoAlert
<1>7. Drawn /\ Sending
  BY DEF Init, Drawn, Sending, NoUpdate
<1>8. Limited
  <2> SUFFICES ASSUME NEW c \in Chats PROVE Cardinality(Counted(c)) <= MaxActive
    BY DEF Limited
  <2>1. Counted(c) = {}
    BY <1>2 DEF Counted, Open, NoAlert, Init, NoUpdate, Alerts
  <2> QED BY <2>1, FS_EmptySet, Bounds
<1> QED BY <1>1, <1>4, <1>5, <1>6, <1>7, <1>8, <1>9, TypesAreTypeOK DEF IInv

-----------------------------------------------------------------------------
(* What does not change *)

\* The conjuncts about alerts, updates and deliveries.
LEMMA AlertsFrame ==
    ASSUME IInv, UNCHANGED <<alerts, crossings, jobs, lastId, requests>>
    PROVE  Rows' /\ Drawn' /\ Sending' /\ Limited' /\ ObservedInTime'
<1> USE DEF requests
<1>1. Rows' /\ Drawn' /\ Sending'
  BY DEF IInv, Rows, Drawn, Sending, Open
<1>2. \A c \in Chats : Counted(c)' = Counted(c)
  BY DEF Counted, Open
<1>3. Limited'
  BY <1>2 DEF IInv, Limited
<1>4. ObservedInTime'
  BY DEF IInv, ObservedInTime, HasCrossing, QuotedAfterCreation, QuoteStillFresh
<1> QED BY <1>1, <1>3, <1>4

\* The conjuncts about the fetches.
LEMMA FetchesFrame ==
    ASSUME IInv, UNCHANGED <<now, marketPrices, fetches, cache>>,
           \A r \in Replicas : tickers'[r].startedAt = tickers[r].startedAt
    PROVE  QuoteTimes' /\ OneWriter' /\ PriceOrder'
<1>1. QuoteTimes'
  BY DEF IInv, QuoteTimes
<1>2. OneWriter'
  BY DEF IInv, OneWriter
<1>3. PriceOrder'
  BY DEF IInv, PriceOrder
<1> QED BY <1>1, <1>2, <1>3

\* The conjuncts about the passes.
LEMMA PassFrame ==
    ASSUME IInv, UNCHANGED <<alerts, crossings, lastId, tickers, updates>>
    PROVE  Listed' /\ Ahead'
<1>1. Listed'
  BY DEF IInv, Listed
<1>2. Ahead'
  BY DEF IInv, Ahead
<1> QED BY <1>1, <1>2

-----------------------------------------------------------------------------
(* The world and the begin of a cycle *)

\* Time only makes what was past more past.
LEMMA TickKeeps == ASSUME IInv, Tick PROVE IInv'
<1> USE DEF Tick, requests
<1>1. Types'
  BY Bounds, TypesAreTypeOK DEF IInv, Types, Times
<1>2. now \in Int /\ now' = now + 1
  BY TypesAreTypeOK, Bounds DEF IInv, Types, Times
<1>3. ASSUME NEW r \in Replicas, NEW s \in Symbols
      PROVE  fetches[r][s].quotedAt \in Int /\ fetches[r][s].storedAt \in Int /\ marketPrices[s].at \in Int
  BY TypesAreTypeOK, Bounds DEF IInv, Types, Fetch, PriceAt, Times
<1>4. QuoteTimes'
  <2>1. \A r \in Replicas : tickers[r].startedAt \in Int
    BY TypesAreTypeOK, Bounds DEF IInv, Types, Ticker, Times, Zero
  <2> QED BY <1>2, <2>1 DEF IInv, QuoteTimes
<1>5. PriceOrder'
  <2> SUFFICES ASSUME NEW s \in Symbols PROVE
        /\ marketPrices[s].at <= now'
        /\ \A r \in Replicas : fetches[r][s].pc = "storing" => fetches[r][s].storedAt <= now'
    BY DEF IInv, PriceOrder
  <2>1. marketPrices[s].at \in Int
    BY TypesAreTypeOK, Bounds DEF IInv, Types, PriceAt, Times
  <2> QED BY <1>2, <1>3, <2>1 DEF IInv, PriceOrder
<1>6. OneWriter' /\ SeenInTime'
  BY DEF IInv, OneWriter, SeenInTime
<1> QED BY <1>1, <1>4, <1>5, <1>6, AlertsFrame, PassFrame, TypesAreTypeOKNext DEF IInv, requests

\* What a step of one ticker that leaves the tables alone keeps.
LEMMA TickerFrame ==
    ASSUME IInv, NEW r \in Replicas,
           UNCHANGED <<now, marketPrices, alerts, crossings, jobs, lastId, fetches, cache, requests>>,
           \A q \in Replicas \ {r} : tickers'[q] = tickers[q],
           tickers'[r].startedAt = Zero \/ tickers'[r].startedAt = tickers[r].startedAt
    PROVE  /\ QuoteTimes' /\ OneWriter' /\ PriceOrder' /\ Rows' /\ Drawn' /\ Sending' /\ Limited'
           /\ SeenInTime' /\ ObservedInTime'
<1>1. QuoteTimes'
  <2>1. now \in Nat /\ \A s \in Symbols : fetches[r][s].quotedAt \in Nat
    BY TypesAreTypeOK, Bounds DEF IInv, Types, Fetch, Times
  <2>2. \A q \in Replicas, s \in Symbols :
            tickers[q].startedAt <= fetches[q][s].quotedAt => tickers'[q].startedAt <= fetches[q][s].quotedAt
    BY <2>1 DEF Zero
  <2>3. tickers'[r].startedAt = Zero => tickers'[r].startedAt <= now
    BY <2>1 DEF Zero
  <2> QED BY <2>2, <2>3 DEF IInv, QuoteTimes
<1>2. OneWriter' /\ SeenInTime'
  BY DEF IInv, OneWriter, SeenInTime
<1>3. PriceOrder'
  BY DEF IInv, PriceOrder
<1> QED BY <1>1, <1>2, <1>3, AlertsFrame

\* A pass that ends forgets what it was about.
LEMMA PassEnds ==
    ASSUME IInv, NEW r \in Replicas, tickers' = [tickers EXCEPT ![r] = NewTicker(tickers[r].enabled)],
           UNCHANGED <<alerts, crossings, lastId, updates>>
    PROVE  tickers' \in [Replicas -> Ticker] /\ Listed' /\ Ahead'
<1>1. tickers \in [Replicas -> Ticker] /\ NewTicker(tickers[r].enabled) \in Ticker
  <2>1. tickers \in [Replicas -> Ticker]
    BY TypesAreTypeOK DEF IInv, Types
  <2>2. tickers[r].enabled \in BOOLEAN
    BY <2>1 DEF Ticker
  <2> QED BY <2>1, <2>2, Neutral
<1>2. /\ tickers'[r].batch = {} /\ tickers'[r].due = {} /\ tickers'[r].pc = "idle"
      /\ \A q \in Replicas \ {r} : tickers'[q] = tickers[q]
  BY <1>1 DEF NewTicker
<1>3. Listed'
  BY <1>2 DEF IInv, Listed
<1>4. Ahead'
  BY <1>2 DEF IInv, Ahead
<1> QED BY <1>1, <1>3, <1>4

\* A pass that gives up leaves nothing ahead.
LEMMA PassFailsKeeps == ASSUME IInv, NEW r \in Replicas, PassFails(r) PROVE IInv'
<1> USE DEF PassFails, requests
<1>1. tickers' \in [Replicas -> Ticker] /\ Listed' /\ Ahead'
  BY PassEnds
<1>2. Types'
  BY <1>1, TypesAreTypeOK, Bounds DEF IInv, Types, Fault
<1>3. tickers'[r].startedAt = Zero /\ \A q \in Replicas \ {r} : tickers'[q] = tickers[q]
  BY TypesAreTypeOK DEF IInv, Types, NewTicker
<1> QED BY <1>1, <1>2, <1>3, TickerFrame, TypesAreTypeOKNext DEF IInv

\* The fields of a ticker that begins a cycle.
LEMMA Begun ==
    ASSUME NEW t \in Ticker, NEW at \in Times \cup {Zero}
    PROVE  LET begun == [t EXCEPT !.pc = "fetching", !.startedAt = at] IN
           /\ begun \in Ticker /\ begun.pc = "fetching" /\ begun.startedAt = at
           /\ begun.batch = t.batch /\ begun.due = t.due /\ begun.busy = t.busy /\ begun.afterId = t.afterId
BY DEF Ticker

\* What the beginning of a cycle does to a ticker.
LEMMA BeginsCycle ==
    ASSUME IInv, NEW r \in Replicas, NEW at \in Times \cup {Zero}, tickers[r].pc = "idle",
           tickers' = [tickers EXCEPT ![r].pc = "fetching", ![r].startedAt = at],
           UNCHANGED <<alerts, crossings, lastId, updates>>
    PROVE  /\ tickers' \in [Replicas -> Ticker] /\ tickers'[r].startedAt = at
           /\ \A q \in Replicas \ {r} : tickers'[q] = tickers[q]
           /\ Listed' /\ Ahead'
<1>1. tickers \in [Replicas -> Ticker]
  BY TypesAreTypeOK DEF IInv, Types
<1>2. tickers' = [tickers EXCEPT ![r] = [tickers[r] EXCEPT !.pc = "fetching", !.startedAt = at]]
  BY <1>1 DEF Ticker
<1> DEFINE begun == [tickers[r] EXCEPT !.pc = "fetching", !.startedAt = at]
<1>3. /\ begun \in Ticker /\ begun.pc = "fetching" /\ begun.startedAt = at
      /\ begun.batch = tickers[r].batch /\ begun.due = tickers[r].due
      /\ begun.busy = tickers[r].busy /\ begun.afterId = tickers[r].afterId
  BY <1>1, Begun
<1> HIDE DEF begun
<1>4. tickers' \in [Replicas -> Ticker] /\ tickers'[r] = begun /\ \A q \in Replicas \ {r} : tickers'[q] = tickers[q]
  BY <1>1, <1>2, <1>3 DEF begun
<1>5. Listed'
  BY <1>3, <1>4 DEF IInv, Listed
<1>6. Ahead'
  BY <1>3, <1>4 DEF IInv, Ahead
<1> QED BY <1>3, <1>4, <1>5, <1>6

\* A cycle begins with the time the database gives.
LEMMA BeginCycleKeeps == ASSUME IInv, NEW r \in Replicas, BeginCycle(r) PROVE IInv'
<1>1. Types
  BY TypesAreTypeOK DEF IInv
<1>2. UNCHANGED <<now, market, marketPrices, alerts, crossings, jobs, lastId, cache, requests, faults>>
  BY DEF BeginCycle
<1> DEFINE at == IF tickers[r].enabled THEN now ELSE Zero
           asking == [NoFetch EXCEPT !.pc = "asking"]
<1>3. at \in Times \cup {Zero} /\ at <= now
  BY <1>1, Bounds DEF Types, Times, Zero
<1>4. asking \in Fetch /\ asking.pc = "asking" /\ asking.crossed = {}
  BY Neutral DEF Fetch, NoFetch
<1>5. /\ tickers' \in [Replicas -> Ticker] /\ tickers'[r].startedAt = at
      /\ \A q \in Replicas \ {r} : tickers'[q] = tickers[q]
      /\ Listed' /\ Ahead'
  BY <1>2, <1>3, BeginsCycle DEF BeginCycle, requests
<1> HIDE DEF at, asking
<1>6. fetches' = [fetches EXCEPT ![r] = [s \in Symbols |-> asking]]
  BY DEF BeginCycle, asking
<1>7. fetches' \in [Replicas -> [Symbols -> Fetch]]
  BY <1>1, <1>4, <1>6 DEF Types
<1>8. /\ \A q \in Replicas \ {r} : fetches'[q] = fetches[q]
      /\ \A s \in Symbols : fetches'[r][s].pc = "asking" /\ fetches'[r][s].crossed = {}
  BY <1>1, <1>4, <1>6 DEF Types
<1>9. QuoteTimes'
  BY <1>2, <1>3, <1>5, <1>8 DEF IInv, QuoteTimes
<1>10. OneWriter' /\ SeenInTime'
  BY <1>2, <1>8 DEF IInv, OneWriter, SeenInTime
<1>11. PriceOrder'
  BY <1>2, <1>8 DEF IInv, PriceOrder
<1>12. Types'
  BY <1>1, <1>2, <1>5, <1>7 DEF Types, requests
<1> QED BY <1>2, <1>5, <1>9, <1>10, <1>11, <1>12, AlertsFrame, TypesAreTypeOKNext DEF IInv

\* A cycle that cannot ask the database begins at the zero time.
LEMMA BeginCycleFailsKeeps == ASSUME IInv, NEW r \in Replicas, BeginCycleFails(r) PROVE IInv'
<1>1. Types
  BY TypesAreTypeOK DEF IInv
<1>2. UNCHANGED <<now, market, marketPrices, alerts, crossings, jobs, lastId, fetches, cache, requests>>
  BY DEF BeginCycleFails
<1>3. /\ tickers' \in [Replicas -> Ticker] /\ tickers'[r].startedAt = Zero
      /\ \A q \in Replicas \ {r} : tickers'[q] = tickers[q]
      /\ Listed' /\ Ahead'
  BY <1>2, BeginsCycle DEF BeginCycleFails, requests
<1>4. Types'
  BY <1>1, <1>2, <1>3, Bounds DEF Types, requests, BeginCycleFails, Fault
<1> QED BY <1>2, <1>3, <1>4, TickerFrame, TypesAreTypeOKNext DEF IInv

-----------------------------------------------------------------------------
(* The goroutine of a symbol *)

\* A step of one goroutine leaves the others alone.
LEMMA OneFetch ==
    ASSUME Types, NEW r \in Replicas, NEW s \in Symbols, NEW f \in Fetch,
           fetches' = [fetches EXCEPT ![r][s] = f]
    PROVE  /\ fetches' \in [Replicas -> [Symbols -> Fetch]]
           /\ fetches'[r][s] = f
           /\ \A q \in Replicas, t \in Symbols : q # r \/ t # s => fetches'[q][t] = fetches[q][t]
BY DEF Types

\* A goroutine that no longer holds the symbol's row nor anything it has read.
LEMMA FetchLeaves ==
    ASSUME IInv, NEW r \in Replicas, NEW s \in Symbols,
           UNCHANGED <<now, alerts, crossings, tickers>>,
           \A q \in Replicas, t \in Symbols : q # r \/ t # s => fetches'[q][t] = fetches[q][t],
           fetches'[r][s].pc = "done", fetches'[r][s].crossed = {}
    PROVE  QuoteTimes' /\ OneWriter' /\ SeenInTime'
<1>1. QuoteTimes'
  BY DEF IInv, QuoteTimes
<1>2. OneWriter' /\ SeenInTime'
  BY DEF IInv, OneWriter, SeenInTime
<1> QED BY <1>1, <1>2

\* A price is quoted after its cycle began.
LEMMA QuoteKeeps == ASSUME IInv, NEW r \in Replicas, NEW s \in Symbols, Quote(r, s) PROVE IInv'
<1>1. Types
  BY TypesAreTypeOK DEF IInv
<1>2. UNCHANGED <<now, market, marketPrices, alerts, crossings, jobs, lastId, tickers, cache, requests, faults>>
  BY DEF Quote
<1> DEFINE f == [fetches[r][s] EXCEPT !.pc = "quoted", !.price = market[s], !.quotedAt = now]
<1>3. fetches' = [fetches EXCEPT ![r][s] = f]
  BY <1>1 DEF Types, Fetch, Quote
<1>4. market[s] \in Nat /\ market[s] > 0 /\ now \in Times /\ fetches[r][s] \in Fetch
  <2>1. market[s] \in Prices /\ now \in Times /\ fetches[r][s] \in Fetch
    BY <1>1 DEF Types
  <2>2. market[s] # 0 /\ market[s] \in Nat
    BY <2>1, Bounds
  <2> QED BY <2>1, <2>2
<1>5. /\ f \in Fetch /\ f.pc = "quoted" /\ f.price = market[s] /\ f.quotedAt = now
      /\ f.crossed = fetches[r][s].crossed
  BY <1>4 DEF Fetch
<1>6. fetches[r][s].crossed = {}
  BY DEF IInv, QuoteTimes, Quote
<1> HIDE DEF f
<1>7. /\ fetches' \in [Replicas -> [Symbols -> Fetch]]
      /\ fetches'[r][s] = f
      /\ \A q \in Replicas, t \in Symbols : q # r \/ t # s => fetches'[q][t] = fetches[q][t]
  <2>1. PICK g \in Fetch : g = f
    BY <1>5
  <2>2. fetches' = [fetches EXCEPT ![r][s] = g]
    BY <1>3, <2>1
  <2>3. /\ fetches' \in [Replicas -> [Symbols -> Fetch]]
        /\ fetches'[r][s] = g
        /\ \A q \in Replicas, t \in Symbols : q # r \/ t # s => fetches'[q][t] = fetches[q][t]
    BY <1>1, <2>2, OneFetch
  <2> QED BY <2>1, <2>3
<1>8. QuoteTimes'
  BY <1>2, <1>4, <1>5, <1>6, <1>7 DEF IInv, QuoteTimes
<1>9. OneWriter' /\ SeenInTime'
  BY <1>2, <1>5, <1>6, <1>7 DEF IInv, OneWriter, SeenInTime
<1>10. PriceOrder'
  BY <1>2, <1>5, <1>7 DEF IInv, PriceOrder
<1>11. Types'
  BY <1>1, <1>2, <1>7 DEF Types, requests
<1> QED BY <1>2, <1>8, <1>9, <1>10, <1>11, AlertsFrame, PassFrame, TypesAreTypeOKNext DEF IInv, requests

\* A transaction that gets the row lock of its symbol is later than the stored price.
LEMMA StoreMarketPriceKeeps ==
    ASSUME IInv, NEW r \in Replicas, NEW s \in Symbols, StoreMarketPrice(r, s) PROVE IInv'
<1>1. Types
  BY TypesAreTypeOK DEF IInv
<1>2. UNCHANGED <<now, market, marketPrices, alerts, crossings, jobs, lastId, tickers, cache, requests, faults>>
  BY DEF StoreMarketPrice
<1> DEFINE crossed == IF tickers[r].enabled /\ tickers[r].startedAt # Zero
                      THEN {a \in Alerts : Watched(r, s, a) /\ Crossed(a, fetches[r][s].price) /\ NewCrossing(a)}
                      ELSE {}
           f == [fetches[r][s] EXCEPT !.pc = "storing", !.storedAt = now, !.crossed = crossed]
<1>3. fetches' = [fetches EXCEPT ![r][s] = f] /\ fetches[r][s].pc = "quoted"
      /\ \A q \in Replicas : fetches[q][s].pc # "storing"
  BY DEF StoreMarketPrice
<1>4. \A a \in crossed : a \in Alerts /\ Watched(r, s, a) /\ NewCrossing(a)
  OBVIOUS
<1>5. now \in Times /\ fetches[r][s] \in Fetch /\ crossed \in SUBSET Alerts
  BY <1>1 DEF Types
<1> HIDE DEF crossed
<1>6. /\ f \in Fetch /\ f.pc = "storing" /\ f.storedAt = now /\ f.crossed = crossed
      /\ f.price = fetches[r][s].price /\ f.quotedAt = fetches[r][s].quotedAt
  BY <1>5 DEF Fetch
<1> HIDE DEF f
<1>7. /\ fetches' \in [Replicas -> [Symbols -> Fetch]]
      /\ fetches'[r][s] = f
      /\ \A q \in Replicas, t \in Symbols : q # r \/ t # s => fetches'[q][t] = fetches[q][t]
  <2>1. PICK g \in Fetch : g = f
    BY <1>6
  <2>2. fetches' = [fetches EXCEPT ![r][s] = g]
    BY <1>3, <2>1
  <2>3. /\ fetches' \in [Replicas -> [Symbols -> Fetch]]
        /\ fetches'[r][s] = g
        /\ \A q \in Replicas, t \in Symbols : q # r \/ t # s => fetches'[q][t] = fetches[q][t]
    BY <1>1, <2>2, OneFetch
  <2> QED BY <2>1, <2>3
<1>8. QuoteTimes'
  BY <1>2, <1>3, <1>6, <1>7 DEF IInv, QuoteTimes
<1>9. OneWriter'
  BY <1>3, <1>7 DEF IInv, OneWriter
<1>10. PriceOrder'
  <2>1. now \in Int
    BY <1>5, Bounds DEF Times
  <2> QED BY <1>2, <1>6, <1>7, <2>1 DEF IInv, PriceOrder
<1>11. SeenInTime'
  <2>1. ASSUME NEW a \in crossed
        PROVE  /\ alerts[a].status = "active" /\ alerts[a].symbol = s
               /\ alerts[a].createdAt < f.quotedAt /\ alerts[a].base.at <= f.quotedAt
               /\ now - f.quotedAt <= Fresh /\ crossings[a] = NoCrossing
    <3>1. a \in Alerts /\ Watched(r, s, a) /\ NewCrossing(a)
      BY <1>4, <2>1
    <3>2. alerts[a].createdAt \in Int /\ alerts[a].base.at \in Int
      BY <1>1, <3>1, Bounds DEF Types, AlertRow, PriceAt, Times
    <3>3. tickers[r].startedAt \in Int /\ f.quotedAt \in Int /\ now \in Int
      BY <1>1, <1>5, <1>6, Bounds DEF Types, Ticker, Fetch, Times, Zero
    <3>4. tickers[r].startedAt <= f.quotedAt
      BY <1>3, <1>6 DEF IInv, QuoteTimes
    <3> QED BY <3>1, <3>2, <3>3, <3>4, Bounds DEF Watched, NewCrossing
  <2> QED BY <1>2, <1>6, <1>7, <2>1 DEF IInv, SeenInTime
<1>12. Types'
  BY <1>1, <1>2, <1>7 DEF Types, requests
<1> QED BY <1>2, <1>8, <1>9, <1>10, <1>11, <1>12, AlertsFrame, PassFrame, TypesAreTypeOKNext DEF IInv, requests

\* A fetch that fails leaves the tables as they were.
LEMMA FetchFailsKeeps == ASSUME IInv, NEW r \in Replicas, NEW s \in Symbols, FetchFails(r, s) PROVE IInv'
<1>1. Types
  BY TypesAreTypeOK DEF IInv
<1>2. /\ UNCHANGED <<now, market, marketPrices, alerts, crossings, jobs, lastId, tickers, cache, requests>>
      /\ fetches' = [fetches EXCEPT ![r][s] = NoFetch]
  BY DEF FetchFails
<1>3. /\ fetches' \in [Replicas -> [Symbols -> Fetch]]
      /\ fetches'[r][s] = NoFetch
      /\ \A q \in Replicas, t \in Symbols : q # r \/ t # s => fetches'[q][t] = fetches[q][t]
  <2>1. PICK g \in Fetch : g = NoFetch
    BY Neutral
  <2>2. fetches' = [fetches EXCEPT ![r][s] = g]
    BY <1>2, <2>1
  <2>3. /\ fetches' \in [Replicas -> [Symbols -> Fetch]]
        /\ fetches'[r][s] = g
        /\ \A q \in Replicas, t \in Symbols : q # r \/ t # s => fetches'[q][t] = fetches[q][t]
    BY <1>1, <2>2, OneFetch
  <2> QED BY <2>1, <2>3
<1>4. QuoteTimes' /\ OneWriter' /\ SeenInTime'
  BY <1>2, <1>3, FetchLeaves DEF NoFetch
<1>5. PriceOrder'
  BY <1>2, <1>3 DEF IInv, PriceOrder, NoFetch
<1>6. Types'
  BY <1>1, <1>2, <1>3, Bounds DEF Types, requests, FetchFails, Fault
<1> QED BY <1>2, <1>4, <1>5, <1>6, AlertsFrame, PassFrame, TypesAreTypeOKNext DEF IInv, requests

\* The cache gets a price only after its commit.
LEMMA StoreAtKeeps == ASSUME IInv, NEW r \in Replicas, NEW s \in Symbols, StoreAt(r, s) PROVE IInv'
<1>1. Types
  BY TypesAreTypeOK DEF IInv
<1> DEFINE entry == [price |-> fetches[r][s].price, at |-> fetches[r][s].storedAt]
<1>2. /\ UNCHANGED <<now, market, marketPrices, alerts, crossings, jobs, lastId, tickers, requests, faults>>
      /\ fetches' = [fetches EXCEPT ![r][s] = NoFetch] /\ cache' = [cache EXCEPT ![r][s] = entry]
      /\ fetches[r][s].pc = "stored"
  BY DEF StoreAt
<1>3. entry \in PriceAt /\ entry.at = fetches[r][s].storedAt
  BY <1>1 DEF Types, Fetch, PriceAt
<1> HIDE DEF entry
<1>4. /\ fetches' \in [Replicas -> [Symbols -> Fetch]]
      /\ fetches'[r][s] = NoFetch
      /\ \A q \in Replicas, t \in Symbols : q # r \/ t # s => fetches'[q][t] = fetches[q][t]
  <2>1. PICK g \in Fetch : g = NoFetch
    BY Neutral
  <2>2. fetches' = [fetches EXCEPT ![r][s] = g]
    BY <1>2, <2>1
  <2>3. /\ fetches' \in [Replicas -> [Symbols -> Fetch]]
        /\ fetches'[r][s] = g
        /\ \A q \in Replicas, t \in Symbols : q # r \/ t # s => fetches'[q][t] = fetches[q][t]
    BY <1>1, <2>2, OneFetch
  <2> QED BY <2>1, <2>3
<1>5. /\ cache' \in [Replicas -> [Symbols -> PriceAt]] /\ cache'[r][s] = entry
      /\ \A q \in Replicas, t \in Symbols : q # r \/ t # s => cache'[q][t] = cache[q][t]
  BY <1>1, <1>2, <1>3 DEF Types
<1>6. QuoteTimes' /\ OneWriter' /\ SeenInTime'
  BY <1>2, <1>4, FetchLeaves DEF NoFetch
<1>7. PriceOrder'
  BY <1>2, <1>3, <1>4, <1>5 DEF IInv, PriceOrder, NoFetch
<1>8. Types'
  BY <1>1, <1>2, <1>4, <1>5 DEF Types, requests
<1> QED BY <1>2, <1>6, <1>7, <1>8, AlertsFrame, PassFrame, TypesAreTypeOKNext DEF IInv, requests

\* An open transaction does not touch the crossing that an active alert already has.
LEMMA CrossedOnce ==
    ASSUME IInv, NEW r \in Replicas, NEW s \in Symbols, fetches[r][s].pc = "storing"
    PROVE  \A a \in Alerts :
        /\ a \in fetches[r][s].crossed =>
               CrossingsWith(r, s)[a] = [price |-> fetches[r][s].price, at |-> fetches[r][s].storedAt,
                                         quotedAt |-> fetches[r][s].quotedAt]
        /\ a \notin fetches[r][s].crossed => CrossingsWith(r, s)[a] = crossings[a]
        /\ alerts[a].status = "active" /\ crossings[a] # NoCrossing => CrossingsWith(r, s)[a] = crossings[a]
BY DEF IInv, SeenInTime, CrossingsWith

\* The price and the crossings it makes appear together.
LEMMA CommitMarketPriceKeeps ==
    ASSUME IInv, NEW r \in Replicas, NEW s \in Symbols, NEW known \in BOOLEAN, CommitMarketPrice(r, s, known)
    PROVE  IInv'
<1>1. Types
  BY TypesAreTypeOK DEF IInv
<1> DEFINE fetch == fetches[r][s]
           f == IF known THEN [fetch EXCEPT !.pc = "stored", !.crossed = {}] ELSE NoFetch
           row == [price |-> fetch.price, at |-> fetch.storedAt, quotedAt |-> fetch.quotedAt]
           entry == [price |-> fetch.price, at |-> fetch.storedAt]
<1>2. /\ UNCHANGED <<now, market, alerts, jobs, lastId, tickers, cache, requests>>
      /\ fetches' = [fetches EXCEPT ![r][s] = f] /\ crossings' = CrossingsWith(r, s)
      /\ marketPrices' = [marketPrices EXCEPT ![s] = entry]
      /\ fetches[r][s].pc = "storing"
  BY DEF CommitMarketPrice
<1>3. faults' \in 0..MaxFaults
  BY <1>1, Bounds DEF Types, CommitMarketPrice, Fault
<1>4. fetch \in Fetch /\ fetch.price \in Nat /\ fetch.storedAt \in Times /\ fetch.quotedAt \in Times
  BY <1>1 DEF Types, Fetch
<1>5. /\ f \in Fetch /\ f.pc \in {"stored", "done"} /\ f.crossed = {}
      /\ f.pc = "stored" => f.price = fetch.price /\ f.storedAt = fetch.storedAt /\ f.quotedAt = fetch.quotedAt
  BY <1>4, Neutral DEF Fetch, NoFetch
<1>6. /\ entry \in PriceAt /\ entry.price = fetch.price /\ entry.at = fetch.storedAt
      /\ row \in CrossingRow /\ row.at = fetch.storedAt /\ row.quotedAt = fetch.quotedAt
  BY <1>4 DEF PriceAt, CrossingRow
<1> HIDE DEF f, row, entry
<1>7. /\ fetches' \in [Replicas -> [Symbols -> Fetch]]
      /\ fetches'[r][s] = f
      /\ \A q \in Replicas, t \in Symbols : q # r \/ t # s => fetches'[q][t] = fetches[q][t]
  <2>1. PICK g \in Fetch : g = f
    BY <1>5
  <2>2. fetches' = [fetches EXCEPT ![r][s] = g]
    BY <1>2, <2>1
  <2>3. /\ fetches' \in [Replicas -> [Symbols -> Fetch]]
        /\ fetches'[r][s] = g
        /\ \A q \in Replicas, t \in Symbols : q # r \/ t # s => fetches'[q][t] = fetches[q][t]
    BY <1>1, <2>2, OneFetch
  <2> QED BY <2>1, <2>3
<1>8. /\ marketPrices' \in [Symbols -> PriceAt] /\ marketPrices'[s] = entry
      /\ \A t \in Symbols \ {s} : marketPrices'[t] = marketPrices[t]
  BY <1>1, <1>2, <1>6 DEF Types
<1>9. \A a \in Alerts :
        /\ a \in fetch.crossed => crossings'[a] = row
        /\ a \notin fetch.crossed => crossings'[a] = crossings[a]
        /\ alerts[a].status = "active" /\ crossings[a] # NoCrossing => crossings'[a] = crossings[a]
  BY <1>2, CrossedOnce DEF row
<1>10. crossings' \in [Alerts -> CrossingRow]
  BY <1>1, <1>2, <1>6 DEF Types, CrossingsWith, row
<1>11. \A q \in Replicas \ {r} : fetches[q][s].pc # "storing" /\ fetches[q][s].crossed = {}
  BY <1>2 DEF IInv, OneWriter, QuoteTimes
<1>12. fetch.price > 0
  BY <1>2 DEF IInv, QuoteTimes
<1> HIDE DEF fetch
<1>13. QuoteTimes'
  BY <1>2, <1>5, <1>7 DEF IInv, QuoteTimes, fetch
<1>14. OneWriter'
  BY <1>5, <1>7 DEF IInv, OneWriter
<1>15. PriceOrder'
  <2>1. ASSUME NEW t \in Symbols \ {s} PROVE PriceOrder!(t)'
    BY <1>2, <1>7, <1>8 DEF IInv, PriceOrder
  <2>2. marketPrices[s].at <= fetch.storedAt /\ fetch.storedAt <= now
    BY <1>2 DEF IInv, PriceOrder, fetch
  <2>3. marketPrices[s].at \in Int /\ fetch.storedAt \in Int
    BY <1>1, <1>4, Bounds DEF Types, PriceAt, Times
  <2>4. ASSUME NEW q \in Replicas PROVE cache[q][s].at \in Int /\ fetches[q][s].storedAt \in Int
    BY <1>1, Bounds DEF Types, PriceAt, Fetch, Times
  <2>5. PriceOrder!(s)'
    BY <1>2, <1>5, <1>6, <1>7, <1>8, <1>11, <1>12, <2>2, <2>3, <2>4 DEF IInv, PriceOrder
  <2> QED BY <2>1, <2>5 DEF PriceOrder
<1>16. SeenInTime'
  <2>1. ASSUME NEW q \in Replicas, NEW t \in Symbols, NEW a \in fetches'[q][t].crossed
        PROVE  a \in fetches[q][t].crossed /\ fetches'[q][t] = fetches[q][t] /\ crossings'[a] = crossings[a]
    <3>1. t # s /\ fetches'[q][t] = fetches[q][t]
      BY <1>5, <1>7, <1>11, <2>1
    <3>2. a \in Alerts
      BY <1>1, <2>1, <3>1 DEF Types, Fetch
    <3>3. a \notin fetch.crossed
      BY <2>1, <3>1 DEF IInv, SeenInTime, fetch
    <3> QED BY <1>9, <2>1, <3>1, <3>2, <3>3
  <2> QED BY <1>2, <2>1 DEF IInv, SeenInTime
<1>17. Rows'
  <2>1. \A a \in Alerts : alerts[a].status = "absent" => a \notin fetch.crossed
    BY DEF IInv, SeenInTime, fetch
  <2> QED BY <1>2, <1>9, <2>1 DEF IInv, Rows, Open
<1>18. ObservedInTime'
  <2>1. ASSUME NEW a \in fetch.crossed
        PROVE  /\ alerts[a].createdAt < row.quotedAt /\ alerts[a].base.at <= row.quotedAt
               /\ row.at - row.quotedAt <= Fresh
    BY <1>6, <2>1 DEF IInv, SeenInTime, fetch
  <2> QED BY <1>2, <1>9, <2>1 DEF IInv, ObservedInTime, HasCrossing, QuotedAfterCreation, QuoteStillFresh
<1>19. Drawn' /\ Sending'
  BY <1>2 DEF IInv, Drawn, Sending, Open, requests
<1>20. Limited'
  BY <1>2 DEF IInv, Limited, Counted, Open, requests
<1>21. Listed'
  <2>1. \A q \in Replicas : \A candidate \in tickers[q].batch : candidate.id \in Alerts
    BY <1>1 DEF Types, Ticker
  <2> QED BY <1>2, <1>9, <2>1 DEF IInv, Listed
<1>22. Ahead'
  <2>1. \A q \in Replicas : tickers[q].due \subseteq Alerts
    BY <1>1 DEF Types, Ticker
  <2> QED BY <1>2, <1>9, <2>1 DEF IInv, Ahead, requests
<1>23. Types'
  BY <1>1, <1>2, <1>3, <1>7, <1>8, <1>10 DEF Types, requests
<1> QED BY <1>13, <1>14, <1>15, <1>16, <1>17, <1>18, <1>19, <1>20, <1>21, <1>22, <1>23, TypesAreTypeOKNext
        DEF IInv

-----------------------------------------------------------------------------
(* The pass over the recorded crossings *)

\* A pass begins before every recorded crossing.
LEMMA BeginPassKeeps == ASSUME IInv, NEW r \in Replicas, BeginPass(r) PROVE IInv'
<1>1. Types
  BY TypesAreTypeOK DEF IInv
<1> DEFINE due == {a \in Alerts : crossings'[a] # NoCrossing}
           t == [NewTicker(tickers[r].enabled) EXCEPT !.pc = "listing", !.due = due]
<1>2. /\ UNCHANGED <<now, market, marketPrices, alerts, jobs, lastId, fetches, cache, requests, faults>>
      /\ tickers' = [tickers EXCEPT ![r] = t]
      /\ \A a \in Alerts : crossings'[a] = IF alerts[a].status = "active" THEN crossings[a] ELSE NoCrossing
      /\ crossings' \in [Alerts -> CrossingRow]
  BY <1>1, Neutral DEF BeginPass, Types
<1>3. due \in SUBSET Alerts /\ \A a \in due : a \in Alerts /\ crossings'[a] # NoCrossing /\ alerts[a].status = "active"
  BY <1>2
<1> HIDE DEF due
<1>4. /\ t \in Ticker /\ t.pc = "listing" /\ t.startedAt = Zero /\ t.afterId = 0
      /\ t.batch = {} /\ t.due = due
  <2>1. tickers[r].enabled \in BOOLEAN
    BY <1>1 DEF Types, Ticker
  <2>2. NewTicker(tickers[r].enabled) \in Ticker
    BY <2>1, Neutral
  <2>3. t \in Ticker
    BY <1>3, <2>2 DEF Ticker
  <2> QED BY <2>3 DEF NewTicker
<1> HIDE DEF t
<1>5. /\ tickers' \in [Replicas -> Ticker] /\ tickers'[r] = t
      /\ \A q \in Replicas \ {r} : tickers'[q] = tickers[q]
  BY <1>1, <1>2, <1>4 DEF Types
<1>6. QuoteTimes'
  <2>1. now \in Nat /\ \A s \in Symbols : fetches[r][s].quotedAt \in Nat
    BY <1>1, Bounds DEF Types, Fetch, Times
  <2>2. Zero <= now /\ \A s \in Symbols : Zero <= fetches[r][s].quotedAt
    BY <2>1 DEF Zero
  <2> QED BY <1>2, <1>4, <1>5, <2>2 DEF IInv, QuoteTimes
<1>7. OneWriter'
  BY <1>2 DEF IInv, OneWriter
<1>8. PriceOrder'
  BY <1>2 DEF IInv, PriceOrder
<1>9. Rows'
  BY <1>2 DEF IInv, Rows, Open
<1>10. Drawn' /\ Sending'
  BY <1>2 DEF IInv, Drawn, Sending, Open, requests
<1>11. Limited'
  BY <1>2 DEF IInv, Limited, Counted, Open, requests
<1>12. SeenInTime'
  <2>1. \A q \in Replicas, s \in Symbols : fetches[q][s].crossed \subseteq Alerts
    BY <1>1 DEF Types, Fetch
  <2> QED BY <1>2, <2>1 DEF IInv, SeenInTime
<1>13. ObservedInTime'
  BY <1>2 DEF IInv, ObservedInTime, HasCrossing, QuotedAfterCreation, QuoteStillFresh
<1>14. Listed'
  <2>1. \A q \in Replicas : \A candidate \in tickers[q].batch : candidate.id \in Alerts
    BY <1>1 DEF Types, Ticker
  <2> QED BY <1>2, <1>4, <1>5, <2>1 DEF IInv, Listed
<1>15. Ahead'
  <2>1. \A q \in Replicas : tickers[q].due \subseteq Alerts
    BY <1>1 DEF Types, Ticker
  <2>2. ASSUME NEW a \in due PROVE a <= lastId /\ a > 0 /\ \A c \in Chats : updates[c].id # a
    <3>1. a \in Alerts /\ alerts[a].status = "active" /\ lastId \in Int
      BY <1>1, <1>3, <2>2, Bounds DEF Types
    <3>2. \A c \in Chats : updates[c].id # 0 => alerts[updates[c].id].status = "absent"
      BY DEF IInv, Drawn
    <3> QED BY <3>1, <3>2 DEF IInv, Rows, Alerts
  <2>3. Ahead!(r)'
    BY <1>2, <1>3, <1>4, <1>5, <2>2 DEF requests
  <2>4. \A q \in Replicas \ {r} : Ahead!(q)'
    BY <1>2, <1>5, <2>1 DEF IInv, Ahead, requests
  <2> QED BY <2>3, <2>4 DEF Ahead
<1>16. Types'
  BY <1>1, <1>2, <1>5 DEF Types, requests
<1> QED BY <1>6, <1>7, <1>8, <1>9, <1>10, <1>11, <1>12, <1>13, <1>14, <1>15, <1>16, TypesAreTypeOKNext DEF IInv

\* The alerts can be counted.
LEMMA AlertsFinite == IsFiniteSet(Alerts)
BY FS_Interval, Bounds DEF Alerts

\* A batch takes the first candidates: one that precedes a member is a member.
LEMMA BatchIsFirst ==
    ASSUME NEW C, C \subseteq Alerts, NEW a \in C, NEW b \in C, a < b,
           Cardinality({x \in C : x < b}) < BatchLimit
    PROVE  Cardinality({x \in C : x < a}) < BatchLimit
<1>1. IsFiniteSet({x \in C : x < b})
  <2>1. {x \in C : x < b} \subseteq Alerts
    OBVIOUS
  <2> QED BY <2>1, AlertsFinite, FS_Subset
<1>2. {x \in C : x < a} \subseteq {x \in C : x < b}
  <2> SUFFICES ASSUME NEW x \in C, x < a PROVE x < b
    OBVIOUS
  <2>1. x \in Alerts /\ a \in Alerts /\ b \in Alerts
    OBVIOUS
  <2> QED BY <2>1, Bounds DEF Alerts
<1>3. /\ Cardinality({x \in C : x < a}) \in Nat /\ Cardinality({x \in C : x < b}) \in Nat
      /\ Cardinality({x \in C : x < a}) <= Cardinality({x \in C : x < b})
  BY <1>1, <1>2, FS_Subset, FS_CardinalityType
<1> QED BY <1>3, Bounds

\* Where there are candidates, the first of them is listed.
LEMMA BatchNotEmpty ==
    ASSUME NEW C, C \subseteq Alerts, C # {}
    PROVE  {a \in C : Cardinality({b \in C : b < a}) < BatchLimit} # {}
<1>1. C \subseteq Nat
  BY Bounds DEF Alerts
<1> DEFINE less == {pair \in Nat \X Nat : pair[1] < pair[2]}
<1>2. IsWellFoundedOn(less, Nat)
  BY NatLessThanWellFounded DEF OpToRel
<1>3. PICK x \in C : \A y \in C : ~(<<y, x>> \in less)
  BY <1>1, <1>2, WFMin
<1>4. \A y \in C : ~(y < x)
  BY <1>1, <1>3
<1>5. {b \in C : b < x} = {}
  BY <1>4
<1> QED BY <1>5, FS_EmptySet, Bounds

\* The next batch has the lowest ids that are left.
LEMMA ListCandidatesKeeps == ASSUME IInv, NEW r \in Replicas, ListCandidates(r) PROVE IInv'
<1>1. Types
  BY TypesAreTypeOK DEF IInv
<1>2. UNCHANGED <<now, market, marketPrices, alerts, crossings, jobs, lastId, fetches, cache, requests, faults>>
  BY DEF ListCandidates
<1> DEFINE batch == {a \in Candidates(r) : Cardinality({b \in Candidates(r) : b < a}) < BatchLimit}
           Row(a) == [id |-> a, price |-> crossings[a].price, at |-> crossings[a].at]
           rows == {Row(a) : a \in batch}
<1>3. CASE batch = {}
  <2>1. tickers' = [tickers EXCEPT ![r] = NewTicker(tickers[r].enabled)]
    BY <1>3 DEF ListCandidates
  <2>2. tickers' \in [Replicas -> Ticker] /\ Listed' /\ Ahead'
    BY <1>2, <2>1, PassEnds DEF requests
  <2>3. tickers'[r].startedAt = Zero /\ \A q \in Replicas \ {r} : tickers'[q] = tickers[q]
    BY <1>1, <2>1 DEF Types, NewTicker
  <2>4. Types'
    BY <1>1, <1>2, <2>2 DEF Types, requests
  <2> QED BY <1>2, <2>2, <2>3, <2>4, TickerFrame, TypesAreTypeOKNext DEF IInv
<1>4. CASE batch # {}
  <2> DEFINE t == [tickers[r] EXCEPT !.pc = "triggering", !.batch = rows]
  <2>1. tickers' = [tickers EXCEPT ![r] = t]
    BY <1>4 DEF ListCandidates
  <2>2. /\ batch \subseteq Candidates(r) /\ Candidates(r) \subseteq Alerts
        /\ \A a \in Candidates(r) : alerts[a].status = "active" /\ crossings[a] # NoCrossing
    BY DEF Candidates
  <2>3. \A a, b \in Candidates(r) : a < b /\ b \in batch => a \in batch
    BY <2>2, BatchIsFirst
  <2> HIDE DEF batch
  <2>12. /\ \A a \in batch : Row(a) \in [id : Alerts, price : Nat, at : Times]
         /\ \A a : Row(a).id = a /\ Row(a).price = crossings[a].price /\ Row(a).at = crossings[a].at
    BY <1>1, <2>2 DEF Types, CrossingRow
  <2> HIDE DEF Row
  <2>4. /\ \A row \in rows : /\ row.id \in batch /\ row.id \in Alerts
                             /\ row.price = crossings[row.id].price /\ row.at = crossings[row.id].at
        /\ \A a \in batch : \E row \in rows : row.id = a
    BY <2>2, <2>12
  <2>5. rows \in SUBSET [id : Alerts, price : Nat, at : Times] /\ rows # {}
    BY <1>4, <2>12
  <2> HIDE DEF rows
  <2>6. tickers[r] \in Ticker
    BY <1>1 DEF Types
  <2>7. /\ t \in Ticker /\ t.pc = "triggering" /\ t.batch = rows /\ t.startedAt = tickers[r].startedAt
        /\ t.due = tickers[r].due /\ t.busy = tickers[r].busy /\ t.afterId = tickers[r].afterId
    BY <2>5, <2>6 DEF Ticker
  <2> HIDE DEF t
  <2>8. /\ tickers' \in [Replicas -> Ticker] /\ tickers'[r] = t
        /\ \A q \in Replicas \ {r} : tickers'[q] = tickers[q]
    BY <1>1, <2>1, <2>7 DEF Types
  <2>9. Listed'
    BY <1>2, <2>2, <2>4, <2>7, <2>8 DEF IInv, Listed
  <2>10. Ahead'
    <3>1. \A q \in Replicas \ {r} : Ahead!(q)'
      BY <1>2, <2>8 DEF IInv, Ahead, requests
    <3>2. ASSUME NEW a \in tickers[r].due, alerts[a].status = "active", a \notin tickers[r].busy,
                 NEW row \in rows, a < row.id
          PROVE  \E other \in rows : other.id = a
      <4>1. a \in Alerts
        BY <2>6 DEF Ticker
      <4>2. a \in Candidates(r)
        BY <3>2, <4>1 DEF IInv, Ahead, Candidates
      <4> QED BY <2>2, <2>3, <2>4, <3>2, <4>2
    <3>3. Ahead!(r)'
      BY <1>2, <2>5, <2>7, <2>8, <3>2 DEF IInv, Ahead, requests
    <3> QED BY <3>1, <3>3 DEF Ahead
  <2>11. Types'
    BY <1>1, <1>2, <2>8 DEF Types, requests
  <2> QED BY <1>2, <2>7, <2>8, <2>9, <2>10, <2>11, TickerFrame, TypesAreTypeOKNext DEF IInv
<1> QED BY <1>3, <1>4

\* Where no alert begins to count, the limit holds on.
LEMMA CountedShrinks ==
    ASSUME IInv, \A c \in Chats : Counted(c)' \subseteq Counted(c)
    PROVE  Limited'
<1> SUFFICES ASSUME NEW c \in Chats PROVE Cardinality(Counted(c)') <= MaxActive
  BY DEF Limited
<1>1. Counted(c) \subseteq Alerts
  BY DEF Counted
<1>2. IsFiniteSet(Counted(c))
  BY <1>1, AlertsFinite, FS_Subset
<1>3. /\ Cardinality(Counted(c)') \in Nat /\ Cardinality(Counted(c)) \in Nat
      /\ Cardinality(Counted(c)') <= Cardinality(Counted(c))
  BY <1>2, FS_Subset, FS_CardinalityType
<1> QED BY <1>3, Bounds DEF IInv, Limited

\* The ticker after a candidate.
LEMMA Afterwards ==
    ASSUME IInv, NEW r \in Replicas, NEW candidate \in tickers[r].batch, NEW skipped \in BOOLEAN,
           After(r, candidate, skipped)
    PROVE  /\ tickers' \in [Replicas -> Ticker]
           /\ \A q \in Replicas \ {r} : tickers'[q] = tickers[q]
           /\ tickers'[r].pc \in {"listing", "triggering"}
           /\ tickers'[r].pc = "triggering" <=> tickers'[r].batch # {}
           /\ tickers'[r].batch = tickers[r].batch \ {candidate} /\ tickers'[r].afterId = candidate.id
           /\ tickers'[r].due = tickers[r].due /\ tickers'[r].startedAt = tickers[r].startedAt
           /\ tickers[r].busy \subseteq tickers'[r].busy /\ (skipped => candidate.id \in tickers'[r].busy)
<1>1. tickers \in [Replicas -> Ticker] /\ tickers[r] \in Ticker
  BY TypesAreTypeOK DEF IInv, Types
<1> DEFINE pc == IF tickers[r].batch = {candidate} THEN "listing" ELSE "triggering"
           busy == IF skipped THEN tickers[r].busy \cup {candidate.id} ELSE tickers[r].busy
           t == [tickers[r] EXCEPT !.batch = @ \ {candidate}, !.afterId = candidate.id, !.pc = pc, !.busy = busy]
<1>2. tickers' = [tickers EXCEPT ![r] = t]
  BY <1>1 DEF After, Ticker
<1>3. candidate.id \in Alerts /\ candidate.id \in 0..MaxAlerts
  BY <1>1, Bounds DEF Ticker, Alerts
<1>4. /\ pc \in {"listing", "triggering"} /\ busy \in SUBSET Alerts
      /\ pc = "triggering" <=> tickers[r].batch \ {candidate} # {}
      /\ tickers[r].busy \subseteq busy
      /\ skipped => candidate.id \in busy
  BY <1>1, <1>3 DEF Ticker
<1> HIDE DEF pc, busy
<1>5. /\ t \in Ticker /\ t.pc = pc /\ t.batch = tickers[r].batch \ {candidate} /\ t.afterId = candidate.id
      /\ t.due = tickers[r].due /\ t.busy = busy /\ t.startedAt = tickers[r].startedAt
  BY <1>1, <1>3, <1>4 DEF Ticker
<1> HIDE DEF t
<1>6. /\ tickers' \in [Replicas -> Ticker] /\ tickers'[r] = t
      /\ \A q \in Replicas \ {r} : tickers'[q] = tickers[q]
  BY <1>1, <1>2, <1>5
<1> QED BY <1>4, <1>5, <1>6

\* The rest of the batch and of the pass, when the candidate has been dealt with.
LEMMA StillAhead ==
    ASSUME IInv, NEW r \in Replicas, NEW candidate \in tickers[r].batch, NEW skipped \in BOOLEAN,
           After(r, candidate, skipped), \A other \in tickers[r].batch : candidate.id <= other.id,
           skipped \/ alerts'[candidate.id].status # "active",
           UNCHANGED <<lastId, updates>>,
           \A a \in Alerts : alerts'[a].status = "active" =>
               alerts[a].status = "active" /\ crossings'[a] = crossings[a],
           \A a \in Alerts : alerts[a].status # "absent" => alerts'[a].status # "absent"
    PROVE  Listed' /\ Ahead'
<1>1. /\ \A q \in Replicas \ {r} : tickers'[q] = tickers[q]
      /\ tickers'[r].pc = "triggering" <=> tickers'[r].batch # {}
      /\ tickers'[r].batch = tickers[r].batch \ {candidate} /\ tickers'[r].afterId = candidate.id
      /\ tickers'[r].due = tickers[r].due
      /\ tickers[r].busy \subseteq tickers'[r].busy /\ (skipped => candidate.id \in tickers'[r].busy)
  BY Afterwards
<1>2. \A q \in Replicas : /\ tickers[q].due \subseteq Alerts
                          /\ \A other \in tickers[q].batch : other.id \in Alerts
  BY TypesAreTypeOK DEF IInv, Types, Ticker
<1>3. Listed'
  BY <1>1, <1>2 DEF IInv, Listed
<1>4. \A q \in Replicas \ {r} : Ahead!(q)'
  BY <1>1, <1>2 DEF IInv, Ahead
<1>5. ASSUME NEW a \in tickers[r].due, alerts'[a].status = "active", a \notin tickers'[r].busy
      PROVE  /\ a > candidate.id
             /\ \A other \in tickers'[r].batch :
                    a < other.id => \E third \in tickers'[r].batch : third.id = a
  <2>1. a \in Alerts /\ candidate.id \in Alerts /\ a # candidate.id
    BY <1>1, <1>2, <1>5
  <2>2. \A other \in tickers[r].batch : a < other.id => \E third \in tickers[r].batch : third.id = a
    BY <1>1, <1>5, <2>1 DEF IInv, Ahead
  <2>3. ~(a < candidate.id)
    <3> SUFFICES ASSUME a < candidate.id PROVE FALSE
      OBVIOUS
    <3>1. PICK third \in tickers[r].batch : third.id = a
      BY <2>2
    <3> QED BY <2>1, <3>1, Bounds DEF Alerts
  <2>4. a > candidate.id
    BY <2>1, <2>3, Bounds DEF Alerts
  <2> QED BY <1>1, <2>1, <2>2, <2>4
<1>6. Ahead!(r)'
  BY <1>1, <1>2, <1>5 DEF IInv, Ahead
<1> QED BY <1>3, <1>4, <1>6 DEF Ahead

\* What holds on when one alert that exists leaves the status active or triggered, with its
\* crossing or without it, and no update, delivery, fetch or clock moves.
LEMMA AlertLeaves ==
    ASSUME IInv, NEW id \in Alerts, alerts[id].status # "absent",
           alerts'[id].status \notin {"absent", "active"},
           \A f \in {"chat", "symbol", "percent", "base", "target", "createdAt"} : alerts'[id][f] = alerts[id][f],
           \A a \in Alerts \ {id} : alerts'[a] = alerts[a] /\ jobs'[a] = jobs[a] /\ crossings'[a] = crossings[a],
           crossings'[id] \in {crossings[id], NoCrossing},
           jobs'[id] \in {"pending", "sending"} => alerts'[id].status = "triggered" /\ alerts[id].status = "active",
           \A c \in Chats : sends[c] # id,
           UNCHANGED <<fetches, lastId, requests>>
    PROVE  Rows' /\ Drawn' /\ Sending' /\ Limited' /\ SeenInTime' /\ ObservedInTime'
<1>1. Types
  BY TypesAreTypeOK DEF IInv
<1>2. /\ alerts'[id].chat = alerts[id].chat /\ alerts'[id].symbol = alerts[id].symbol
      /\ alerts'[id].base = alerts[id].base /\ alerts'[id].createdAt = alerts[id].createdAt
  OBVIOUS
<1>3. Rows'
  BY DEF IInv, Rows, Open
<1>4. Drawn'
  <2>1. \A c \in Chats : updates[c].id # 0 => updates[c].id # id /\ updates[c].id \in Alerts
    BY <1>1, Bounds DEF IInv, Drawn, Types, Update, Alerts
  <2> QED BY <2>1 DEF IInv, Drawn, requests
<1>5. Sending'
  <2>1. \A c \in Chats : sends[c] # 0 => sends[c] # id /\ sends[c] \in Alerts
    BY <1>1, Bounds DEF Types, Alerts
  <2> QED BY <2>1 DEF IInv, Sending, Open, requests
<1>6. Limited'
  <2>1. \A c \in Chats : Counted(c)' \subseteq Counted(c)
    BY <1>2 DEF Counted, Open, requests
  <2> QED BY <2>1, CountedShrinks
<1>7. SeenInTime'
  <2>1. \A r \in Replicas, s \in Symbols : fetches[r][s].crossed \subseteq Alerts
    BY <1>1 DEF Types, Fetch
  <2>2. \A a \in Alerts : /\ alerts[a].status # "absent" => alerts'[a].status # "absent"
                          /\ alerts'[a].symbol = alerts[a].symbol
                          /\ alerts'[a].base = alerts[a].base /\ alerts'[a].createdAt = alerts[a].createdAt
                          /\ alerts'[a].status = "active" => alerts[a].status = "active" /\ crossings'[a] = crossings[a]
    BY <1>2
  <2> QED BY <2>1, <2>2 DEF IInv, SeenInTime
<1>8. ObservedInTime'
  BY <1>2 DEF IInv, ObservedInTime, HasCrossing, QuotedAfterCreation, QuoteStillFresh
<1> QED BY <1>3, <1>4, <1>5, <1>6, <1>7, <1>8

\* A trigger moves one alert from active to triggered, or finds its chat busy or it canceled.
LEMMA TriggerPriceAlertKeeps ==
    ASSUME IInv, NEW r \in Replicas, NEW candidate \in tickers[r].batch, TriggerPriceAlert(r, candidate)
    PROVE  IInv'
<1>1. Types
  BY TypesAreTypeOK DEF IInv
<1> DEFINE id == candidate.id
<1>2. UNCHANGED <<now, market, marketPrices, lastId, fetches, cache, requests, faults>>
  BY DEF TriggerPriceAlert
<1>3. /\ candidate \in [id : Alerts, price : Nat, at : Times]
      /\ id \in Alerts /\ \A other \in tickers[r].batch : id <= other.id
  BY <1>1 DEF Types, Ticker, TriggerPriceAlert
<1>4. CASE Triggerable(id) /\ LockFree(alerts[id].chat)
  <2> DEFINE trigger == [price |-> candidate.price, at |-> candidate.at]
             row == [alerts[id] EXCEPT !.status = "triggered", !.trigger = trigger]
  <2>1. /\ alerts' = [alerts EXCEPT ![id].status = "triggered", ![id].trigger = trigger]
        /\ jobs' = [jobs EXCEPT ![id] = "pending"]
        /\ crossings' = [crossings EXCEPT ![id] = NoCrossing]
        /\ After(r, candidate, FALSE)
    BY <1>4 DEF TriggerPriceAlert
  <2>2. alerts[id] \in AlertRow /\ alerts[id].status = "active" /\ trigger \in PriceAt
    BY <1>1, <1>3, <1>4 DEF Types, Triggerable, PriceAt
  <2> HIDE DEF trigger
  <2>3. alerts' = [alerts EXCEPT ![id] = row]
    BY <1>1, <1>3, <2>1 DEF Types, AlertRow
  <2>4. /\ row \in AlertRow /\ row.status = "triggered"
        /\ \A f \in {"chat", "symbol", "percent", "base", "target", "createdAt"} : row[f] = alerts[id][f]
    BY <2>2 DEF AlertRow
  <2> HIDE DEF row
  <2>5. /\ alerts' \in [Alerts -> AlertRow] /\ alerts'[id] = row
        /\ jobs' \in [Alerts -> {"none", "pending", "sending", "sent", "failed", "canceled"}]
        /\ crossings' \in [Alerts -> CrossingRow] /\ crossings'[id] = NoCrossing /\ jobs'[id] = "pending"
        /\ \A a \in Alerts \ {id} : alerts'[a] = alerts[a] /\ jobs'[a] = jobs[a] /\ crossings'[a] = crossings[a]
    BY <1>1, <1>3, <2>1, <2>3, <2>4, Neutral DEF Types
  <2>6. \A c \in Chats : sends[c] # id
    BY <1>3, <2>2 DEF IInv, Sending, Alerts
  <2>7. Rows' /\ Drawn' /\ Sending' /\ Limited' /\ SeenInTime' /\ ObservedInTime'
    BY <1>2, <1>3, <2>2, <2>4, <2>5, <2>6, AlertLeaves
  <2>8. \A a \in Alerts : /\ alerts'[a].status = "active" => alerts[a].status = "active" /\ crossings'[a] = crossings[a]
                          /\ alerts[a].status # "absent" => alerts'[a].status # "absent"
    BY <2>4, <2>5
  <2>9. Listed' /\ Ahead'
    BY <1>2, <1>3, <2>1, <2>4, <2>5, <2>8, StillAhead DEF requests
  <2>10. tickers' \in [Replicas -> Ticker] /\ \A q \in Replicas : tickers'[q].startedAt = tickers[q].startedAt
    BY <2>1, Afterwards
  <2>11. Types'
    BY <1>1, <1>2, <2>5, <2>10 DEF Types, requests
  <2> QED BY <1>2, <2>7, <2>9, <2>10, <2>11, FetchesFrame, TypesAreTypeOKNext DEF IInv
<1>5. CASE ~(Triggerable(id) /\ LockFree(alerts[id].chat))
  <2>1. After(r, candidate, Triggerable(id)) /\ UNCHANGED <<alerts, jobs, crossings>>
    BY <1>5 DEF TriggerPriceAlert
  <2>2. Triggerable(id) \in BOOLEAN /\ (Triggerable(id) \/ alerts'[id].status # "active")
    BY <2>1 DEF Triggerable
  <2> DEFINE skipped == Triggerable(id)
  <2>3. skipped \in BOOLEAN /\ After(r, candidate, skipped) /\ (skipped \/ alerts'[id].status # "active")
    BY <2>1, <2>2
  <2> HIDE DEF skipped
  <2>4. Listed' /\ Ahead'
    BY <1>2, <1>3, <2>1, <2>3, StillAhead DEF requests
  <2>5. /\ tickers' \in [Replicas -> Ticker] /\ tickers'[r].startedAt = tickers[r].startedAt
        /\ \A q \in Replicas \ {r} : tickers'[q] = tickers[q]
    BY <2>3, Afterwards
  <2>6. Types'
    BY <1>1, <1>2, <2>1, <2>5 DEF Types, requests
  <2> QED BY <1>2, <2>1, <2>4, <2>5, <2>6, TickerFrame, TypesAreTypeOKNext DEF IInv
<1> QED BY <1>4, <1>5

\* A replica that restarts has nothing in memory and reads the committed prices.
LEMMA RestartKeeps == ASSUME IInv, NEW r \in Replicas, NEW enabled \in BOOLEAN, Restart(r, enabled) PROVE IInv'
<1>1. Types
  BY TypesAreTypeOK DEF IInv
<1>2. UNCHANGED <<now, market, marketPrices, alerts, crossings, jobs, lastId, sends>> /\ faults' \in 0..MaxFaults
  BY <1>1, Bounds DEF Restart, Fault, Types
<1>3. /\ tickers' \in [Replicas -> Ticker]
      /\ tickers'[r].batch = {} /\ tickers'[r].due = {} /\ tickers'[r].pc = "idle" /\ tickers'[r].startedAt = Zero
      /\ \A q \in Replicas \ {r} : tickers'[q] = tickers[q]
  <2>1. NewTicker(enabled) \in Ticker
    BY Neutral
  <2>2. tickers' = [tickers EXCEPT ![r] = NewTicker(enabled)]
    BY DEF Restart
  <2> QED BY <1>1, <2>1, <2>2 DEF Types, NewTicker
<1>4. /\ fetches' \in [Replicas -> [Symbols -> Fetch]]
      /\ \A s \in Symbols : fetches'[r][s] = NoFetch
      /\ \A q \in Replicas \ {r} : fetches'[q] = fetches[q]
  BY <1>1, Neutral DEF Restart, Types
<1>5. PICK warm \in SUBSET Symbols :
          cache' = [cache EXCEPT ![r] = [s \in Symbols |-> IF s \in warm THEN marketPrices[s] ELSE NoPrice]]
  BY DEF Restart
<1>6. /\ cache' \in [Replicas -> [Symbols -> PriceAt]]
      /\ \A s \in Symbols : cache'[r][s] \in {marketPrices[s], NoPrice}
      /\ \A q \in Replicas \ {r} : cache'[q] = cache[q]
  BY <1>1, <1>5, Neutral DEF Types
<1>7. updates' \in [Chats -> Update] /\ \A c \in Chats : updates'[c] \in {updates[c], NoUpdate}
  BY <1>1, Neutral DEF Restart, Types
<1>8. QuoteTimes'
  <2>1. Zero <= now
    BY <1>1, Bounds DEF Zero, Types, Times
  <2> QED BY <1>2, <1>3, <1>4, <2>1 DEF IInv, QuoteTimes, NoFetch
<1>9. OneWriter' /\ SeenInTime'
  BY <1>2, <1>4 DEF IInv, OneWriter, SeenInTime, NoFetch
<1>10. PriceOrder'
  <2>1. \A s \in Symbols : /\ marketPrices[s].at <= marketPrices[s].at
                           /\ marketPrices[s] # NoPrice => marketPrices[s].price > 0
    BY <1>1, Bounds DEF IInv, PriceOrder, Types, PriceAt, Times
  <2> QED BY <1>2, <1>4, <1>6, <2>1 DEF IInv, PriceOrder, NoFetch
<1>11. Rows' /\ Sending' /\ ObservedInTime'
  BY <1>2 DEF IInv, Rows, Sending, Open, ObservedInTime, HasCrossing, QuotedAfterCreation, QuoteStillFresh
<1>12. Drawn'
  BY <1>2, <1>7 DEF IInv, Drawn, NoUpdate
<1>13. Limited'
  <2>1. \A c \in Chats : Counted(c)' \subseteq Counted(c)
    BY <1>2, <1>7 DEF Counted, Open, NoUpdate, Alerts
  <2> QED BY <2>1, CountedShrinks
<1>14. Listed'
  BY <1>2, <1>3 DEF IInv, Listed
<1>15. Ahead'
  <2>1. \A q \in Replicas : tickers[q].due \subseteq Alerts /\ 0 \notin Alerts
    BY <1>1, Bounds DEF Types, Ticker, Alerts
  <2>2. \A q \in Replicas \ {r} : Ahead!(q)'
    BY <1>2, <1>3, <1>7, <2>1 DEF IInv, Ahead, NoUpdate
  <2>3. Ahead!(r)'
    BY <1>3
  <2> QED BY <2>2, <2>3 DEF Ahead
<1>16. Types'
  BY <1>1, <1>2, <1>3, <1>4, <1>6, <1>7 DEF Types
<1> QED BY <1>8, <1>9, <1>10, <1>11, <1>12, <1>13, <1>14, <1>15, <1>16, TypesAreTypeOKNext DEF IInv

-----------------------------------------------------------------------------
(* What users do *)

\* The conjuncts that no step of a user or a delivery concerns.
LEMMA OutsideFrame ==
    ASSUME IInv, UNCHANGED <<now, marketPrices, tickers, fetches, cache>>
    PROVE  QuoteTimes' /\ OneWriter' /\ PriceOrder'
BY FetchesFrame

\* An update transaction that ends or has no row of its own.
LEMMA UpdateFrame ==
    ASSUME IInv, UNCHANGED <<now, market, marketPrices, alerts, crossings, jobs, lastId, tickers, fetches, cache, sends>>,
           faults' \in 0..MaxFaults,
           updates' \in [Chats -> Update], \A c \in Chats : updates'[c] = updates[c] \/ updates'[c].id = 0
    PROVE  IInv'
<1>1. Types
  BY TypesAreTypeOK DEF IInv
<1>2. Rows' /\ Sending' /\ ObservedInTime'
  BY DEF IInv, Rows, Sending, Open, ObservedInTime, HasCrossing, QuotedAfterCreation, QuoteStillFresh
<1>3. Drawn'
  BY DEF IInv, Drawn
<1>4. Limited'
  <2>1. 0 \notin Alerts
    BY Bounds DEF Alerts
  <2>2. \A c \in Chats : Counted(c)' \subseteq Counted(c)
    BY <2>1 DEF Counted, Open
  <2> QED BY <2>2, CountedShrinks
<1>5. SeenInTime' /\ Listed'
  BY DEF IInv, SeenInTime, Listed
<1>6. Ahead'
  <2>1. \A q \in Replicas : tickers[q].due \subseteq Alerts /\ 0 \notin Alerts
    BY <1>1, Bounds DEF Types, Ticker, Alerts
  <2> QED BY <2>1 DEF IInv, Ahead
<1>7. Types'
  BY <1>1 DEF Types
<1> QED BY <1>2, <1>3, <1>4, <1>5, <1>6, <1>7, OutsideFrame, TypesAreTypeOKNext DEF IInv

\* An update that does not concern alerts only holds the lock.
LEMMA OtherUpdateKeeps == ASSUME IInv, NEW r \in Replicas, NEW c \in Chats, OtherUpdate(r, c) PROVE IInv'
<1>1. Types
  BY TypesAreTypeOK DEF IInv
<1> DEFINE update == [NoUpdate EXCEPT !.replica = r]
<1>2. update \in Update /\ update.id = 0
  BY Neutral DEF Update, NoUpdate
<1>3. updates' = [updates EXCEPT ![c] = update]
  BY DEF OtherUpdate
<1> HIDE DEF update
<1>4. updates' \in [Chats -> Update] /\ \A d \in Chats : updates'[d] = updates[d] \/ updates'[d].id = 0
  BY <1>1, <1>2, <1>3 DEF Types
<1>5. faults' \in 0..MaxFaults
  BY <1>1, Bounds DEF Types, OtherUpdate, Fault
<1> QED BY <1>4, <1>5, UpdateFrame DEF OtherUpdate

\* A transaction rolled back leaves no alert; its id is used up.
LEMMA RollBackUpdateKeeps == ASSUME IInv, NEW c \in Chats, RollBackUpdate(c) PROVE IInv'
<1>1. Types
  BY TypesAreTypeOK DEF IInv
<1>2. updates' \in [Chats -> Update] /\ \A d \in Chats : updates'[d] = updates[d] \/ updates'[d] = NoUpdate
  BY <1>1, Neutral DEF Types, RollBackUpdate
<1>3. faults' \in 0..MaxFaults
  BY <1>1, Bounds DEF Types, RollBackUpdate, Fault
<1> QED BY <1>2, <1>3, UpdateFrame DEF RollBackUpdate, NoUpdate

\* The new alert is counted with the others before it is inserted.
LEMMA CreatePriceAlertKeeps ==
    ASSUME IInv, NEW r \in Replicas, NEW c \in Chats, NEW s \in Symbols, NEW percent \in Percents,
           CreatePriceAlert(r, c, s, percent)
    PROVE  IInv'
<1>1. Types
  BY TypesAreTypeOK DEF IInv
<1> DEFINE entry == cache[r][s]
           id == lastId + 1
           target == alertTarget(entry.price, percent)
           row == [status |-> "active", chat |-> c, symbol |-> s, percent |-> percent, base |-> entry,
                   target |-> target, createdAt |-> now, trigger |-> NoPrice]
           update == [replica |-> r, id |-> id, row |-> row]
<1>2. /\ UNCHANGED <<now, market, marketPrices, alerts, crossings, jobs, tickers, fetches, cache, sends, faults>>
      /\ lastId < MaxAlerts /\ LockFree(c) /\ CountAlerts(c) < MaxActive
      /\ target > entry.price \/ target > 0
      /\ lastId' = id /\ updates' = [updates EXCEPT ![c] = update]
  BY DEF CreatePriceAlert
<1>3. lastId \in Nat /\ id \in Alerts /\ id \in 0..MaxAlerts /\ id > lastId /\ id # 0
  BY <1>1, <1>2, Bounds DEF Types, Alerts
<1>4. target \in Nat
  <2>1. entry.price \in Nat /\ percent \in Int
    BY <1>1, Bounds DEF Types, PriceAt
  <2>2. target \in Int
    BY <2>1 DEF alertTarget
  <2> HIDE DEF target, entry
  <2> QED BY <1>2, <2>1, <2>2
<1> HIDE DEF target
<1>5. row \in AlertRow /\ row.status = "active" /\ row.chat = c
  BY <1>1, <1>4, Bounds, Neutral DEF Types, AlertRow
<1> HIDE DEF row, id
<1>6. update \in Update /\ update.id = id /\ update.row = row
  BY <1>3, <1>5 DEF Update
<1> HIDE DEF update
<1>7. /\ updates' \in [Chats -> Update] /\ updates'[c] = update
      /\ \A d \in Chats \ {c} : updates'[d] = updates[d]
  BY <1>1, <1>2, <1>6 DEF Types
<1>8. alerts[id].status = "absent" /\ \A d \in Chats : updates[d].id # id
  <2>1. alerts[id].status = "absent"
    BY <1>3 DEF IInv, Rows
  <2>2. \A d \in Chats : updates[d].id # 0 => updates[d].id <= lastId
    BY DEF IInv, Drawn
  <2> QED BY <1>3, <2>1, <2>2
<1>9. Rows'
  <2>1. \A a \in Alerts : a > lastId' => a > lastId
    BY <1>2, <1>3, Bounds DEF Alerts, id
  <2> QED BY <1>2, <2>1 DEF IInv, Rows, Open
<1>10. Drawn'
  <2>1. \A d \in Chats : updates[d].id \in Int
    BY <1>1, Bounds DEF Types, Update
  <2>2. \A d \in Chats : updates[d].id <= lastId => updates[d].id <= id
    BY <1>3, <2>1 DEF id
  <2>3. id <= id
    BY <1>3 DEF Alerts
  <2> QED BY <1>2, <1>5, <1>6, <1>7, <1>8, <2>2, <2>3 DEF IInv, Drawn
<1>11. Sending' /\ ObservedInTime'
  BY <1>2 DEF IInv, Sending, Open, ObservedInTime, HasCrossing, QuotedAfterCreation, QuoteStillFresh
<1>12. Limited'
  <2> SUFFICES ASSUME NEW d \in Chats PROVE Cardinality(Counted(d)') <= MaxActive
    BY DEF Limited
  <2>1. CASE d # c
    <3>1. Counted(d)' = Counted(d)
      BY <1>2, <1>7, <2>1 DEF Counted, Open
    <3> QED BY <3>1 DEF IInv, Limited
  <2>2. CASE d = c
    <3> DEFINE counted == {a \in Alerts : alerts[a].chat = c /\ (alerts[a].status = "active" \/ Open(a))}
    <3>1. IsFiniteSet(counted) /\ Cardinality(counted) \in Nat /\ Cardinality(counted) < MaxActive
      <4>1. counted \subseteq Alerts
        OBVIOUS
      <4>2. IsFiniteSet(counted) /\ Cardinality(counted) \in Nat
        BY <4>1, AlertsFinite, FS_Subset, FS_CardinalityType
      <4> QED BY <1>2, <4>2 DEF CountAlerts
    <3>2. Counted(c)' = counted \cup {id} 
      BY <1>2, <1>3, <1>6, <1>7 DEF Counted, Open
    <3>3. id \notin counted
      BY <1>8 DEF IInv, Rows
    <3> HIDE DEF counted
    <3>4. Cardinality(counted \cup {id}) = Cardinality(counted) + 1
      BY <3>1, <3>3, FS_AddElement
    <3> QED BY <2>2, <3>1, <3>2, <3>4, Bounds
  <2> QED BY <2>1, <2>2
<1>13. SeenInTime' /\ Listed'
  BY <1>2 DEF IInv, SeenInTime, Listed
<1>14. Ahead'
  <2>1. ASSUME NEW q \in Replicas, NEW a \in tickers[q].due PROVE a <= id /\ a # id /\ a <= lastId
    <3>1. a \in Alerts /\ a <= lastId
      BY <1>1, <2>1 DEF Types, Ticker, IInv, Ahead
    <3> QED BY <1>3, <3>1 DEF Alerts
  <2> QED BY <1>2, <1>6, <1>7, <2>1 DEF IInv, Ahead
<1>15. Types'
  BY <1>1, <1>2, <1>3, <1>7 DEF Types
<1> QED BY <1>2, <1>9, <1>10, <1>11, <1>12, <1>13, <1>14, <1>15, OutsideFrame, TypesAreTypeOKNext DEF IInv

\* The passes under way, when alerts only stop being active and listed ones stay.
LEMMA PassKept ==
    ASSUME IInv, UNCHANGED <<tickers, lastId, updates>>,
           \A a \in Alerts : alerts'[a].status = "active" =>
               alerts[a].status = "active" /\ crossings'[a] = crossings[a],
           \A r \in Replicas : \A candidate \in tickers[r].batch : alerts'[candidate.id].status # "absent"
    PROVE  Listed' /\ Ahead'
<1>1. \A r \in Replicas : /\ tickers[r].due \subseteq Alerts
                          /\ \A other \in tickers[r].batch : other.id \in Alerts
  BY TypesAreTypeOK DEF IInv, Types, Ticker
<1>2. Listed'
  BY <1>1 DEF IInv, Listed
<1>3. Ahead'
  BY <1>1 DEF IInv, Ahead
<1> QED BY <1>2, <1>3

\* The new alert becomes visible, counted already.
LEMMA CommitUpdateKeeps == ASSUME IInv, NEW c \in Chats, CommitUpdate(c) PROVE IInv'
<1>1. Types
  BY TypesAreTypeOK DEF IInv
<1> DEFINE id == updates[c].id
<1>2. /\ UNCHANGED <<now, market, marketPrices, crossings, jobs, lastId, tickers, fetches, cache, sends, faults>>
      /\ updates' = [updates EXCEPT ![c] = NoUpdate]
  BY DEF CommitUpdate
<1>3. /\ updates' \in [Chats -> Update] /\ updates'[c] = NoUpdate
      /\ \A d \in Chats \ {c} : updates'[d] = updates[d]
  BY <1>1, <1>2, Neutral DEF Types
<1>4. faults' \in 0..MaxFaults
  BY <1>1, <1>2 DEF Types
<1>5. CASE id = 0
  <2>1. UNCHANGED alerts /\ \A d \in Chats : updates'[d] = updates[d] \/ updates'[d].id = 0
    BY <1>3, <1>5 DEF CommitUpdate, NoUpdate
  <2> QED BY <1>2, <1>3, <1>4, <2>1, UpdateFrame
<1>6. CASE id # 0
  <2> DEFINE row == updates[c].row
  <2>1. id \in Alerts /\ row \in AlertRow
    BY <1>1, <1>6, Bounds DEF Types, Update, Alerts
  <2>2. /\ id <= lastId /\ alerts[id].status = "absent" /\ row.chat = c /\ row.status = "active"
        /\ \A d \in Chats \ {c} : updates[d].id # id
        /\ jobs[id] = "none" /\ crossings[id] = NoCrossing
    BY <1>6, <2>1 DEF IInv, Drawn, Rows
  <2>3. alerts' = [alerts EXCEPT ![id] = row]
    BY <1>6 DEF CommitUpdate
  <2> HIDE DEF id, row
  <2>4. /\ alerts' \in [Alerts -> AlertRow] /\ alerts'[id] = row
        /\ \A a \in Alerts \ {id} : alerts'[a] = alerts[a]
    BY <1>1, <2>1, <2>3 DEF Types
  <2>5. Rows'
    <3>1. ~(id > lastId)
      BY <1>1, <2>1, <2>2, Bounds DEF Types, Alerts
    <3> QED BY <1>2, <2>2, <2>4, <3>1 DEF IInv, Rows, Open
  <2>6. Drawn'
    <3>1. \A d \in Chats \ {c} : updates[d].id # 0 => updates[d].id \in Alerts \ {id}
      BY <1>1, <2>2, Bounds DEF Types, Update, Alerts
    <3> QED BY <1>2, <1>3, <2>4, <3>1 DEF IInv, Drawn, NoUpdate
  <2>7. Sending'
    <3>1. \A d \in Chats : sends[d] # 0 => sends[d] \in Alerts /\ sends[d] # id
      BY <1>1, <2>2, Bounds DEF IInv, Sending, Types, Alerts
    <3> QED BY <1>2, <2>4, <3>1 DEF IInv, Sending, Open
  <2>8. Limited'
    <3>1. ASSUME NEW d \in Chats, NEW a \in Counted(d)' PROVE a \in Counted(d)
      <4>1. a \in Alerts /\ a # 0
        BY <3>1, Bounds DEF Counted, Alerts
      <4>2. CASE a = id
        <5>1. d = c
          BY <1>2, <1>3, <2>1, <2>2, <2>4, <3>1, <4>1, <4>2 DEF Counted, NoUpdate, Open
        <5> QED BY <4>1, <4>2, <5>1 DEF Counted, id
      <4>3. CASE a # id
        BY <1>2, <1>3, <2>4, <3>1, <4>1, <4>3 DEF Counted, NoUpdate, Open
      <4> QED BY <4>2, <4>3
    <3> QED BY <3>1, CountedShrinks
  <2>9. SeenInTime'
    <3>1. \A r \in Replicas, s \in Symbols : \A a \in fetches[r][s].crossed : a \in Alerts \ {id}
      BY <1>1, <2>2 DEF Types, Fetch, IInv, SeenInTime
    <3> QED BY <1>2, <2>4, <3>1 DEF IInv, SeenInTime
  <2>10. ObservedInTime'
    BY <1>2, <2>2, <2>4 DEF IInv, ObservedInTime, HasCrossing, QuotedAfterCreation, QuoteStillFresh
  <2>11. Listed'
    <3>1. \A r \in Replicas : \A candidate \in tickers[r].batch : candidate.id \in Alerts \ {id}
      BY <1>1, <2>2 DEF Types, Ticker, IInv, Listed
    <3> QED BY <1>2, <2>4, <3>1 DEF IInv, Listed
  <2>12. Ahead'
    <3>1. \A r \in Replicas : \A a \in tickers[r].due : a \in Alerts \ {id} /\ a # 0
      BY <1>1, Bounds DEF Types, Ticker, IInv, Ahead, Alerts, id
    <3> QED BY <1>2, <1>3, <2>4, <3>1 DEF IInv, Ahead, NoUpdate
  <2>13. Types'
    BY <1>1, <1>2, <1>3, <2>4 DEF Types
  <2> QED BY <1>2, <2>5, <2>6, <2>7, <2>8, <2>9, <2>10, <2>11, <2>12, <2>13, OutsideFrame, TypesAreTypeOKNext
          DEF IInv
<1> QED BY <1>5, <1>6

\* A cancellation takes the alert and its open message together.
LEMMA CancelPriceAlertKeeps == ASSUME IInv, NEW a \in Alerts, CancelPriceAlert(a) PROVE IInv'
<1>1. Types
  BY TypesAreTypeOK DEF IInv
<1>2. UNCHANGED <<now, market, marketPrices, crossings, lastId, tickers, fetches, cache, requests, faults>>
  BY DEF CancelPriceAlert
<1> DEFINE row == [alerts[a] EXCEPT !.status = "canceled"]
<1>3. alerts' = [alerts EXCEPT ![a] = row] /\ alerts[a].status # "absent" /\ LockFree(alerts[a].chat)
  BY <1>1 DEF CancelPriceAlert, Cancelable, Types
<1>4. /\ row \in AlertRow /\ row.status = "canceled"
      /\ \A f \in {"chat", "symbol", "percent", "base", "target", "createdAt"} : row[f] = alerts[a][f]
  <2>1. alerts[a] \in AlertRow
    BY <1>1 DEF Types
  <2> QED BY <2>1 DEF AlertRow
<1> HIDE DEF row
<1>5. /\ alerts' \in [Alerts -> AlertRow] /\ alerts'[a] = row
      /\ \A b \in Alerts \ {a} : alerts'[b] = alerts[b]
  BY <1>1, <1>3, <1>4 DEF Types
<1>6. /\ jobs' \in [Alerts -> {"none", "pending", "sending", "sent", "failed", "canceled"}]
      /\ jobs'[a] \notin {"pending", "sending"}
      /\ \A b \in Alerts \ {a} : jobs'[b] = jobs[b]
  BY <1>1 DEF CancelPriceAlert, JobsAfterCancel, Open, Types
<1>7. \A c \in Chats : sends[c] # a
  <2> SUFFICES ASSUME NEW c \in Chats, sends[c] = a PROVE FALSE
    OBVIOUS
  <2>1. sends[c] # 0
    BY Bounds DEF Alerts
  <2> QED BY <1>3, <2>1 DEF IInv, Sending, LockFree
<1>8. Rows' /\ Drawn' /\ Sending' /\ Limited' /\ SeenInTime' /\ ObservedInTime'
  BY <1>2, <1>3, <1>4, <1>5, <1>6, <1>7, AlertLeaves
<1>9. Listed' /\ Ahead'
  <2>1. \A b \in Alerts : /\ alerts'[b].status = "active" => alerts[b].status = "active"
                          /\ alerts[b].status # "absent" => alerts'[b].status # "absent"
    BY <1>4, <1>5
  <2>2. \A r \in Replicas : \A candidate \in tickers[r].batch : candidate.id \in Alerts /\ alerts[candidate.id].status # "absent"
    BY <1>1 DEF Types, Ticker, IInv, Listed
  <2> QED BY <1>2, <2>1, <2>2, PassKept DEF requests
<1>10. Types'
  BY <1>1, <1>2, <1>5, <1>6 DEF Types, requests
<1> QED BY <1>2, <1>8, <1>9, <1>10, OutsideFrame, TypesAreTypeOKNext DEF IInv

-----------------------------------------------------------------------------
(* Delivery and retention *)

\* A step of the jobs and deliveries alone.
LEMMA JobsFrame ==
    ASSUME IInv, UNCHANGED <<now, market, marketPrices, alerts, crossings, lastId, tickers, fetches, cache, updates>>,
           faults' \in 0..MaxFaults, sends' \in [Chats -> 0..MaxAlerts],
           jobs' \in [Alerts -> {"none", "pending", "sending", "sent", "failed", "canceled"}],
           \A a \in Alerts : Open(a)' => Open(a),
           \A a \in Alerts : jobs[a] = "none" => jobs'[a] = "none",
           Sending'
    PROVE  IInv'
<1>1. Types'
  BY TypesAreTypeOK DEF IInv, Types
<1>2. Rows'
  BY DEF IInv, Rows
<1>3. Limited'
  <2>1. \A c \in Chats : Counted(c)' \subseteq Counted(c)
    BY DEF Counted
  <2> QED BY <2>1, CountedShrinks
<1>4. Drawn' /\ SeenInTime'
  BY DEF IInv, Drawn, SeenInTime
<1>5. ObservedInTime'
  BY DEF IInv, ObservedInTime, HasCrossing, QuotedAfterCreation, QuoteStillFresh
<1> QED BY <1>1, <1>2, <1>3, <1>4, <1>5, OutsideFrame, PassFrame, TypesAreTypeOKNext DEF IInv

\* A delivery begins with an open message, under the lock of its chat.
LEMMA BeginDeliveryKeeps == ASSUME IInv, NEW a \in Alerts, BeginDelivery(a) PROVE IInv'
<1>1. Types
  BY TypesAreTypeOK DEF IInv
<1> DEFINE c == alerts[a].chat
<1>2. /\ UNCHANGED <<now, market, marketPrices, alerts, crossings, lastId, tickers, fetches, cache, updates, faults>>
      /\ Open(a) /\ alerts[a].status = "triggered" /\ sends[c] = 0
      /\ jobs' = [jobs EXCEPT ![a] = "sending"] /\ sends' = [sends EXCEPT ![c] = a]
  BY DEF BeginDelivery, LockFree
<1>3. /\ jobs' \in [Alerts -> {"none", "pending", "sending", "sent", "failed", "canceled"}]
      /\ jobs'[a] = "sending" /\ \A b \in Alerts \ {a} : jobs'[b] = jobs[b]
  BY <1>1, <1>2 DEF Types
<1>4. sends' \in [Chats -> 0..MaxAlerts] /\ \A d \in Chats : sends'[d] = IF d = c THEN a ELSE sends[d]
  <2>1. a \in 0..MaxAlerts /\ sends \in [Chats -> 0..MaxAlerts]
    BY <1>1, Bounds DEF Types, Alerts
  <2> HIDE DEF c
  <2> QED BY <1>2, <2>1
<1>5. \A b \in Alerts : (Open(b)' <=> Open(b)) /\ (jobs[b] = "none" => jobs'[b] = "none")
  BY <1>2, <1>3 DEF Open
<1>6. Sending'
  <2>1. \A d \in Chats : sends[d] # 0 => sends[d] \in Alerts
    BY <1>1, Bounds DEF Types, Alerts
  <2> QED BY <1>2, <1>4, <1>5, <2>1 DEF IInv, Sending
<1> QED BY <1>1, <1>2, <1>3, <1>4, <1>5, <1>6, JobsFrame DEF Types

\* A delivery ends its message or leaves it open for a retry.
LEMMA EndDeliveryKeeps ==
    ASSUME IInv, NEW c \in Chats, NEW outcome \in {"sent", "failed", "pending", "sending"}, EndDelivery(c, outcome)
    PROVE  IInv'
<1>1. Types
  BY TypesAreTypeOK DEF IInv
<1> DEFINE a == sends[c]
<1>2. /\ UNCHANGED <<now, market, marketPrices, alerts, crossings, lastId, tickers, fetches, cache, updates>>
      /\ a # 0 /\ jobs' = [jobs EXCEPT ![a] = outcome] /\ sends' = [sends EXCEPT ![c] = 0]
  BY DEF EndDelivery
<1>3. a \in Alerts /\ Open(a) /\ alerts[a].chat = c
  BY <1>1, <1>2, Bounds DEF Types, Alerts, IInv, Sending
<1>4. /\ jobs' \in [Alerts -> {"none", "pending", "sending", "sent", "failed", "canceled"}]
      /\ \A b \in Alerts \ {a} : jobs'[b] = jobs[b]
  BY <1>1, <1>2 DEF Types
<1>5. sends' \in [Chats -> 0..MaxAlerts] /\ sends'[c] = 0 /\ \A d \in Chats \ {c} : sends'[d] = sends[d]
  BY <1>1, <1>2, Bounds DEF Types
<1>6. \A b \in Alerts : (Open(b)' => Open(b)) /\ (jobs[b] = "none" => jobs'[b] = "none")
  BY <1>3, <1>4 DEF Open
<1>7. Sending'
  <2>1. \A d \in Chats \ {c} : sends[d] # 0 => sends[d] \in Alerts \ {a}
    BY <1>1, <1>3, Bounds DEF Types, Alerts, IInv, Sending
  <2> QED BY <1>2, <1>4, <1>5, <2>1 DEF IInv, Sending, Open
<1>8. faults' \in 0..MaxFaults
  BY <1>1, Bounds DEF Types, EndDelivery, Fault
<1> QED BY <1>2, <1>4, <1>5, <1>6, <1>7, <1>8, JobsFrame

\* Retention deletes jobs that have ended.
LEMMA CleanupJobKeeps == ASSUME IInv, NEW a \in Alerts, CleanupJob(a) PROVE IInv'
<1>1. Types
  BY TypesAreTypeOK DEF IInv
<1>2. /\ UNCHANGED <<now, market, marketPrices, alerts, crossings, lastId, tickers, fetches, cache, requests, faults>>
      /\ ~Open(a) /\ jobs' = [jobs EXCEPT ![a] = "none"]
  BY DEF CleanupJob, Open
<1>3. /\ jobs' \in [Alerts -> {"none", "pending", "sending", "sent", "failed", "canceled"}]
      /\ jobs'[a] = "none" /\ \A b \in Alerts \ {a} : jobs'[b] = jobs[b]
  BY <1>1, <1>2 DEF Types
<1>4. \A b \in Alerts : (Open(b)' <=> Open(b)) /\ (jobs[b] = "none" => jobs'[b] = "none")
  BY <1>2, <1>3 DEF Open
<1>5. Sending'
  <2>1. \A d \in Chats : sends[d] # 0 => sends[d] \in Alerts
    BY <1>1, Bounds DEF Types, Alerts
  <2> QED BY <1>2, <1>4, <2>1 DEF IInv, Sending, requests
<1> QED BY <1>1, <1>2, <1>3, <1>4, <1>5, JobsFrame DEF Types, requests

\* Retention deletes alerts that have ended and have no job.
LEMMA CleanupPriceAlertKeeps == ASSUME IInv, NEW a \in Alerts, CleanupPriceAlert(a) PROVE IInv'
<1>1. Types
  BY TypesAreTypeOK DEF IInv
<1>2. /\ UNCHANGED <<now, market, marketPrices, jobs, lastId, tickers, fetches, cache, requests, faults>>
      /\ jobs[a] = "none" /\ alerts[a].status # "absent"
      /\ alerts' = [alerts EXCEPT ![a] = NoAlert] /\ crossings' = [crossings EXCEPT ![a] = NoCrossing]
      /\ \A r \in Replicas : /\ \A s \in Symbols : a \notin fetches[r][s].crossed
                             /\ \A candidate \in tickers[r].batch : candidate.id # a
  BY DEF CleanupPriceAlert
<1>3. /\ alerts' \in [Alerts -> AlertRow] /\ crossings' \in [Alerts -> CrossingRow]
      /\ alerts'[a].status = "absent" /\ crossings'[a] = NoCrossing
      /\ \A b \in Alerts \ {a} : alerts'[b] = alerts[b] /\ crossings'[b] = crossings[b]
  BY <1>1, <1>2, Neutral DEF Types, NoAlert
<1>4. Rows'
  BY <1>2, <1>3 DEF IInv, Rows, Open
<1>5. Drawn'
  <2>1. \A c \in Chats : updates[c].id # 0 => updates[c].id \in Alerts \ {a}
    BY <1>1, <1>2, Bounds DEF Types, Update, Alerts, IInv, Drawn
  <2> QED BY <1>2, <1>3, <2>1 DEF IInv, Drawn, requests
<1>6. Sending'
  <2>1. \A c \in Chats : sends[c] # 0 => sends[c] \in Alerts \ {a}
    <3>1. \A c \in Chats : sends[c] # 0 => sends[c] \in Alerts /\ Open(sends[c])
      BY <1>1, Bounds DEF Types, Alerts, IInv, Sending
    <3> QED BY <1>2, <3>1 DEF Open
  <2> QED BY <1>2, <1>3, <2>1 DEF IInv, Sending, Open, requests
<1>7. Limited'
  <2>1. \A c \in Chats : Counted(c)' \subseteq Counted(c)
    BY <1>2, <1>3 DEF Counted, Open, requests
  <2> QED BY <2>1, CountedShrinks
<1>8. SeenInTime'
  <2>1. \A r \in Replicas, s \in Symbols : fetches[r][s].crossed \subseteq Alerts \ {a}
    BY <1>1, <1>2 DEF Types, Fetch
  <2> QED BY <1>2, <1>3, <2>1 DEF IInv, SeenInTime
<1>9. ObservedInTime'
  BY <1>2, <1>3 DEF IInv, ObservedInTime, HasCrossing, QuotedAfterCreation, QuoteStillFresh
<1>10. Listed' /\ Ahead'
  <2>1. \A b \in Alerts : alerts'[b].status = "active" => alerts[b].status = "active" /\ crossings'[b] = crossings[b]
    BY <1>3
  <2>2. \A r \in Replicas : \A candidate \in tickers[r].batch : alerts'[candidate.id].status # "absent"
    <3>1. \A r \in Replicas : \A candidate \in tickers[r].batch : candidate.id \in Alerts \ {a}
      BY <1>1, <1>2 DEF Types, Ticker
    <3> QED BY <1>3, <3>1 DEF IInv, Listed
  <2> QED BY <1>2, <2>1, <2>2, PassKept DEF requests
<1>11. Types'
  BY <1>1, <1>2, <1>3 DEF Types, requests
<1> QED BY <1>2, <1>4, <1>5, <1>6, <1>7, <1>8, <1>9, <1>10, <1>11, OutsideFrame, TypesAreTypeOKNext DEF IInv

-----------------------------------------------------------------------------
(* The invariant and what follows from it *)

\* Every step keeps the invariant.
LEMMA NextKeeps == ASSUME IInv, [Next]_vars PROVE IInv'
<1>1. CASE UNCHANGED vars
  <2>1. Types'
    BY <1>1, TypesAreTypeOK DEF vars, requests, IInv, Types
  <2>2. SeenInTime'
    BY <1>1 DEF vars, IInv, SeenInTime
  <2> QED BY <1>1, <2>1, <2>2, AlertsFrame, OutsideFrame, PassFrame, TypesAreTypeOKNext DEF vars, requests, IInv
<1>2. CASE Tick
  BY <1>2, TickKeeps
<1>3. ASSUME NEW r \in Replicas, TickerStep(r) PROVE IInv'
  BY <1>3, BeginCycleKeeps, BeginPassKeeps, ListCandidatesKeeps, TriggerPriceAlertKeeps DEF TickerStep
<1>4. ASSUME NEW r \in Replicas, NEW s \in Symbols, FetchStep(r, s) PROVE IInv'
  BY <1>4, QuoteKeeps, StoreMarketPriceKeeps, CommitMarketPriceKeeps, StoreAtKeeps DEF FetchStep
<1>5. ASSUME NEW r \in Replicas, ReplicaFault(r) PROVE IInv'
  BY <1>5, BeginCycleFailsKeeps, PassFailsKeeps, FetchFailsKeeps, CommitMarketPriceKeeps, RestartKeeps DEF ReplicaFault
<1>6. ASSUME NEW a \in Alerts, AlertStep(a) PROVE IInv'
  BY <1>6, CancelPriceAlertKeeps, BeginDeliveryKeeps, CleanupJobKeeps, CleanupPriceAlertKeeps DEF AlertStep
<1>7. ASSUME NEW c \in Chats, ChatStep(c) PROVE IInv'
  BY <1>7, CreatePriceAlertKeeps, OtherUpdateKeeps, CommitUpdateKeeps, RollBackUpdateKeeps, EndDeliveryKeeps
     DEF ChatStep, DeliveryEnds
<1> QED BY <1>1, <1>2, <1>3, <1>4, <1>5, <1>6, <1>7 DEF Next

\* The invariant that the results below rest on: every step of the tickers, the users and the
\* senders keeps it.
THEOREM AlertsConsistent == Spec => []IInv
<1>1. Init => IInv
  BY InitIsGood
<1>2. IInv /\ [Next]_vars => IInv'
  BY NextKeeps
<1> QED BY <1>1, <1>2, PTL DEF Spec

\* The variables keep their types.
THEOREM TypeCorrect == Spec => []TypeOK
<1>1. IInv => TypeOK
  BY DEF IInv
<1> QED BY <1>1, AlertsConsistent, PTL

\* capturePriceAlertCrossings: a recorded price was quoted after the alert was created and its
\* base stored, and not longer before than priceFreshnessLimit, for any delay of requests.
THEOREM CrossingsInTime == Spec => []ObservedInTime
<1>1. IInv => ObservedInTime
  BY DEF IInv
<1> QED BY <1>1, AlertsConsistent, PTL

\* PriceCache.StoreAt and WarmupCache: a cached price was committed to market_prices, which is
\* never older, whatever transaction fails and whichever replica restarts.
THEOREM BaseIsCommitted == Spec => []CacheIsCommitted
<1>1. ASSUME IInv PROVE CacheIsCommitted
  <2>1. \A s \in Symbols : marketPrices[s].price > 0 => marketPrices[s] # NoPrice
    BY DEF NoPrice
  <2> QED BY <1>1, <2>1 DEF IInv, PriceOrder, CacheIsCommitted
<1> QED BY <1>1, AlertsConsistent, PTL

\* createPriceAlert: no chat has more than maxActivePriceAlerts alerts that are active or wait
\* for their message, for any number of replicas that create alerts at the same time.
THEOREM LimitHolds == Spec => []WithinLimit
<1>1. ASSUME IInv PROVE WithinLimit
  <2> SUFFICES ASSUME NEW c \in Chats
               PROVE  Cardinality({a \in Alerts : alerts[a].chat = c /\ (alerts[a].status = "active" \/ Open(a))})
                      <= MaxActive
    BY DEF WithinLimit
  <2> DEFINE counted == {a \in Alerts : alerts[a].chat = c /\ (alerts[a].status = "active" \/ Open(a))}
  <2>1. counted \subseteq Counted(c) /\ Counted(c) \subseteq Alerts
    BY DEF Counted
  <2> HIDE DEF counted
  <2>2. IsFiniteSet(Counted(c))
    BY <2>1, AlertsFinite, FS_Subset
  <2>3. /\ Cardinality(counted) \in Nat /\ Cardinality(Counted(c)) \in Nat
        /\ Cardinality(counted) <= Cardinality(Counted(c))
    BY <2>1, <2>2, FS_Subset, FS_CardinalityType
  <2>4. Cardinality(counted) <= MaxActive
    BY <1>1, <2>3, Bounds DEF IInv, Limited
  <2> QED BY <2>4 DEF counted
<1> QED BY <1>1, AlertsConsistent, PTL

\* cancelPriceAlert and the sender: while a message is being delivered its alert is triggered
\* and its job open, so no canceled alert is sent.
THEOREM NoCanceledSend == Spec => []CanceledNeverSent
<1>1. IInv => CanceledNeverSent
  BY DEF IInv, Sending, CanceledNeverSent
<1> QED BY <1>1, AlertsConsistent, PTL

-----------------------------------------------------------------------------
(* What a step may do *)

\* The steps that write to the tables of alerts, crossings and jobs.
LEMMA Writers ==
    ASSUME [Next]_vars
    PROVE  \/ UNCHANGED <<alerts, crossings, jobs>>
           \/ \E r \in Replicas : BeginPass(r)
           \/ \E r \in Replicas, s \in Symbols, known \in BOOLEAN : CommitMarketPrice(r, s, known)
           \/ \E r \in Replicas : \E candidate \in tickers[r].batch : TriggerPriceAlert(r, candidate)
           \/ \E c \in Chats : CommitUpdate(c)
           \/ \E c \in Chats, outcome \in {"sent", "failed", "pending", "sending"} : EndDelivery(c, outcome)
           \/ \E a \in Alerts : CancelPriceAlert(a) \/ BeginDelivery(a) \/ CleanupJob(a) \/ CleanupPriceAlert(a)
<1> DEFINE quiet == UNCHANGED <<alerts, crossings, jobs>>
<1>1. CASE UNCHANGED vars \/ Tick
  BY <1>1 DEF vars, Tick
<1>2. ASSUME NEW r \in Replicas, BeginCycle(r) \/ ListCandidates(r) \/ BeginCycleFails(r) \/ PassFails(r) PROVE quiet
  BY <1>2 DEF BeginCycle, ListCandidates, BeginCycleFails, PassFails
<1>3. ASSUME NEW r \in Replicas, NEW s \in Symbols, Quote(r, s) \/ StoreMarketPrice(r, s) \/ StoreAt(r, s) \/ FetchFails(r, s)
      PROVE  quiet
  BY <1>3 DEF Quote, StoreMarketPrice, StoreAt, FetchFails
<1>4. ASSUME NEW r \in Replicas, NEW enabled \in BOOLEAN, Restart(r, enabled) PROVE quiet
  BY <1>4 DEF Restart
<1>5. ASSUME NEW r \in Replicas, NEW c \in Chats, NEW s \in Symbols, NEW percent \in Percents,
             CreatePriceAlert(r, c, s, percent)
      PROVE  quiet
  BY <1>5 DEF CreatePriceAlert
<1>6. ASSUME NEW r \in Replicas, NEW c \in Chats, OtherUpdate(r, c) \/ RollBackUpdate(c) PROVE quiet
  BY <1>6 DEF OtherUpdate, RollBackUpdate
<1>7. ASSUME NEW c \in Chats, RollBackUpdate(c) PROVE quiet
  BY <1>7 DEF RollBackUpdate
<1> HIDE DEF quiet
<1>8. ASSUME NEW r \in Replicas, TickerStep(r) \/ (\E s \in Symbols : FetchStep(r, s)) \/ ReplicaFault(r)
      PROVE  \/ quiet
             \/ BeginPass(r)
             \/ \E s \in Symbols, known \in BOOLEAN : CommitMarketPrice(r, s, known)
             \/ \E candidate \in tickers[r].batch : TriggerPriceAlert(r, candidate)
  BY <1>2, <1>3, <1>4, <1>8 DEF TickerStep, FetchStep, ReplicaFault
<1>9. ASSUME NEW c \in Chats, ChatStep(c)
      PROVE  \/ quiet \/ CommitUpdate(c)
             \/ \E outcome \in {"sent", "failed", "pending", "sending"} : EndDelivery(c, outcome)
  BY <1>5, <1>6, <1>7, <1>9 DEF ChatStep, DeliveryEnds
<1>10. quiet => UNCHANGED <<alerts, crossings, jobs>>
  BY DEF quiet
<1> QED BY <1>1, <1>8, <1>9, <1>10 DEF Next, AlertStep

\* What FirstCrossingDecides asks of a step.
FirstDecides == \A a \in Alerts :
    crossings[a] # NoCrossing /\ alerts[a].status = "active" =>
        \/ alerts'[a].status = "active" /\ crossings'[a] = crossings[a]
        \/ alerts'[a].status = "canceled"
        \/ alerts'[a].trigger = [price |-> crossings[a].price, at |-> crossings[a].at]
           /\ crossings'[a] = NoCrossing /\ jobs'[a] = "pending"

\* Only the transaction of an alert that has no crossing records one.
LEMMA StepDecides == ASSUME IInv, [Next]_vars PROVE FirstDecides
<1>1. Types
  BY TypesAreTypeOK DEF IInv
<1>2. CASE UNCHANGED <<alerts, crossings, jobs>>
  BY <1>2 DEF FirstDecides
<1>3. ASSUME NEW r \in Replicas, BeginPass(r) PROVE FirstDecides
  BY <1>3 DEF BeginPass, FirstDecides
<1>4. ASSUME NEW r \in Replicas, NEW s \in Symbols, NEW known \in BOOLEAN, CommitMarketPrice(r, s, known)
      PROVE  FirstDecides
  BY <1>4, CrossedOnce DEF CommitMarketPrice, FirstDecides
<1>5. ASSUME NEW r \in Replicas, NEW candidate \in tickers[r].batch, TriggerPriceAlert(r, candidate)
      PROVE  FirstDecides
  <2> DEFINE id == candidate.id
             trigger == [price |-> candidate.price, at |-> candidate.at]
  <2>1. CASE UNCHANGED <<alerts, jobs, crossings>>
    BY <2>1 DEF FirstDecides
  <2>2. CASE /\ alerts' = [alerts EXCEPT ![id].status = "triggered", ![id].trigger = trigger]
             /\ jobs' = [jobs EXCEPT ![id] = "pending"]
             /\ crossings' = [crossings EXCEPT ![id] = NoCrossing]
    <3>1. id \in Alerts
      BY <1>1 DEF Types, Ticker
    <3>2. alerts[id].status = "active" => trigger = [price |-> crossings[id].price, at |-> crossings[id].at]
      BY DEF IInv, Listed
    <3> HIDE DEF trigger
    <3>3. /\ alerts'[id].trigger = trigger /\ crossings'[id] = NoCrossing /\ jobs'[id] = "pending"
          /\ \A a \in Alerts \ {id} : alerts'[a] = alerts[a] /\ crossings'[a] = crossings[a]
      BY <1>1, <2>2, <3>1 DEF Types, AlertRow
    <3> QED BY <3>2, <3>3 DEF FirstDecides
  <2> QED BY <1>5, <2>1, <2>2 DEF TriggerPriceAlert
<1>6. ASSUME NEW c \in Chats, CommitUpdate(c) PROVE FirstDecides
  <2>1. \A a \in Alerts : alerts[a].status = "active" => alerts'[a] = alerts[a]
    BY <1>1, <1>6 DEF CommitUpdate, Types, IInv, Drawn
  <2> QED BY <1>6, <2>1 DEF CommitUpdate, FirstDecides
<1>7. ASSUME NEW c \in Chats, NEW outcome \in {"sent", "failed", "pending", "sending"}, EndDelivery(c, outcome)
      PROVE  FirstDecides
  BY <1>7 DEF EndDelivery, FirstDecides
<1>8. ASSUME NEW a \in Alerts, CancelPriceAlert(a) PROVE FirstDecides
  <2>1. alerts'[a].status = "canceled" /\ \A b \in Alerts \ {a} : alerts'[b] = alerts[b]
    BY <1>1, <1>8 DEF CancelPriceAlert, Types, AlertRow
  <2> QED BY <1>8, <2>1 DEF CancelPriceAlert, FirstDecides
<1>9. ASSUME NEW a \in Alerts, BeginDelivery(a) \/ CleanupJob(a) PROVE FirstDecides
  BY <1>9 DEF BeginDelivery, CleanupJob, FirstDecides
<1>10. ASSUME NEW a \in Alerts, CleanupPriceAlert(a) PROVE FirstDecides
  BY <1>1, <1>10 DEF CleanupPriceAlert, Types, FirstDecides
<1> QED BY <1>2, <1>3, <1>4, <1>5, <1>6, <1>7, <1>8, <1>9, <1>10, Writers

\* ON CONFLICT DO NOTHING and triggerPriceAlert: the crossing of an active alert neither changes
\* nor disappears, and the alert is triggered with its price and time.
THEOREM FirstCrossingKept == Spec => FirstCrossingDecides
<1>1. IInv /\ [Next]_vars => [FirstDecides]_vars
  BY StepDecides
<1>2. Spec => [][FirstDecides]_vars
  BY <1>1, AlertsConsistent, PTL DEF Spec
<1> QED BY <1>2 DEF FirstCrossingDecides, FirstDecides

\* What PassSkipsOnlyBusyChats asks of a step.
SkipsOnlyBusy == \A r \in Replicas :
    tickers[r].pc \in {"listing", "triggering"} /\ tickers'[r].pc = "idle" /\ faults' = faults =>
        \A a \in tickers[r].due : alerts'[a].status = "active" => a \in tickers[r].busy

\* Only an empty list of candidates ends a pass without an error.
LEMMA PassEnders ==
    ASSUME IInv, [Next]_vars, NEW r \in Replicas,
           tickers[r].pc \in {"listing", "triggering"}, tickers'[r].pc = "idle", faults' = faults
    PROVE  ListCandidates(r)
<1>1. Types
  BY TypesAreTypeOK DEF IInv
<1>2. ~Fault
  <2>1. faults \in Int
    BY <1>1, Bounds DEF Types
  <2> QED BY <2>1 DEF Fault
<1>3. UNCHANGED tickers => FALSE
  OBVIOUS
<1>4. ASSUME NEW q \in Replicas, TickerStep(q) PROVE ListCandidates(r)
  <2>1. CASE BeginCycle(q)
    BY <1>1, <2>1 DEF BeginCycle, Types, Ticker
  <2>2. CASE BeginPass(q)
    <3>1. \A x : [NewTicker(tickers[q].enabled) EXCEPT !.pc = "listing", !.due = x].pc = "listing"
      BY DEF NewTicker
    <3>2. tickers'[q].pc = "listing" /\ (q # r => tickers'[r] = tickers[r])
      BY <1>1, <2>2, <3>1 DEF BeginPass, Types
    <3> QED BY <3>2
  <2>3. CASE ListCandidates(q)
    <3>1. q # r => tickers'[r] = tickers[r]
      BY <1>1, <2>3 DEF ListCandidates, Types
    <3> QED BY <2>3, <3>1
  <2>4. ASSUME NEW candidate \in tickers[q].batch, TriggerPriceAlert(q, candidate) PROVE FALSE
    <3>1. PICK skipped \in BOOLEAN : After(q, candidate, skipped)
      BY <2>4 DEF TriggerPriceAlert, Triggerable
    <3>2. tickers'[q].pc # "idle" /\ (q # r => tickers'[r] = tickers[r])
      BY <3>1, Afterwards
    <3> QED BY <3>2
  <2> QED BY <1>4, <2>1, <2>2, <2>3, <2>4 DEF TickerStep
<1>5. ASSUME NEW q \in Replicas, NEW s \in Symbols, FetchStep(q, s) PROVE FALSE
  BY <1>3, <1>5 DEF FetchStep, Quote, StoreMarketPrice, CommitMarketPrice, StoreAt
<1>6. ASSUME NEW q \in Replicas, ReplicaFault(q) PROVE FALSE
  BY <1>2, <1>6 DEF ReplicaFault, BeginCycleFails, PassFails, FetchFails, CommitMarketPrice, Restart
<1>7. ASSUME NEW a \in Alerts, AlertStep(a) PROVE FALSE
  BY <1>3, <1>7 DEF AlertStep, CancelPriceAlert, BeginDelivery, CleanupJob, CleanupPriceAlert
<1>8. ASSUME NEW c \in Chats, ChatStep(c) PROVE FALSE
  <2>1. UNCHANGED tickers
    BY <1>8 DEF ChatStep, CreatePriceAlert, OtherUpdate, CommitUpdate, RollBackUpdate, DeliveryEnds, EndDelivery
  <2> QED BY <1>3, <2>1
<1>9. CASE UNCHANGED vars \/ Tick
  BY <1>3, <1>9 DEF vars, Tick
<1> QED BY <1>4, <1>5, <1>6, <1>7, <1>8, <1>9 DEF Next

\* A pass ends when nothing that was due lies ahead of it.
LEMMA StepSkips == ASSUME IInv, [Next]_vars PROVE SkipsOnlyBusy
<1> SUFFICES ASSUME NEW r \in Replicas,
                    tickers[r].pc \in {"listing", "triggering"}, tickers'[r].pc = "idle", faults' = faults,
                    NEW a \in tickers[r].due, alerts'[a].status = "active", a \notin tickers[r].busy
             PROVE  FALSE
  BY DEF SkipsOnlyBusy
<1>1. ListCandidates(r)
  BY PassEnders
<1>2. Types
  BY TypesAreTypeOK DEF IInv
<1> DEFINE batch == {b \in Candidates(r) : Cardinality({x \in Candidates(r) : x < b}) < BatchLimit}
<1>3. batch = {}
  <2> SUFFICES ASSUME batch # {} PROVE FALSE
    OBVIOUS
  <2>1. \E rows : tickers' = [tickers EXCEPT ![r] = [tickers[r] EXCEPT !.pc = "triggering", !.batch = rows]]
    BY <1>1 DEF ListCandidates
  <2>2. tickers'[r].pc = "triggering"
    BY <1>2, <2>1 DEF Types, Ticker
  <2> QED BY <2>2
<1>4. Candidates(r) = {}
  <2>1. Candidates(r) \subseteq Alerts
    BY DEF Candidates
  <2> QED BY <1>3, <2>1, BatchNotEmpty
<1>5. a \in Alerts /\ alerts[a].status = "active"
  BY <1>1, <1>2 DEF Types, Ticker, ListCandidates
<1>6. crossings[a] # NoCrossing /\ a > tickers[r].afterId
  BY <1>5 DEF IInv, Ahead
<1> QED BY <1>4, <1>5, <1>6 DEF Candidates

\* processPriceAlertCrossings: a pass that ends without an error leaves active, of the alerts with
\* a crossing it began with, only those whose chat's lock was taken when their turn came.
THEOREM PassIsComplete == Spec => PassSkipsOnlyBusyChats
<1>1. IInv /\ [Next]_vars => [SkipsOnlyBusy]_vars
  BY StepSkips
<1>2. Spec => [][SkipsOnlyBusy]_vars
  BY <1>1, AlertsConsistent, PTL DEF Spec
<1> QED BY <1>2 DEF PassSkipsOnlyBusyChats, SkipsOnlyBusy

-----------------------------------------------------------------------------
(* The promise to the users *)

\* The state of OneShotAlerts.
Status == [a \in Alerts |-> alerts[a].status]
Message == [a \in Alerts |-> IF Open(a) THEN "open" ELSE jobs[a]]

\* Where one alert and its job change, so do their abstractions.
LEMMA OneAlert ==
    ASSUME NEW id \in Alerts, \A a \in Alerts \ {id} : alerts'[a].status = alerts[a].status /\ jobs'[a] = jobs[a]
    PROVE  /\ Status' = [Status EXCEPT ![id] = alerts'[id].status]
           /\ Message' = [Message EXCEPT ![id] = IF Open(id)' THEN "open" ELSE jobs'[id]]
           /\ Status[id] = alerts[id].status /\ Message[id] = IF Open(id) THEN "open" ELSE jobs[id]
           /\ alerts'[id].status = alerts[id].status => Status' = Status
           /\ jobs'[id] = jobs[id] => Message' = Message
           /\ Open(id) /\ Open(id)' => Message' = Message
<1>1. \A a \in Alerts \ {id} : Open(a)' <=> Open(a)
  BY DEF Open
<1>2. /\ Status' = [Status EXCEPT ![id] = alerts'[id].status]
      /\ alerts'[id].status = alerts[id].status => Status' = Status
  BY DEF Status
<1>3. Message' = [Message EXCEPT ![id] = IF Open(id)' THEN "open" ELSE jobs'[id]]
  BY <1>1 DEF Message
<1>4. jobs'[id] = jobs[id] => Message' = Message
  BY <1>1 DEF Message, Open
<1>5. Open(id) /\ Open(id)' => Message' = Message
  BY <1>1 DEF Message
<1> QED BY <1>2, <1>3, <1>4, <1>5 DEF Status, Message

\* Every step does to the alerts and their messages what OneShotAlerts allows, or nothing.
LEMMA StepPromised == ASSUME IInv, [Next]_vars PROVE [OneShot!Next]_(OneShot!vars)
<1> DEFINE quiet == Status' = Status /\ Message' = Message
<1>1. Types
  BY TypesAreTypeOK DEF IInv
<1>2. quiet => [OneShot!Next]_(OneShot!vars)
  BY DEF OneShot!vars, Status, Message
<1>3. ASSUME UNCHANGED <<alerts, jobs>> PROVE quiet
  BY <1>3 DEF Status, Message, Open
<1>4. ASSUME NEW r \in Replicas, NEW candidate \in tickers[r].batch, TriggerPriceAlert(r, candidate)
      PROVE  quiet \/ \E a \in Alerts : OneShot!Trigger(a)
  <2> DEFINE id == candidate.id
             trigger == [price |-> candidate.price, at |-> candidate.at]
  <2>1. CASE UNCHANGED <<alerts, jobs, crossings>>
    BY <1>3, <2>1
  <2>2. CASE /\ Triggerable(id)
             /\ alerts' = [alerts EXCEPT ![id].status = "triggered", ![id].trigger = trigger]
             /\ jobs' = [jobs EXCEPT ![id] = "pending"]
    <3>1. id \in Alerts /\ alerts[id].status = "active" /\ jobs[id] = "none"
      BY <1>1, <2>2 DEF Types, Ticker, Triggerable, IInv, Rows
    <3>2. /\ alerts'[id].status = "triggered" /\ jobs'[id] = "pending"
          /\ \A a \in Alerts \ {id} : alerts'[a].status = alerts[a].status /\ jobs'[a] = jobs[a]
      BY <1>1, <2>2, <3>1 DEF Types, AlertRow
    <3>3. /\ Status[id] = "active" /\ Message[id] = "none"
          /\ Status' = [Status EXCEPT ![id] = "triggered"] /\ Message' = [Message EXCEPT ![id] = "open"]
      BY <3>1, <3>2, OneAlert DEF Open
    <3>4. OneShot!Trigger(id)
      BY <3>3 DEF OneShot!Trigger, Status, Message
    <3> QED BY <3>1, <3>4
  <2> QED BY <1>4, <2>1, <2>2 DEF TriggerPriceAlert
<1>5. ASSUME NEW c \in Chats, CommitUpdate(c) PROVE quiet \/ \E a \in Alerts : OneShot!Create(a)
  <2>1. CASE updates[c].id = 0
    BY <1>3, <1>5, <2>1 DEF CommitUpdate
  <2>2. CASE updates[c].id # 0
    <3>1. PICK id \in Alerts : id = updates[c].id
      BY <1>1, <2>2, Bounds DEF Types, Update, Alerts
    <3>2. alerts[id].status = "absent" /\ updates[c].row.status = "active"
      BY <2>2, <3>1 DEF IInv, Drawn
    <3>3. /\ alerts'[id].status = "active" /\ jobs'[id] = jobs[id]
          /\ \A a \in Alerts \ {id} : alerts'[a].status = alerts[a].status /\ jobs'[a] = jobs[a]
      BY <1>1, <1>5, <2>2, <3>1, <3>2 DEF CommitUpdate, Types
    <3>4. Status[id] = "absent" /\ Status' = [Status EXCEPT ![id] = "active"] /\ Message' = Message
      BY <3>2, <3>3, OneAlert
    <3>5. OneShot!Create(id)
      BY <3>4 DEF OneShot!Create, Status, Message
    <3> QED BY <3>5
  <2> QED BY <2>1, <2>2
<1>6. ASSUME NEW c \in Chats, NEW outcome \in {"sent", "failed", "pending", "sending"}, EndDelivery(c, outcome)
      PROVE  quiet \/ \E a \in Alerts : OneShot!Finish(a)
  <2>1. PICK id \in Alerts : id = sends[c]
    BY <1>1, <1>6, Bounds DEF EndDelivery, Types, Alerts
  <2>2. alerts[id].status = "triggered" /\ Open(id)
    BY <1>6, <2>1 DEF EndDelivery, IInv, Sending
  <2>3. /\ alerts' = alerts /\ jobs'[id] = outcome
        /\ \A a \in Alerts \ {id} : alerts'[a].status = alerts[a].status /\ jobs'[a] = jobs[a]
    BY <1>1, <1>6, <2>1 DEF EndDelivery, Types
  <2>4. /\ Status' = Status /\ Status[id] = "triggered" /\ Message[id] = "open"
        /\ Message' = [Message EXCEPT ![id] = IF Open(id)' THEN "open" ELSE outcome]
    BY <2>2, <2>3, OneAlert
  <2>5. CASE outcome \in {"pending", "sending"}
    BY <2>2, <2>3, <2>4, <2>5, OneAlert DEF Open
  <2>6. CASE outcome \in {"sent", "failed"}
    <3>1. Message' = [Message EXCEPT ![id] = outcome]
      BY <2>3, <2>4, <2>6 DEF Open
    <3>2. OneShot!Finish(id)
      BY <2>4, <2>6, <3>1 DEF OneShot!Finish, Status, Message
    <3> QED BY <3>2
  <2> QED BY <2>5, <2>6
<1>7. ASSUME NEW a \in Alerts, CancelPriceAlert(a) PROVE OneShot!Cancel(a)
  <2>1. /\ alerts'[a].status = "canceled" /\ jobs'[a] = IF Open(a) THEN "canceled" ELSE jobs[a]
        /\ \A b \in Alerts \ {a} : alerts'[b].status = alerts[b].status /\ jobs'[b] = jobs[b]
    BY <1>1, <1>7 DEF CancelPriceAlert, JobsAfterCancel, Types, AlertRow
  <2>2. Status' = [Status EXCEPT ![a] = "canceled"] /\ Status[a] = alerts[a].status
    BY <2>1, OneAlert
  <2>3. CASE Open(a)
    <3>1. Status[a] = "triggered" /\ Message[a] = "open"
      BY <2>3, <2>1, OneAlert DEF IInv, Rows
    <3>2. Message' = [Message EXCEPT ![a] = "canceled"]
      BY <2>1, <2>3, OneAlert DEF Open
    <3> QED BY <2>2, <3>1, <3>2 DEF OneShot!Cancel, Status, Message
  <2>4. CASE ~Open(a)
    <3>1. Status[a] = "active" /\ Message' = Message
      BY <1>7, <2>1, <2>2, <2>4, OneAlert DEF CancelPriceAlert, Cancelable
    <3> QED BY <2>2, <3>1 DEF OneShot!Cancel, Status, Message
  <2> QED BY <2>3, <2>4
<1>8. ASSUME NEW a \in Alerts, BeginDelivery(a) PROVE quiet
  <2>1. /\ Open(a) /\ Open(a)' /\ alerts' = alerts
        /\ \A b \in Alerts \ {a} : alerts'[b].status = alerts[b].status /\ jobs'[b] = jobs[b]
    BY <1>1, <1>8 DEF BeginDelivery, Open, Types
  <2> QED BY <2>1, OneAlert
<1>9. ASSUME NEW a \in Alerts, CleanupJob(a) PROVE OneShot!Forget(a)
  <2>1. /\ jobs[a] \in {"sent", "failed", "canceled"} /\ jobs'[a] = "none" /\ alerts' = alerts
        /\ \A b \in Alerts \ {a} : alerts'[b].status = alerts[b].status /\ jobs'[b] = jobs[b]
    BY <1>1, <1>9 DEF CleanupJob, Types
  <2>2. /\ Message[a] \in {"sent", "failed", "canceled"} /\ Message' = [Message EXCEPT ![a] = "none"]
        /\ Status' = Status
    BY <2>1, OneAlert DEF Open
  <2> QED BY <2>2 DEF OneShot!Forget, Status, Message
<1>10. ASSUME NEW a \in Alerts, CleanupPriceAlert(a) PROVE OneShot!Forget(a)
  <2>1. /\ alerts[a].status \in {"triggered", "canceled"} /\ jobs[a] = "none" /\ jobs' = jobs
        /\ alerts'[a].status = "absent"
        /\ \A b \in Alerts \ {a} : alerts'[b].status = alerts[b].status /\ jobs'[b] = jobs[b]
    BY <1>1, <1>10 DEF CleanupPriceAlert, Types, NoAlert
  <2>2. /\ Status[a] \in {"triggered", "canceled"} /\ Message[a] = "none"
        /\ Status' = [Status EXCEPT ![a] = "absent"] /\ Message' = Message
    BY <2>1, OneAlert DEF Open
  <2> QED BY <2>2 DEF OneShot!Forget, Status, Message
<1>11. ASSUME NEW r \in Replicas, NEW s \in Symbols, NEW known \in BOOLEAN,
              BeginPass(r) \/ CommitMarketPrice(r, s, known)
       PROVE  quiet
  BY <1>3, <1>11 DEF BeginPass, CommitMarketPrice
<1>12. ASSUME NEW r \in Replicas, BeginPass(r) PROVE quiet
  BY <1>3, <1>12 DEF BeginPass
<1> HIDE DEF quiet
<1> QED BY <1>2, <1>3, <1>4, <1>5, <1>6, <1>7, <1>8, <1>9, <1>10, <1>11, <1>12, Writers DEF OneShot!Next

\* Alerts are one-shot: an alert triggers at most once and queues its message in the same step, a
\* canceled alert keeps no message, and a finished message is never queued again.
THEOREM AlertsAreOneShot == Spec => ImplementsOneShotAlerts
<1>1. Init => OneShot!Init
  BY DEF Init, OneShot!Init, Open, NoAlert
<1>2. IInv /\ [Next]_vars => [OneShot!Next]_(OneShot!vars)
  BY StepPromised
<1> QED BY <1>1, <1>2, AlertsConsistent, PTL DEF Spec, ImplementsOneShotAlerts, OneShot!Spec
=============================================================================
