---------------------------- MODULE PriceAlerts ----------------------------
(***************************************************************************)
(* Price alerts and the price ticker.  Every replica runs cycles: it notes *)
(* the database's time, asks the exchange for each price, stores the price *)
(* and the alerts it crosses in one transaction, and then turns recorded   *)
(* crossings into triggered alerts with a notification job.  Meanwhile     *)
(* users create and cancel alerts through any replica and the senders      *)
(* deliver the jobs.                                                       *)
(*                                                                         *)
(* The chat lock is held by the update transaction or the delivery that is *)
(* in progress for the chat (updates, sends); the ticker only tries it.    *)
(* The queues themselves are TelegramInbox and NotificationOutbox: here an *)
(* update is a command that runs once, and a delivery one attempt.         *)
(***************************************************************************)
EXTENDS Integers, FiniteSets

CONSTANTS
    Replicas, Chats,
    Symbols,      \* the coins that can have alerts
    Prices,       \* what the exchange may quote
    Percents,     \* thresholds users ask for
    Fresh,        \* priceFreshnessLimit
    MaxActive,    \* maxActivePriceAlerts
    BatchLimit,   \* priceAlertBatchLimit
    MaxAlerts,    \* bound: ids drawn from the alerts' sequence
    MaxTime,      \* bound: the database's clock
    MaxFaults     \* bound: failed requests and transactions, lost answers, retries, restarts
                  \* and updates of a chat that are not about an alert

ASSUME AlertsAssumption ==
    /\ Prices \subseteq Nat \ {0}
    /\ Percents \subseteq (-99..1000) \ {0}   \* parseAlertPercent
    /\ {Fresh, MaxActive, MaxAlerts, MaxFaults} \subseteq Nat
    /\ {BatchLimit, MaxTime} \subseteq Nat \ {0}

VARIABLES
    now,          \* clock_timestamp() of PostgreSQL
    market,       \* the exchange's price of each symbol
    marketPrices, \* market_prices: [price, at] by symbol
    alerts,       \* price_alerts by id
    crossings,    \* price_alert_crossings by alert id; quotedAt is a ghost: when the
                  \* exchange really quoted the price
    jobs,         \* status of the notification job of each alert
    lastId,       \* the alerts' id sequence
    tickers,      \* the ticker of each replica
    fetches,      \* per replica and symbol, the goroutine of the current cycle
    cache,        \* PriceCache of each replica: [price, at] by symbol
    updates,      \* per chat, the open update transaction and the alert it creates, if any
    sends,        \* per chat, the alert whose message is being delivered, 0 if none
    faults

requests == <<updates, sends>>
vars == <<now, market, marketPrices, alerts, crossings, jobs, lastId, tickers, fetches, cache,
          requests, faults>>

Alerts == 1..MaxAlerts
NoPrice == [price |-> 0, at |-> 0]
NoAlert == [status |-> "absent", chat |-> 0, symbol |-> 0, percent |-> 0, base |-> NoPrice,
            target |-> 0, createdAt |-> 0, trigger |-> NoPrice]
NoCrossing == [price |-> 0, at |-> 0, quotedAt |-> 0]
NoUpdate == [replica |-> 0, id |-> 0, row |-> NoAlert]
NoFetch == [pc |-> "done", price |-> 0, quotedAt |-> 0, storedAt |-> 0, crossed |-> {}]
Zero == -1   \* time.Time{}

\* A started replica; WarmupCache has filled its cache.
NewTicker(enabled) == [pc |-> "idle", enabled |-> enabled, startedAt |-> Zero, afterId |-> 0,
                       batch |-> {}, due |-> {}, busy |-> {}]

Init ==
    /\ now = 1
    /\ market \in [Symbols -> Prices]
    /\ marketPrices = [s \in Symbols |-> NoPrice]
    /\ alerts = [a \in Alerts |-> NoAlert]
    /\ crossings = [a \in Alerts |-> NoCrossing]
    /\ jobs = [a \in Alerts |-> "none"]
    /\ lastId = 0
    /\ tickers = [r \in Replicas |-> NewTicker(TRUE)]
    /\ fetches = [r \in Replicas |-> [s \in Symbols |-> NoFetch]]
    /\ cache = [r \in Replicas |-> [s \in Symbols |-> NoPrice]]
    /\ updates = [c \in Chats |-> NoUpdate]
    /\ sends = [c \in Chats |-> 0]
    /\ faults = 0

Fault == faults < MaxFaults /\ faults' = faults + 1

-----------------------------------------------------------------------------
(* The world *)

\* Time passes, and with it the exchange's prices may change.
Tick ==
    /\ now < MaxTime /\ now' = now + 1
    /\ market' \in [Symbols -> Prices]
    /\ UNCHANGED <<marketPrices, alerts, crossings, jobs, lastId, tickers, fetches, cache, requests, faults>>

-----------------------------------------------------------------------------
(* The ticker of a replica *)

\* Start of fetchAndCachePrices: beginPriceObservation reads the database's clock before any
\* request is sent, unless alerts are disabled on this replica.
BeginCycle(r) ==
    /\ tickers[r].pc = "idle"
    /\ tickers' = [tickers EXCEPT ![r].pc = "fetching",
                                  ![r].startedAt = IF tickers[r].enabled THEN now ELSE Zero]
    /\ fetches' = [fetches EXCEPT ![r] = [s \in Symbols |-> [NoFetch EXCEPT !.pc = "asking"]]]
    /\ UNCHANGED <<now, market, marketPrices, alerts, crossings, jobs, lastId, cache, requests, faults>>

\* The observation cannot be started: no price is asked for, the goroutines never start.
BeginCycleFails(r) ==
    /\ tickers[r].pc = "idle" /\ tickers[r].enabled
    /\ Fault
    /\ tickers' = [tickers EXCEPT ![r].pc = "fetching", ![r].startedAt = Zero]
    /\ UNCHANGED <<now, market, marketPrices, alerts, crossings, jobs, lastId, fetches, cache, requests>>

\* The exchange answers with its price of that moment.
Quote(r, s) ==
    /\ fetches[r][s].pc = "asking"
    /\ fetches' = [fetches EXCEPT ![r][s].pc = "quoted", ![r][s].price = market[s], ![r][s].quotedAt = now]
    /\ UNCHANGED <<now, market, marketPrices, alerts, crossings, jobs, lastId, tickers, cache, requests, faults>>

Crossed(a, price) == LET alert == alerts[a] IN
    \/ alert.percent > 0 /\ alert.target <= price
    \/ alert.percent < 0 /\ alert.target >= price

\* Variant with a mistake: the border is the moment the price is stored.
WatchedByStoring(r, s, a) ==
    /\ alerts[a].status = "active" /\ alerts[a].symbol = s
    /\ alerts[a].createdAt < now
    /\ tickers[r].startedAt >= now - Fresh

\* WHERE of capturePriceAlertCrossings without the threshold.
Watched(r, s, a) ==
    /\ alerts[a].status = "active" /\ alerts[a].symbol = s
    /\ alerts[a].createdAt < tickers[r].startedAt
    /\ alerts[a].base.at <= tickers[r].startedAt
    /\ tickers[r].startedAt >= now - Fresh

\* Variant with a mistake: ON CONFLICT DO UPDATE, the latest crossing wins.
NewOrLater(a) == TRUE

\* ON CONFLICT (alert_id) DO NOTHING: the first crossing of an alert is kept.  No other
\* transaction of the symbol is open, so the answer holds until the commit.
NewCrossing(a) == crossings[a] = NoCrossing

\* persistObservedMarketPrice up to its commit: the upsert takes the lock of the symbol's
\* row in market_prices and keeps it, and the INSERT ... SELECT reads the alerts.
StoreMarketPrice(r, s) ==
    LET fetch == fetches[r][s] IN
    /\ fetch.pc = "quoted"
    /\ \A q \in Replicas : fetches[q][s].pc # "storing"
    /\ fetches' = [fetches EXCEPT ![r][s] = [fetch EXCEPT
           !.pc = "storing", !.storedAt = now,
           !.crossed = IF tickers[r].enabled /\ tickers[r].startedAt # Zero
                       THEN {a \in Alerts : Watched(r, s, a) /\ Crossed(a, fetch.price) /\ NewCrossing(a)}
                       ELSE {}]]
    /\ UNCHANGED <<now, market, marketPrices, alerts, crossings, jobs, lastId, tickers, cache, requests, faults>>

\* The crossings become visible, except those of alerts deleted meanwhile.  An alert that
\* stopped being active since it was read still gets its row.
CrossingsWith(r, s) == [a \in Alerts |->
    IF a \in fetches[r][s].crossed /\ alerts[a].status # "absent"
    THEN [price |-> fetches[r][s].price, at |-> fetches[r][s].storedAt, quotedAt |-> fetches[r][s].quotedAt]
    ELSE crossings[a]]

\* The commit of persistObservedMarketPrice; `known' tells whether its answer arrives.
CommitMarketPrice(r, s, known) ==
    LET fetch == fetches[r][s] IN
    /\ fetch.pc = "storing"
    /\ IF known THEN UNCHANGED faults ELSE Fault
    /\ marketPrices' = [marketPrices EXCEPT ![s] = [price |-> fetch.price, at |-> fetch.storedAt]]
    /\ crossings' = CrossingsWith(r, s)
    /\ fetches' = [fetches EXCEPT ![r][s] = IF known THEN [fetch EXCEPT !.pc = "stored", !.crossed = {}]
                                                     ELSE NoFetch]
    /\ UNCHANGED <<now, market, alerts, jobs, lastId, tickers, cache, requests>>

\* PriceCache.StoreAt, after the commit.
StoreAt(r, s) ==
    /\ fetches[r][s].pc = "stored"
    /\ cache' = [cache EXCEPT ![r][s] = [price |-> fetches[r][s].price, at |-> fetches[r][s].storedAt]]
    /\ fetches' = [fetches EXCEPT ![r][s] = NoFetch]
    /\ UNCHANGED <<now, market, marketPrices, alerts, crossings, jobs, lastId, tickers, requests, faults>>

\* Variant with a mistake: the cache is filled although the transaction failed.
FetchFailsButCaches(r, s) ==
    /\ fetches[r][s].pc \in {"asking", "quoted", "storing"}
    /\ Fault
    /\ fetches' = [fetches EXCEPT ![r][s] = NoFetch]
    /\ cache' = IF fetches[r][s].pc # "storing" THEN cache
                ELSE [cache EXCEPT ![r][s] = [price |-> fetches[r][s].price, at |-> fetches[r][s].storedAt]]
    /\ UNCHANGED <<now, market, marketPrices, alerts, crossings, jobs, lastId, tickers, requests>>

\* The request fails, the answer is not a valid price, or the transaction rolls back.
FetchFails(r, s) ==
    /\ fetches[r][s].pc \in {"asking", "quoted", "storing"}
    /\ Fault
    /\ fetches' = [fetches EXCEPT ![r][s] = NoFetch]
    /\ UNCHANGED <<now, market, marketPrices, alerts, crossings, jobs, lastId, tickers, cache, requests>>

\* Variant with a mistake: a disabled replica leaves recorded crossings alone.
BeginPassIfEnabled(r) ==
    /\ tickers[r].pc = "fetching" /\ \A s \in Symbols : fetches[r][s].pc = "done"
    /\ tickers[r].enabled
    /\ crossings' = [a \in Alerts |-> IF alerts[a].status = "active" THEN crossings[a] ELSE NoCrossing]
    /\ tickers' = [tickers EXCEPT ![r] = [NewTicker(TRUE) EXCEPT !.pc = "listing",
                       !.due = {a \in Alerts : crossings'[a] # NoCrossing}]]
    /\ UNCHANGED <<now, market, marketPrices, alerts, jobs, lastId, fetches, cache, requests, faults>>

\* All goroutines are done; the deferred processPriceAlertCrossings first drops the crossings
\* of alerts that are no longer active.  due is a ghost: what there is to trigger.
BeginPass(r) ==
    /\ tickers[r].pc = "fetching" /\ \A s \in Symbols : fetches[r][s].pc = "done"
    /\ crossings' = [a \in Alerts |-> IF alerts[a].status = "active" THEN crossings[a] ELSE NoCrossing]
    /\ tickers' = [tickers EXCEPT ![r] = [NewTicker(tickers[r].enabled) EXCEPT !.pc = "listing",
                       !.due = {a \in Alerts : crossings'[a] # NoCrossing}]]
    /\ UNCHANGED <<now, market, marketPrices, alerts, jobs, lastId, fetches, cache, requests, faults>>

Candidates(r) == {a \in Alerts : /\ crossings[a] # NoCrossing
                                 /\ alerts[a].status = "active"
                                 /\ a > tickers[r].afterId}

\* SELECT ... WHERE pa.id > afterID ORDER BY pa.id LIMIT; no candidate ends the pass.
ListCandidates(r) ==
    LET batch == {a \in Candidates(r) : Cardinality({b \in Candidates(r) : b < a}) < BatchLimit} IN
    /\ tickers[r].pc = "listing"
    /\ tickers' = [tickers EXCEPT ![r] = IF batch = {} THEN NewTicker(@.enabled) ELSE [@ EXCEPT
           !.pc = "triggering",
           !.batch = {[id |-> a, price |-> crossings[a].price, at |-> crossings[a].at] : a \in batch}]]
    /\ UNCHANGED <<now, market, marketPrices, alerts, crossings, jobs, lastId, fetches, cache, requests, faults>>

LockFree(c) == updates[c] = NoUpdate /\ sends[c] = 0

\* Variant with a mistake: the first busy chat ends the pass.
StopAtBusy(r, candidate, skipped) == tickers' = [tickers EXCEPT
    ![r].batch = IF skipped THEN {} ELSE @ \ {candidate}, ![r].afterId = candidate.id,
    ![r].pc = IF skipped THEN "idle" ELSE IF tickers[r].batch = {candidate} THEN "listing" ELSE "triggering",
    ![r].busy = IF skipped THEN @ \cup {candidate.id} ELSE @]

\* The candidate has been dealt with; busy is a ghost: alerts skipped for their chat's lock.
After(r, candidate, skipped) == tickers' = [tickers EXCEPT
    ![r].batch = @ \ {candidate}, ![r].afterId = candidate.id,
    ![r].pc = IF tickers[r].batch = {candidate} THEN "listing" ELSE "triggering",
    ![r].busy = IF skipped THEN @ \cup {candidate.id} ELSE @]

\* Variant with a mistake: the alert's status is not checked again.
TriggerableIfListed(id) == TRUE

\* WHERE id = $1 AND status = 'active'.
Triggerable(id) == alerts[id].status = "active"

\* triggerPriceAlert: one transaction under the chat's lock, which is only tried.  The alert
\* becomes triggered, its job is inserted and its crossing deleted.
TriggerPriceAlert(r, candidate) ==
    LET id == candidate.id IN
    /\ tickers[r].pc = "triggering"
    /\ candidate \in tickers[r].batch /\ \A other \in tickers[r].batch : id <= other.id
    /\ \/ /\ Triggerable(id) /\ LockFree(alerts[id].chat)
          /\ alerts' = [alerts EXCEPT ![id].status = "triggered",
                            ![id].trigger = [price |-> candidate.price, at |-> candidate.at]]
          /\ jobs' = [jobs EXCEPT ![id] = "pending"]
          /\ crossings' = [crossings EXCEPT ![id] = NoCrossing]
          /\ After(r, candidate, FALSE)
       \/ /\ ~Triggerable(id) \/ ~LockFree(alerts[id].chat)
          /\ After(r, candidate, Triggerable(id))
          /\ UNCHANGED <<alerts, jobs, crossings>>
    /\ UNCHANGED <<now, market, marketPrices, lastId, fetches, cache, requests, faults>>

\* A statement fails or the two seconds of the pass run out: what was triggered stays so.
PassFails(r) ==
    /\ tickers[r].pc \in {"listing", "triggering"}
    /\ Fault
    /\ tickers' = [tickers EXCEPT ![r] = NewTicker(tickers[r].enabled)]
    /\ UNCHANGED <<now, market, marketPrices, alerts, crossings, jobs, lastId, fetches, cache, requests>>

\* The replica dies and starts again, perhaps with PRICE_ALERTS_ENABLED changed: its open
\* transactions roll back and release their locks; WarmupCache loads market_prices,
\* up to the row where it fails.
Restart(r, enabled) ==
    /\ Fault
    /\ tickers' = [tickers EXCEPT ![r] = NewTicker(enabled)]
    /\ fetches' = [fetches EXCEPT ![r] = [s \in Symbols |-> NoFetch]]
    /\ \E warm \in SUBSET Symbols : cache' = [cache EXCEPT ![r] =
           [s \in Symbols |-> IF s \in warm THEN marketPrices[s] ELSE NoPrice]]
    /\ updates' = [c \in Chats |-> IF updates[c].replica = r THEN NoUpdate ELSE updates[c]]
    /\ UNCHANGED <<now, market, marketPrices, alerts, crossings, jobs, lastId, sends>>

-----------------------------------------------------------------------------
(* What users do *)

Open(a) == jobs[a] \in {"pending", "sending"}

alertTarget(base, percent) == (base * (100 + percent)) \div 100

\* Variant with a mistake: alerts whose message still waits do not count.
CountActiveOnly(c) == Cardinality({a \in Alerts : alerts[a].chat = c /\ alerts[a].status = "active"})

\* SELECT COUNT(*) of createPriceAlert.
CountAlerts(c) == Cardinality({a \in Alerts : alerts[a].chat = c /\ (alerts[a].status = "active" \/ Open(a))})

\* addPriceAlertAndReply and createPriceAlert in an update transaction that holds the chat's
\* lock: the base is the replica's cached price, which must be fresh by the database's
\* clock; the row is inserted and visible once the transaction commits.  A refusal
\* (disabled, stale, invalid, limit, duplicate) only sends a reply.
CreatePriceAlert(r, c, s, percent) ==
    LET entry == cache[r][s]
        id == lastId + 1
        target == alertTarget(entry.price, percent)
    IN
    /\ lastId < MaxAlerts
    /\ LockFree(c)
    /\ tickers[r].enabled
    /\ entry # NoPrice
    /\ (percent > 0 /\ target > entry.price) \/ (percent < 0 /\ target < entry.price /\ target > 0)
    /\ entry.at <= now /\ now - entry.at <= Fresh
    /\ CountAlerts(c) < MaxActive
    /\ ~\E a \in Alerts : /\ alerts[a].status = "active" /\ alerts[a].chat = c
                          /\ alerts[a].symbol = s /\ alerts[a].percent = percent
    /\ lastId' = id
    /\ updates' = [updates EXCEPT ![c] = [replica |-> r, id |-> id,
           row |-> [status |-> "active", chat |-> c, symbol |-> s, percent |-> percent, base |-> entry,
                    target |-> target, createdAt |-> now, trigger |-> NoPrice]]]
    /\ UNCHANGED <<now, market, marketPrices, alerts, crossings, jobs, tickers, fetches, cache, sends, faults>>

\* Any other update of the chat, a refused alert included, holds the chat's lock for a while.
OtherUpdate(r, c) ==
    /\ LockFree(c)
    /\ Fault
    /\ updates' = [updates EXCEPT ![c] = [NoUpdate EXCEPT !.replica = r]]
    /\ UNCHANGED <<now, market, marketPrices, alerts, crossings, jobs, lastId, tickers, fetches, cache, sends>>

\* The update's transaction commits, or rolls back; the chat's lock is released.
CommitUpdate(c) ==
    /\ updates[c] # NoUpdate
    /\ alerts' = IF updates[c].id = 0 THEN alerts ELSE [alerts EXCEPT ![updates[c].id] = updates[c].row]
    /\ updates' = [updates EXCEPT ![c] = NoUpdate]
    /\ UNCHANGED <<now, market, marketPrices, crossings, jobs, lastId, tickers, fetches, cache, sends, faults>>

RollBackUpdate(c) ==
    /\ updates[c] # NoUpdate
    /\ Fault
    /\ updates' = [updates EXCEPT ![c] = NoUpdate]
    /\ UNCHANGED <<now, market, marketPrices, alerts, crossings, jobs, lastId, tickers, fetches, cache, sends>>

\* Variant with a mistake: canceling does not wait for the chat's lock.
CancelableUnlocked(a) == alerts[a].status = "active" \/ Open(a)

Cancelable(a) == LockFree(alerts[a].chat) /\ (alerts[a].status = "active" \/ Open(a))

JobsAfterCancel(a) == IF Open(a) THEN [jobs EXCEPT ![a] = "canceled"] ELSE jobs

\* cancelPriceAlert, under the chat's lock and on every replica: the alert and its open job.
CancelPriceAlert(a) ==
    /\ alerts[a].status # "absent" /\ Cancelable(a)
    /\ alerts' = [alerts EXCEPT ![a].status = "canceled"]
    /\ jobs' = JobsAfterCancel(a)
    /\ UNCHANGED <<now, market, marketPrices, crossings, lastId, tickers, fetches, cache, requests, faults>>

-----------------------------------------------------------------------------
(* Delivery and retention *)

\* A sender has claimed the job, locked the chat and found the alert triggered
\* (notificationEnabled).  A job whose sender died is claimed again.
BeginDelivery(a) ==
    LET c == alerts[a].chat IN
    /\ Open(a) /\ alerts[a].status = "triggered"
    /\ LockFree(c)
    /\ jobs' = [jobs EXCEPT ![a] = "sending"]
    /\ sends' = [sends EXCEPT ![c] = a]
    /\ UNCHANGED <<now, market, marketPrices, alerts, crossings, lastId, tickers, fetches, cache, updates, faults>>

\* The attempt ends; a failed one is retried or given up, a dead sender leaves "sending".
EndDelivery(c, outcome) ==
    /\ sends[c] # 0
    /\ IF outcome \in {"sent", "failed"} THEN UNCHANGED faults ELSE Fault
    /\ jobs' = [jobs EXCEPT ![sends[c]] = outcome]
    /\ sends' = [sends EXCEPT ![c] = 0]
    /\ UNCHANGED <<now, market, marketPrices, alerts, crossings, lastId, tickers, fetches, cache, updates>>

\* cleanupNotificationJobHistory.
CleanupJob(a) ==
    /\ jobs[a] \in {"sent", "failed", "canceled"}
    /\ jobs' = [jobs EXCEPT ![a] = "none"]
    /\ UNCHANGED <<now, market, marketPrices, alerts, crossings, lastId, tickers, fetches, cache, requests, faults>>

\* cleanupPriceAlertHistory, with the crossing by cascade.  Ninety days after the alert's
\* last change no transaction that read it as active is still open.
CleanupPriceAlert(a) ==
    /\ alerts[a].status \in {"triggered", "canceled"} /\ jobs[a] = "none"
    /\ \A r \in Replicas : /\ \A s \in Symbols : a \notin fetches[r][s].crossed
                           /\ \A candidate \in tickers[r].batch : candidate.id # a
    /\ alerts' = [alerts EXCEPT ![a] = NoAlert]
    /\ crossings' = [crossings EXCEPT ![a] = NoCrossing]
    /\ UNCHANGED <<now, market, marketPrices, jobs, lastId, tickers, fetches, cache, requests, faults>>

-----------------------------------------------------------------------------
TickerStep(r) ==
    \/ BeginCycle(r) \/ BeginPass(r) \/ ListCandidates(r)
    \/ \E candidate \in tickers[r].batch : TriggerPriceAlert(r, candidate)

FetchStep(r, s) == Quote(r, s) \/ StoreMarketPrice(r, s) \/ CommitMarketPrice(r, s, TRUE) \/ StoreAt(r, s)

ReplicaFault(r) ==
    \/ BeginCycleFails(r) \/ PassFails(r)
    \/ \E s \in Symbols : FetchFails(r, s) \/ CommitMarketPrice(r, s, FALSE)
    \/ \E enabled \in BOOLEAN : Restart(r, enabled)

AlertStep(a) == CancelPriceAlert(a) \/ BeginDelivery(a) \/ CleanupJob(a) \/ CleanupPriceAlert(a)

DeliveryEnds(c) == \E outcome \in {"sent", "failed", "pending", "sending"} : EndDelivery(c, outcome)

ChatStep(c) ==
    \/ \E r \in Replicas, s \in Symbols, percent \in Percents : CreatePriceAlert(r, c, s, percent)
    \/ \E r \in Replicas : OtherUpdate(r, c)
    \/ CommitUpdate(c) \/ RollBackUpdate(c) \/ DeliveryEnds(c)

Next ==
    \/ Tick
    \/ \E r \in Replicas : TickerStep(r) \/ (\E s \in Symbols : FetchStep(r, s)) \/ ReplicaFault(r)
    \/ \E a \in Alerts : AlertStep(a)
    \/ \E c \in Chats : ChatStep(c)

Spec == Init /\ [][Next]_vars

\* Requests, transactions and sends have timeouts and the ticker fires every 15 seconds;
\* nothing is assumed of users, of the exchange's price or of faults.
Fairness ==
    /\ \A r \in Replicas : WF_vars(TickerStep(r))
    /\ \A r \in Replicas, s \in Symbols : WF_vars(FetchStep(r, s))
    /\ \A c \in Chats : WF_vars(CommitUpdate(c)) /\ WF_vars(DeliveryEnds(c))

FairSpec == Spec /\ Fairness

-----------------------------------------------------------------------------
(* Properties *)

Times == 0..MaxTime
PriceAt == [price : Nat, at : Times]
AlertRow == [status : {"absent", "active", "triggered", "canceled"}, chat : Chats \cup {0},
             symbol : Symbols \cup {0}, percent : Int, base : PriceAt, target : Nat,
             createdAt : Times, trigger : PriceAt]

\* The variables keep their types.
TypeOK ==
    /\ now \in Times
    /\ market \in [Symbols -> Prices]
    /\ marketPrices \in [Symbols -> PriceAt]
    /\ alerts \in [Alerts -> AlertRow]
    /\ crossings \in [Alerts -> [price : Nat, at : Times, quotedAt : Times]]
    /\ jobs \in [Alerts -> {"none", "pending", "sending", "sent", "failed", "canceled"}]
    /\ lastId \in 0..MaxAlerts
    /\ tickers \in [Replicas -> [pc : {"idle", "fetching", "listing", "triggering"}, enabled : BOOLEAN,
                        startedAt : Times \cup {Zero}, afterId : 0..MaxAlerts,
                        batch : SUBSET [id : Alerts, price : Nat, at : Times],
                        due : SUBSET Alerts, busy : SUBSET Alerts]]
    /\ fetches \in [Replicas -> [Symbols -> [pc : {"done", "asking", "quoted", "storing", "stored"},
                        price : Nat, quotedAt : Times, storedAt : Times, crossed : SUBSET Alerts]]]
    /\ cache \in [Replicas -> [Symbols -> PriceAt]]
    /\ updates \in [Chats -> [replica : Replicas \cup {0}, id : 0..MaxAlerts, row : AlertRow]]
    /\ sends \in [Chats -> 0..MaxAlerts]
    /\ faults \in 0..MaxFaults

HasCrossing(a) == crossings[a] # NoCrossing /\ alerts[a].status # "absent"

QuotedAfterCreation(a) == alerts[a].createdAt < crossings[a].quotedAt /\ alerts[a].base.at <= crossings[a].quotedAt
QuoteStillFresh(a) == crossings[a].at - crossings[a].quotedAt <= Fresh

\* README: an alert is only checked by a cycle begun after its creation.  However long a request
\* or capturePriceAlertCrossings was delayed, the price it records was quoted by the exchange
\* after the alert had been created and its base stored, and not longer before than
\* priceFreshnessLimit, though the exchange's answer carries no time.
ObservedInTime == \A a \in Alerts : HasCrossing(a) => QuotedAfterCreation(a) /\ QuoteStillFresh(a)

\* createPriceAlert keeps a chat within maxActivePriceAlerts, messages that still wait
\* included, although replicas create, trigger and deliver at the same time.
WithinLimit == \A c \in Chats :
    Cardinality({a \in Alerts : alerts[a].chat = c /\ (alerts[a].status = "active" \/ Open(a))}) <= MaxActive

\* cancelPriceAlert and the sender exclude each other: while a message is being delivered its
\* alert is triggered, never canceled.
CanceledNeverSent == \A c \in Chats : sends[c] # 0 => alerts[sends[c]].status = "triggered" /\ Open(sends[c])

\* A price that serves as an alert's base was committed: a cached price is never newer than
\* the one in market_prices, whatever transaction failed after it.
CacheIsCommitted == \A r \in Replicas, s \in Symbols :
    cache[r][s] # NoPrice => marketPrices[s] # NoPrice /\ cache[r][s].at <= marketPrices[s].at

\* docs/operations.md: the first recorded crossing of an alert is kept until the atomic
\* trigger.  While the alert is active its crossing neither changes nor disappears, and the
\* alert is triggered with exactly its price and time.
FirstCrossingDecides == [][\A a \in Alerts :
    crossings[a] # NoCrossing /\ alerts[a].status = "active" =>
        \/ alerts'[a].status = "active" /\ crossings'[a] = crossings[a]
        \/ alerts'[a].status = "canceled"
        \/ alerts'[a].trigger = [price |-> crossings[a].price, at |-> crossings[a].at]
           /\ crossings'[a] = NoCrossing /\ jobs'[a] = "pending"]_vars

\* A pass that ends without an error leaves of the crossings it began with only those whose
\* chat was busy: neither a batch limit nor another busy chat holds an alert back.
PassSkipsOnlyBusyChats == [][\A r \in Replicas :
    tickers[r].pc \in {"listing", "triggering"} /\ tickers'[r].pc = "idle" /\ faults' = faults =>
        \A a \in tickers[r].due : alerts'[a].status = "active" => a \in tickers[r].busy]_vars

\* Alerts are one-shot, their jobs are created with the trigger and canceled with the alert.
OneShot == INSTANCE OneShotAlerts WITH
    status <- [a \in Alerts |-> alerts[a].status],
    message <- [a \in Alerts |-> IF Open(a) THEN "open" ELSE jobs[a]]
ImplementsOneShotAlerts == OneShot!Spec

\* README: a busy chat, a batch limit, a restart or disabled alerts never cancel the work: every
\* recorded crossing is eventually turned into a triggered alert or dropped with its alert.
EveryCrossingConsumed == \A a \in Alerts : HasCrossing(a) ~> ~HasCrossing(a)
=============================================================================
