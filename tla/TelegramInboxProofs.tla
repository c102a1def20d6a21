------------------------ MODULE TelegramInboxProofs ------------------------
(***************************************************************************)
(* The safety of the durable inbox for every number of chats, workers,     *)
(* updates, attempts, weeks and faults.  The order of the mutations needs  *)
(* the assumption under which the code promises it: that Telegram's week   *)
(* without updates ends together with the bot's (DeliveryLag is FALSE).    *)
(***************************************************************************)
EXTENDS TelegramInbox, TLAPS

-----------------------------------------------------------------------------
(* The inductive invariant *)

EventType == [id : UpdateIds, chat : Chats, cmd : Commands]
RowType == [status : {"absent", "pending", "processing", "processed", "failed"},
            event : 0..MaxEvents, epoch : 0..MaxWeeks, attempts : Nat,
            expired : BOOLEAN, due : BOOLEAN, saved : Nat]
WorkerType == [pc : {"idle", "claimed", "locked", "allowed", "processing", "marking", "releasing"},
               id : UpdateIds \cup {0}, event : 0..MaxEvents, epoch : 0..MaxWeeks,
               attempts : Nat, apply : BOOLEAN, lang : 0..MaxEvents]
VersionType == [epoch : Int, id : Nat, event : 0..MaxEvents]
SettingsType == [subscription : 0..MaxEvents, interval : 0..MaxEvents, language : 0..MaxEvents,
                 subscribed : BOOLEAN]

\* The epoch of the next update that is saved.
NextEpoch == IF stream.old THEN stream.epoch + 1 ELSE stream.epoch

\* TypeOK, and the numbers that TypeOK leaves out.
Types ==
    /\ TypeOK
    /\ Len(events) <= MaxEvents
    /\ weeks \in 0..MaxWeeks /\ NextEpoch <= weeks
    /\ saves \in Nat /\ losses \in Nat
    /\ settings \in [Chats -> SettingsType]

\* A row belongs to the event that carries its id.
RowsMatch == \A u \in UpdateIds : rows[u].status # "absent" =>
    /\ rows[u].event \in 1..Len(events) /\ events[rows[u].event].id = u
    /\ rows[u].saved <= saves

\* A worker carries out a claim of a row that stays until it is done.
Claims == \A w \in Workers : workers[w].pc # "idle" =>
    /\ workers[w].id \in UpdateIds /\ rows[workers[w].id].status # "absent"
    /\ rows[workers[w].id].event = workers[w].event /\ rows[workers[w].id].epoch = workers[w].epoch

\* A committed update is not open, and as long as Telegram redelivers it its row is kept.
Once == \A n \in 1..MaxEvents :
    /\ effects[n] <= 1
    /\ effects[n] > 0 =>
        /\ n <= Len(events)
        /\ \A u \in UpdateIds : IsOpen(u) => rows[u].event # n
        /\ n \in live => rows[events[n].id].status # "absent" /\ rows[events[n].id].event = n

\* Nothing of the chat that was saved before a claimed update and precedes it is open.
ClaimedInOrder == \A u, v \in UpdateIds :
    /\ rows[u].status = "processing" /\ IsOpen(v) /\ ChatAt(v) = ChatAt(u)
    /\ Before(rows[v].epoch, v, rows[u].epoch, u)
    => rows[v].saved > rows[u].saved

IInv == Types /\ RowsMatch /\ Claims /\ Once /\ ClaimedInOrder

-----------------------------------------------------------------------------
(* The invariant for the order of the mutations *)

\* What orders a mutation, as the rows and the versions remember it.
StampOf(u) == [epoch |-> rows[u].epoch, id |-> u, event |-> rows[u].event]
RowStamps == {StampOf(u) : u \in Retained}
Stamps == RowStamps \cup {versions[c][s] : c \in Chats, s \in Settings}

Precedes(a, b) == Before(a.epoch, a.id, b.epoch, b.id)

\* Ids of the updates that Telegram still delivers grow, up to that of the last update.
Sequential ==
    /\ weekQuiet => live = {} /\ stream.old
    /\ \A n \in live : events[n].id <= events[Len(events)].id
    /\ \A m, n \in live : m < n => events[m].id < events[n].id

\* No stamp is from a later epoch, and none of the next epoch has a later id.
NoLaterStamp == \A a \in Stamps :
    /\ a.event <= Len(events)
    /\ a.event = 0 => a.epoch = -1
    /\ a.epoch <= stream.epoch
    /\ a.epoch = NextEpoch => a.id <= events[Len(events)].id

\* The stamp that a live update would get is in the right order.
LiveInOrder == \A a \in Stamps, n \in live :
    /\ a.event < n => Before(a.epoch, a.id, NextEpoch, events[n].id)
    /\ a.event > n => ~stream.old /\ a.epoch = stream.epoch /\ events[n].id < a.id

\* Stamps are in the order in which the users acted.
StampsInOrder == \A a, b \in Stamps : a.event < b.event => Precedes(a, b)

\* A version is that of a row, or all that Telegram still delivers is later.
VersionsKept == \A c \in Chats, s \in Settings :
    versions[c][s] \in RowStamps \/ \A n \in live : versions[c][s].event < n

\* A version belongs to a mutation of its setting; the subscription shows it.
VersionsMatch == \A c \in Chats :
    /\ \A s \in Settings : versions[c][s].event # 0 => MutationSetting(events[versions[c][s].event].cmd) = s
    /\ settings[c]["subscription"] = versions[c]["subscription"].event

\* A version that holds the mutation of n, or one that n had to yield to.
Held(n) ==
    LET c == events[n].chat  s == MutationSetting(events[n].cmd) IN
    \/ s = "none" \/ versions[c][s].event >= n
    \/ s = "interval" /\ versions[c]["subscription"].event > n

\* What the decision of a transaction promises until it ends, since it holds the version row.
DecidedBy(w) ==
    LET c == ChatOf(w)  n == workers[w].event  s == MutationSetting(EventOf(w).cmd) IN
    /\ workers[w].apply /\ s # "none" => versionLock[c][s] = w /\ versions[c][s].event <= n
    /\ ~workers[w].apply => Held(n)
    /\ workers[w].apply /\ s = "interval" /\ losses = 0 => versions[c]["subscription"].event < n

Decided == \A w \in Workers : workers[w].pc \in {"allowed", "processing"} => DecidedBy(w)

\* As long as no lock session is lost, a transaction runs under its chat's lock.
Locked == losses = 0 => \A w \in Workers :
    workers[w].pc \in {"locked", "allowed", "processing"} => chatLock[ChatOf(w)] = w

\* What was processed is in force.
ClosedHeld == \A n \in closed : n <= Len(events) /\ Held(n)

OInv == /\ IInv /\ Sequential /\ NoLaterStamp /\ LiveInOrder /\ StampsInOrder
        /\ VersionsKept /\ VersionsMatch /\ Decided /\ Locked /\ ClosedHeld

-----------------------------------------------------------------------------
(* What the steps have in common *)

\* No row is added, removed or given another event, epoch or place.
SameRows ==
    /\ rows' \in [UpdateIds -> RowType]
    /\ \A u \in UpdateIds :
          /\ rows'[u].event = rows[u].event /\ rows'[u].epoch = rows[u].epoch
          /\ rows'[u].saved = rows[u].saved
          /\ rows'[u].status = "absent" <=> rows[u].status = "absent"
          /\ rows'[u].status \in {"pending", "processing"} => IsOpen(u)

\* No row is claimed.
NoneClaimed == \A u \in UpdateIds : rows'[u].status = "processing" => rows[u].status = "processing"

\* Workers go on with their claims or end them.
SameClaims ==
    /\ workers' \in [Workers -> WorkerType]
    /\ \A w \in Workers :
          \/ workers'[w].pc = "idle"
          \/ /\ workers[w].pc # "idle" /\ workers'[w].id = workers[w].id
             /\ workers'[w].event = workers[w].event /\ workers'[w].epoch = workers[w].epoch

\* Telegram does nothing and nothing is saved.
SameStream == UNCHANGED <<events, live, weekQuiet, weeks, stream, saves>>

\* Events are records of a command of a chat with its id.
LEMMA EventFacts ==
    ASSUME Types, NEW n \in 1..Len(events)
    PROVE  events[n] \in EventType /\ Len(events) \in Nat /\ n \in 1..MaxEvents
<1>1. events \in Seq(EventType) /\ MaxEvents \in Nat /\ Len(events) <= MaxEvents
    BY InboxAssumption DEF Types, TypeOK, EventType
<1> QED BY <1>1

\* A worker's event is one that a user caused.
LEMMA WorkerFacts ==
    ASSUME Types, RowsMatch, Claims, NEW w \in Workers, workers[w].pc # "idle"
    PROVE  /\ workers[w].event \in 1..Len(events) /\ workers[w].event \in 1..MaxEvents
           /\ EventOf(w) = events[workers[w].event]
           /\ EventOf(w) \in EventType /\ ChatOf(w) = EventOf(w).chat /\ ChatOf(w) \in Chats
           /\ events[workers[w].event].id = workers[w].id
           /\ workers[w].id \in UpdateIds /\ workers[w] \in WorkerType
           /\ rows[workers[w].id] \in RowType /\ rows[workers[w].id].status # "absent"
           /\ rows[workers[w].id].event = workers[w].event
           /\ rows[workers[w].id].epoch = workers[w].epoch
<1>1. /\ workers[w].id \in UpdateIds /\ workers[w] \in WorkerType
      /\ rows[workers[w].id] \in RowType /\ rows[workers[w].id].status # "absent"
      /\ rows[workers[w].id].event = workers[w].event
      /\ rows[workers[w].id].epoch = workers[w].epoch
    BY DEF Types, TypeOK, Claims, WorkerType, RowType
<1>2. workers[w].event \in 1..Len(events) /\ events[workers[w].event].id = workers[w].id
    BY <1>1 DEF RowsMatch
<1>3. events[workers[w].event] \in EventType /\ workers[w].event \in 1..MaxEvents
    BY <1>2, EventFacts
<1> QED BY <1>1, <1>2, <1>3 DEF EventOf, ChatOf, EventType

\* Rows keep matching their events when none is added.
LEMMA RowsMatchFrame ==
    ASSUME Types, RowsMatch, SameRows, UNCHANGED <<events, saves>>
    PROVE  RowsMatch'
BY DEF RowsMatch, SameRows

\* Claims go on.
LEMMA ClaimsFrame ==
    ASSUME Types, Claims, SameRows, SameClaims
    PROVE  Claims'
<1> SUFFICES ASSUME NEW w \in Workers, workers'[w].pc # "idle"
             PROVE  Claims!(w)'
    BY DEF Claims
<1>1. /\ workers[w].pc # "idle" /\ workers'[w].id = workers[w].id
      /\ workers'[w].event = workers[w].event /\ workers'[w].epoch = workers[w].epoch
    BY DEF SameClaims
<1>2. /\ workers[w].id \in UpdateIds /\ rows[workers[w].id].status # "absent"
      /\ rows[workers[w].id].event = workers[w].event /\ rows[workers[w].id].epoch = workers[w].epoch
    BY <1>1 DEF Claims
<1> QED BY <1>1, <1>2 DEF SameRows

\* What was committed stays committed once.
LEMMA OnceFrame ==
    ASSUME Types, RowsMatch, Once, SameRows, SameStream, UNCHANGED effects
    PROVE  Once'
<1> SUFFICES ASSUME NEW n \in 1..MaxEvents PROVE Once!(n)'
    BY DEF Once
<1>1. CASE effects[n] = 0
    BY <1>1 DEF Once
<1>2. CASE effects[n] > 0
    <2>1. /\ n <= Len(events)
          /\ \A u \in UpdateIds : IsOpen(u) => rows[u].event # n
          /\ n \in live => rows[events[n].id].status # "absent" /\ rows[events[n].id].event = n
        BY <1>2 DEF Once
    <2>2. events[n].id \in UpdateIds
        <3>1. n \in 1..Len(events) BY <2>1
        <3> QED BY <3>1, EventFacts DEF EventType
    <2> QED BY <1>2, <2>1, <2>2 DEF Once, SameRows, SameStream, IsOpen
<1>3. effects[n] \in Nat BY DEF Types, TypeOK
<1> QED BY <1>1, <1>2, <1>3

\* No earlier update of the chat is opened.
LEMMA InOrderFrame ==
    ASSUME Types, RowsMatch, ClaimedInOrder, SameRows, NoneClaimed, UNCHANGED events
    PROVE  ClaimedInOrder'
<1> SUFFICES ASSUME NEW u \in UpdateIds, NEW v \in UpdateIds,
                    rows'[u].status = "processing", rows'[v].status \in {"pending", "processing"},
                    ChatAt(v)' = ChatAt(u)',
                    Before(rows'[v].epoch, v, rows'[u].epoch, u)
             PROVE  rows'[v].saved > rows'[u].saved
    BY DEF ClaimedInOrder, IsOpen, Before
<1>1. rows[u].status = "processing" /\ IsOpen(v)
    BY DEF SameRows, NoneClaimed
<1>2. ChatAt(v) = ChatAt(u) /\ Before(rows[v].epoch, v, rows[u].epoch, u)
    BY DEF ChatAt, SameRows, Before
<1>3. rows[v].saved > rows[u].saved
    BY <1>1, <1>2 DEF ClaimedInOrder
<1> QED BY <1>3 DEF SameRows

-----------------------------------------------------------------------------
(* The steps of the workers and of time *)

PcType == {"idle", "claimed", "locked", "allowed", "processing", "marking", "releasing"}

\* A step that neither claims nor commits anything.
Local == /\ SameRows /\ NoneClaimed /\ SameClaims /\ SameStream
         /\ UNCHANGED <<versions, settings, effects, closed>>

\* Types of what such steps, claims and commits may change.
LEMMA TypesFrame ==
    ASSUME Types, SameStream, rows' \in [UpdateIds -> RowType], workers' \in [Workers -> WorkerType],
           chatLock' \in [Chats -> Workers \cup {"free"}],
           versionLock' \in [Chats -> [Settings -> Workers \cup {"free"}]],
           versions' \in [Chats -> [Settings -> VersionType]], effects' \in [1..MaxEvents -> Nat],
           closed' \subseteq 1..MaxEvents, settings' \in [Chats -> SettingsType], losses' \in Nat
    PROVE  Types'
<1>1. /\ events' = events /\ live' = live /\ weekQuiet' = weekQuiet /\ weeks' = weeks
      /\ stream' = stream /\ saves' = saves
    BY DEF SameStream
<1>2. TypeOK'
    BY <1>1 DEF Types, TypeOK, RowType, WorkerType, VersionType
<1>3. NextEpoch' = NextEpoch
    BY <1>1 DEF NextEpoch
<1> QED BY <1>1, <1>2, <1>3 DEF Types

\* Steps without a claim or a commit keep the invariant.
LEMMA LocalKeeps ==
    ASSUME IInv, Local, chatLock' \in [Chats -> Workers \cup {"free"}],
           versionLock' \in [Chats -> [Settings -> Workers \cup {"free"}]], losses' \in Nat
    PROVE  IInv'
<1>1. Types /\ RowsMatch /\ Claims /\ Once /\ ClaimedInOrder BY DEF IInv
<1>2. SameRows /\ NoneClaimed /\ SameClaims /\ SameStream BY DEF Local
<1>3. rows' \in [UpdateIds -> RowType] /\ workers' \in [Workers -> WorkerType]
    BY <1>2 DEF SameRows, SameClaims
<1>4. /\ versions' \in [Chats -> [Settings -> VersionType]] /\ effects' \in [1..MaxEvents -> Nat]
      /\ closed' \subseteq 1..MaxEvents /\ settings' \in [Chats -> SettingsType]
    BY <1>1 DEF Local, Types, TypeOK, VersionType
<1>5. Types' BY <1>1, <1>2, <1>3, <1>4, TypesFrame
<1>6. UNCHANGED <<events, saves, effects>> BY DEF Local, SameStream
<1>7. RowsMatch' BY <1>1, <1>2, <1>6, RowsMatchFrame
<1>8. Claims' BY <1>1, <1>2, ClaimsFrame
<1>9. Once' BY <1>1, <1>2, <1>6, OnceFrame
<1>10. ClaimedInOrder' BY <1>1, <1>2, <1>6, InOrderFrame
<1> QED BY <1>5, <1>7, <1>8, <1>9, <1>10 DEF IInv

\* Unchanged rows.
LEMMA SameRowsFrame ==
    ASSUME Types, UNCHANGED rows
    PROVE  SameRows /\ NoneClaimed
BY DEF SameRows, NoneClaimed, IsOpen, Types, TypeOK, RowType

\* A worker goes on.
LEMMA GotoFrame ==
    ASSUME Types, NEW w \in Workers, NEW pc \in PcType, workers[w].pc # "idle", Goto(w, pc)
    PROVE  /\ SameClaims /\ workers'[w] = [workers[w] EXCEPT !.pc = pc]
           /\ \A x \in Workers : x # w => workers'[x] = workers[x]
<1>1. workers \in [Workers -> WorkerType] BY DEF Types, TypeOK, WorkerType
<1>2. workers' = [workers EXCEPT ![w] = [workers[w] EXCEPT !.pc = pc]] BY DEF Goto
<1>3. /\ [workers[w] EXCEPT !.pc = pc] \in WorkerType
      /\ [workers[w] EXCEPT !.pc = pc].id = workers[w].id
      /\ [workers[w] EXCEPT !.pc = pc].event = workers[w].event
      /\ [workers[w] EXCEPT !.pc = pc].epoch = workers[w].epoch
    BY <1>1 DEF WorkerType, PcType
<1>4. workers'[w] = [workers[w] EXCEPT !.pc = pc] /\ \A x \in Workers : x # w => workers'[x] = workers[x]
    BY <1>1, <1>2
<1>5. workers' \in [Workers -> WorkerType] BY <1>1, <1>2, <1>3
<1>6. \A x \in Workers : \/ workers'[x].pc = "idle"
          \/ /\ workers[x].pc # "idle" /\ workers'[x].id = workers[x].id
             /\ workers'[x].event = workers[x].event /\ workers'[x].epoch = workers[x].epoch
    BY <1>3, <1>4
<1> QED BY <1>4, <1>5, <1>6 DEF SameClaims

\* A worker's decision is noted.
LEMMA AllowFrame ==
    ASSUME Types, NEW w \in Workers, NEW apply \in BOOLEAN, workers[w].pc # "idle", Allow(w, apply)
    PROVE  /\ SameClaims /\ workers'[w].event = workers[w].event /\ workers'[w].apply = apply
           /\ workers'[w].pc = IF apply /\ EventOf(w).cmd = "subscribe" THEN "allowed" ELSE "processing"
           /\ \A x \in Workers : x # w => workers'[x] = workers[x]
<1> DEFINE pc == IF apply /\ EventOf(w).cmd = "subscribe" THEN "allowed" ELSE "processing"
           new == [workers[w] EXCEPT !.apply = apply, !.pc = pc]
<1>1. workers \in [Workers -> WorkerType] BY DEF Types, TypeOK, WorkerType
<1>2. workers' = [workers EXCEPT ![w] = new] BY <1>1 DEF Allow
<1>3. pc \in {"allowed", "processing"} OBVIOUS
<1> HIDE DEF pc
<1>4. /\ new \in WorkerType /\ new.id = workers[w].id /\ new.event = workers[w].event
      /\ new.epoch = workers[w].epoch /\ new.apply = apply /\ new.pc = pc
    BY <1>1, <1>3 DEF WorkerType
<1> HIDE DEF new
<1>5. workers'[w] = new /\ \A x \in Workers : x # w => workers'[x] = workers[x]
    BY <1>1, <1>2
<1>6. SameClaims BY <1>1, <1>2, <1>4 DEF SameClaims
<1> QED BY <1>4, <1>5, <1>6 DEF pc

\* A worker reads the language of its chat.
LEMMA GetLangFrame ==
    ASSUME IInv, NEW w \in Workers, GetLangWithDB(w)
    PROVE  /\ SameClaims /\ workers'[w].pc = "processing" /\ workers'[w].event = workers[w].event
           /\ workers'[w].apply = workers[w].apply /\ workers'[w].lang = settings[ChatOf(w)]["language"]
           /\ \A x \in Workers : x # w => workers'[x] = workers[x]
<1>1. /\ Types /\ workers \in [Workers -> WorkerType] /\ settings \in [Chats -> SettingsType]
      /\ workers[w].pc = "allowed"
    BY DEF IInv, Types, TypeOK, WorkerType, GetLangWithDB
<1>2. ChatOf(w) \in Chats BY <1>1, WorkerFacts DEF IInv
<1>3. PICK lang \in 0..MaxEvents : lang = settings[ChatOf(w)]["language"]
    BY <1>1, <1>2 DEF SettingsType
<1> DEFINE new == [workers[w] EXCEPT !.pc = "processing", !.lang = lang]
<1>4. workers' = [workers EXCEPT ![w] = new] BY <1>1, <1>3 DEF GetLangWithDB
<1>5. /\ new \in WorkerType /\ new.id = workers[w].id /\ new.event = workers[w].event
      /\ new.epoch = workers[w].epoch /\ new.apply = workers[w].apply
      /\ new.pc = "processing" /\ new.lang = lang
    BY <1>1 DEF WorkerType
<1> HIDE DEF new
<1>6. workers'[w] = new /\ \A x \in Workers : x # w => workers'[x] = workers[x]
    BY <1>1, <1>4
<1>7. SameClaims BY <1>1, <1>4, <1>5 DEF SameClaims
<1> QED BY <1>3, <1>5, <1>6, <1>7

\* A worker ends its job.
LEMMA IdleFrame ==
    ASSUME Types, NEW w \in Workers, workers' = [workers EXCEPT ![w] = IdleWorker]
    PROVE  /\ SameClaims /\ workers'[w].pc = "idle"
           /\ \A x \in Workers : x # w => workers'[x] = workers[x]
<1>1. workers \in [Workers -> WorkerType] BY DEF Types, TypeOK, WorkerType
<1>2. IdleWorker \in WorkerType /\ IdleWorker.pc = "idle"
    BY InboxAssumption DEF IdleWorker, WorkerType
<1> QED BY <1>1, <1>2 DEF SameClaims

\* Locks keep their types.
LEMMA LockTypes ==
    ASSUME Types
    PROVE  /\ chatLock \in [Chats -> Workers \cup {"free"}]
           /\ versionLock \in [Chats -> [Settings -> Workers \cup {"free"}]]
           /\ losses \in Nat
           /\ \A w \in Workers : Unlocked(w) \in [Chats -> [Settings -> Workers \cup {"free"}]]
           /\ \A c \in Chats, x \in Workers \cup {"free"} :
                 [chatLock EXCEPT ![c] = x] \in [Chats -> Workers \cup {"free"}]
BY DEF Types, TypeOK, Unlocked

\* Steps of a worker that leave rows and database alone.
LEMMA WorkerLocal ==
    ASSUME IInv, NEW w \in Workers,
           AcquireTelegramChatLock(w) \/ AcquireTimeout(w) \/ AllowTelegramMutation(w)
               \/ GetLangWithDB(w) \/ ReleaseTelegramChatLock(w) \/ WorkerFault(w)
    PROVE  /\ Local /\ UNCHANGED rows
           /\ chatLock' \in [Chats -> Workers \cup {"free"}]
           /\ versionLock' \in [Chats -> [Settings -> Workers \cup {"free"}]] /\ losses' \in Nat
<1>1. Types BY DEF IInv
<1>2. workers[w].pc # "idle"
    BY DEF AcquireTelegramChatLock, AcquireTimeout, AllowTelegramMutation, GetLangWithDB,
           ReleaseTelegramChatLock, WorkerFault, Crash, LoseLockSession, MarkError
<1>3. ChatOf(w) \in Chats /\ EventOf(w) \in EventType
    BY <1>1, <1>2, WorkerFacts DEF IInv
<1>4. UNCHANGED <<rows, events, live, weekQuiet, weeks, stream, saves, versions, settings, effects, closed>>
    BY DEF AcquireTelegramChatLock, AcquireTimeout, AllowTelegramMutation, GetLangWithDB,
           ReleaseTelegramChatLock, WorkerFault, Crash, LoseLockSession, MarkError, telegram, database
<1>5. SameRows /\ NoneClaimed /\ SameStream
    BY <1>1, <1>4, SameRowsFrame DEF SameStream
<1> SUFFICES /\ SameClaims
             /\ chatLock' \in [Chats -> Workers \cup {"free"}]
             /\ versionLock' \in [Chats -> [Settings -> Workers \cup {"free"}]] /\ losses' \in Nat
    BY <1>4, <1>5 DEF Local
<1>6. CASE AcquireTelegramChatLock(w)
    <2>1. /\ Goto(w, "locked") /\ chatLock' = [chatLock EXCEPT ![ChatOf(w)] = w]
          /\ UNCHANGED <<versionLock, losses>>
        BY <1>6 DEF AcquireTelegramChatLock
    <2> QED BY <1>1, <1>2, <1>3, <2>1, GotoFrame, LockTypes DEF PcType
<1>7. CASE AcquireTimeout(w)
    <2>1. Goto(w, "marking") /\ UNCHANGED <<chatLock, versionLock, losses>>
        BY <1>7 DEF AcquireTimeout
    <2> QED BY <1>1, <1>2, <2>1, GotoFrame, LockTypes DEF PcType
<1>8. CASE AllowTelegramMutation(w)
    <2>1. PICK apply \in BOOLEAN : Allow(w, apply)
        BY <1>8 DEF AllowTelegramMutation, Newer, Before
    <2>2. SameClaims BY <1>1, <1>2, <2>1, AllowFrame
    <2>3. versionLock' \in [Chats -> [Settings -> Workers \cup {"free"}]]
        <3>1. MutationSetting(EventOf(w).cmd) \in Settings \cup {"none"}
            BY DEF MutationSetting, Settings
        <3>2. \/ versionLock' = versionLock
              \/ /\ MutationSetting(EventOf(w).cmd) \in Settings
                 /\ versionLock' = [versionLock EXCEPT ![ChatOf(w)][MutationSetting(EventOf(w).cmd)] = w]
            BY <1>8, <3>1 DEF AllowTelegramMutation
        <3>3. versionLock \in [Chats -> [Settings -> Workers \cup {"free"}]] BY <1>1, LockTypes
        <3>4. \A s \in Settings : [versionLock[ChatOf(w)] EXCEPT ![s] = w] \in [Settings -> Workers \cup {"free"}]
            BY <1>3, <3>3
        <3> QED BY <1>3, <3>2, <3>3, <3>4
    <2> QED BY <1>1, <1>8, <2>2, <2>3, LockTypes DEF AllowTelegramMutation
<1>9. CASE ReleaseTelegramChatLock(w)
    <2>1. /\ workers' = [workers EXCEPT ![w] = IdleWorker]
          /\ chatLock' = chatLock \/ chatLock' = [chatLock EXCEPT ![ChatOf(w)] = "free"]
          /\ UNCHANGED <<versionLock, losses>>
        BY <1>9 DEF ReleaseTelegramChatLock
    <2> QED BY <1>1, <1>3, <2>1, IdleFrame, LockTypes
<1>10. CASE Crash(w)
    <2>1. /\ workers' = [workers EXCEPT ![w] = IdleWorker]
          /\ chatLock' = chatLock \/ chatLock' = [chatLock EXCEPT ![ChatOf(w)] = "free"]
          /\ versionLock' = Unlocked(w) /\ UNCHANGED losses
        BY <1>10 DEF Crash
    <2> QED BY <1>1, <1>3, <2>1, IdleFrame, LockTypes
<1>11. CASE LoseLockSession(w)
    <2>1. /\ chatLock' = [chatLock EXCEPT ![ChatOf(w)] = "free"] /\ losses' = losses + 1
          /\ UNCHANGED <<versionLock, workers>>
        BY <1>11 DEF LoseLockSession
    <2>2. SameClaims BY <1>1, <2>1 DEF SameClaims, Types, TypeOK, WorkerType
    <2> QED BY <1>1, <1>3, <2>1, <2>2, LockTypes
<1>12. CASE MarkError(w)
    <2>1. Goto(w, "releasing") /\ UNCHANGED <<chatLock, versionLock, losses>>
        BY <1>12 DEF MarkError
    <2> QED BY <1>1, <1>2, <2>1, GotoFrame, LockTypes DEF PcType
<1>13. CASE GetLangWithDB(w)
    <2>1. UNCHANGED <<chatLock, versionLock, losses>> BY <1>13 DEF GetLangWithDB
    <2> QED BY <1>1, <1>13, <2>1, GetLangFrame, LockTypes
<1> QED BY <1>6, <1>7, <1>8, <1>9, <1>10, <1>11, <1>12, <1>13 DEF WorkerFault

\* A row is rewritten and keeps its place.
LEMMA RewriteFrame ==
    ASSUME Types, NEW u \in UpdateIds, NEW r \in RowType, rows' = [rows EXCEPT ![u] = r],
           r.event = rows[u].event, r.epoch = rows[u].epoch, r.saved = rows[u].saved,
           rows[u].status # "absent", r.status # "absent",
           r.status \in {"pending", "processing"} => IsOpen(u)
    PROVE  /\ SameRows /\ rows'[u] = r /\ \A v \in UpdateIds : v # u => rows'[v] = rows[v]
           /\ (r.status = "processing" => rows[u].status = "processing") => NoneClaimed
<1>1. rows \in [UpdateIds -> RowType] BY DEF Types, TypeOK, RowType
<1>2. rows' \in [UpdateIds -> RowType] /\ rows'[u] = r /\ \A v \in UpdateIds : v # u => rows'[v] = rows[v]
    BY <1>1
<1> QED BY <1>2 DEF SameRows, NoneClaimed, IsOpen

\* Time passes for a row.
LEMMA TimeLocal ==
    ASSUME IInv, NEW u \in UpdateIds, LeaseExpires(u) \/ BackoffEnds(u)
    PROVE  Local /\ UNCHANGED <<workers, chatLock, versionLock, losses>>
<1>1. Types BY DEF IInv
<1>2. /\ UNCHANGED <<events, live, weekQuiet, weeks, stream, saves, versions, settings, effects, closed>>
      /\ UNCHANGED <<workers, chatLock, versionLock, losses>>
    BY DEF LeaseExpires, BackoffEnds, telegram, database
<1>3. SameClaims /\ SameStream
    BY <1>1, <1>2 DEF SameClaims, SameStream, Types, TypeOK, WorkerType
<1>4. rows[u] \in RowType BY <1>1 DEF Types, TypeOK, RowType
<1>5. IsOpen(u) BY DEF LeaseExpires, BackoffEnds, IsOpen
<1>6. PICK r \in RowType : /\ rows' = [rows EXCEPT ![u] = r] /\ r.event = rows[u].event
                           /\ r.epoch = rows[u].epoch /\ r.saved = rows[u].saved
                           /\ r.status = rows[u].status
    <2>1. CASE LeaseExpires(u)
        <3> DEFINE r == [rows[u] EXCEPT !.expired = TRUE]
        <3>1. /\ r \in RowType /\ r.event = rows[u].event /\ r.epoch = rows[u].epoch
              /\ r.saved = rows[u].saved /\ r.status = rows[u].status
            BY <1>4 DEF RowType
        <3>2. rows' = [rows EXCEPT ![u] = r] BY <2>1 DEF LeaseExpires
        <3> QED BY <3>1, <3>2
    <2>2. CASE BackoffEnds(u)
        <3> DEFINE r == [rows[u] EXCEPT !.due = TRUE]
        <3>1. /\ r \in RowType /\ r.event = rows[u].event /\ r.epoch = rows[u].epoch
              /\ r.saved = rows[u].saved /\ r.status = rows[u].status
            BY <1>4 DEF RowType
        <3>2. rows' = [rows EXCEPT ![u] = r] BY <2>2 DEF BackoffEnds
        <3> QED BY <3>1, <3>2
    <2> QED BY <2>1, <2>2
<1>7. SameRows /\ NoneClaimed
    <2>1. rows[u].status # "absent" /\ r.status # "absent" BY <1>5, <1>6 DEF IsOpen
    <2> QED BY <1>1, <1>5, <1>6, <2>1, RewriteFrame
<1> QED BY <1>2, <1>3, <1>7 DEF Local

\* A failed update is marked.
LEMMA MarkLocal ==
    ASSUME IInv, NEW w \in Workers, MarkTelegramUpdate(w)
    PROVE  /\ Local /\ UNCHANGED <<chatLock, versionLock, losses>> /\ Goto(w, "releasing")
           /\ \A u \in UpdateIds : rows'[u] # rows[u] => rows[u].status = "processing"
<1>1. Types BY DEF IInv
<1>2. /\ UNCHANGED <<events, live, weekQuiet, weeks, stream, saves, versions, settings, effects, closed>>
      /\ UNCHANGED <<chatLock, versionLock, losses>> /\ workers[w].pc = "marking" /\ Goto(w, "releasing")
    BY DEF MarkTelegramUpdate, telegram, database
<1>3. SameClaims /\ SameStream
    BY <1>1, <1>2, GotoFrame DEF SameStream, PcType
<1> DEFINE u == workers[w].id
<1>4. u \in UpdateIds /\ rows[u] \in RowType
    BY <1>1, <1>2, WorkerFacts DEF IInv
<1>5. CASE ~Owns(w)
    <2>1. UNCHANGED rows BY <1>5 DEF MarkTelegramUpdate
    <2>2. SameRows /\ NoneClaimed BY <1>1, <2>1, SameRowsFrame
    <2> QED BY <1>2, <1>3, <2>1, <2>2 DEF Local
<1>6. CASE Owns(w)
    <2> DEFINE r == [rows[u] EXCEPT !.status = StatusAfterError(w), !.due = (StatusAfterError(w) = "failed")]
    <2>1. StatusAfterError(w) \in {"failed", "pending"} BY DEF StatusAfterError
    <2>2. /\ r \in RowType /\ r.event = rows[u].event /\ r.epoch = rows[u].epoch
          /\ r.saved = rows[u].saved /\ r.status = StatusAfterError(w)
        BY <1>4, <2>1 DEF RowType
    <2>3. rows' = [rows EXCEPT ![u] = r] BY <1>1, <1>4, <1>6 DEF MarkTelegramUpdate, Types, TypeOK
    <2>4. rows[u].status = "processing" /\ IsOpen(u) BY <1>6 DEF Owns, IsOpen
    <2> HIDE DEF r
    <2>5. SameRows /\ NoneClaimed /\ \A v \in UpdateIds : v # u => rows'[v] = rows[v]
        <3>1. rows[u].status # "absent" /\ r.status # "absent" BY <2>1, <2>2, <2>4
        <3> HIDE DEF u
        <3> QED BY <1>1, <1>4, <2>2, <2>3, <2>4, <3>1, RewriteFrame
    <2> QED BY <1>2, <1>3, <2>4, <2>5 DEF Local
<1> QED BY <1>5, <1>6

\* How a transaction ends.
LEMMA ProcessFacts ==
    ASSUME NEW w \in Workers, NEW answer \in {"ok", "error", "lost"}, ProcessTelegramUpdate(w, answer)
    PROVE  /\ workers[w].pc = "processing" /\ versionLock' = Unlocked(w)
           /\ Goto(w, "releasing") \/ Goto(w, "marking")
           /\ SameStream /\ UNCHANGED <<chatLock, losses>>
           /\ \/ UNCHANGED <<rows, versions, settings, effects, closed>>
              \/ Owns(w) /\ CommitUpdate(w)
<1>1. CASE answer = "ok"
    BY <1>1 DEF ProcessTelegramUpdate, SameStream, telegram, database
<1>2. CASE answer = "error"
    BY <1>2 DEF ProcessTelegramUpdate, SameStream, telegram, database
<1>3. CASE answer = "lost"
    BY <1>3 DEF ProcessTelegramUpdate, SameStream, telegram, database
<1> QED BY <1>1, <1>2, <1>3

\* What a commit writes.
LEMMA CommitFacts ==
    ASSUME IInv, NEW w \in Workers, workers[w].pc = "processing", Owns(w), CommitUpdate(w)
    PROVE  LET n == workers[w].event
               c == ChatOf(w)
               s == MutationSetting(EventOf(w).cmd)
           IN /\ SameRows /\ NoneClaimed /\ rows[workers[w].id].status = "processing"
              /\ rows'[workers[w].id].status = "processed"
              /\ \A v \in UpdateIds : v # workers[w].id => rows'[v] = rows[v]
              /\ closed' = closed \cup {n}
              /\ ~workers[w].apply => UNCHANGED <<versions, settings, effects>>
              /\ workers[w].apply =>
                    /\ effects' = [effects EXCEPT ![n] = effects[n] + 1]
                    /\ settings' = [settings EXCEPT ![c] = SettingsAfter(w)]
                    /\ s = "none" => versions' = versions
                    /\ s # "none" => versions' = [versions EXCEPT ![c] = [versions[c] EXCEPT
                            ![s] = [epoch |-> workers[w].epoch, id |-> workers[w].id, event |-> n]]]
<1>1. Types BY DEF IInv
<1> DEFINE u == workers[w].id
<1>2. u \in UpdateIds /\ rows[u] \in RowType BY <1>1, WorkerFacts DEF IInv
<1> DEFINE r == [rows[u] EXCEPT !.status = "processed"]
<1>3. /\ r \in RowType /\ r.event = rows[u].event /\ r.epoch = rows[u].epoch
      /\ r.saved = rows[u].saved /\ r.status = "processed"
    BY <1>2 DEF RowType
<1>4. rows' = [rows EXCEPT ![u] = r] BY DEF CommitUpdate
<1>5. rows[u].status = "processing" /\ IsOpen(u) BY DEF Owns, IsOpen
<1>6. /\ SameRows /\ NoneClaimed /\ rows'[u].status = "processed"
      /\ \A v \in UpdateIds : v # u => rows'[v] = rows[v]
    <2> HIDE DEF u, r
    <2> QED BY <1>1, <1>2, <1>3, <1>4, <1>5, RewriteFrame
<1> QED BY <1>5, <1>6 DEF CommitUpdate

\* Values that a commit writes have their types.
LEMMA CommitTypes ==
    ASSUME IInv, NEW w \in Workers, workers[w].pc = "processing", Owns(w), CommitUpdate(w)
    PROVE  /\ versions' \in [Chats -> [Settings -> VersionType]] /\ effects' \in [1..MaxEvents -> Nat]
           /\ closed' \subseteq 1..MaxEvents /\ settings' \in [Chats -> SettingsType]
<1>1. Types BY DEF IInv
<1>2. /\ versions \in [Chats -> [Settings -> VersionType]] /\ effects \in [1..MaxEvents -> Nat]
      /\ closed \subseteq 1..MaxEvents /\ settings \in [Chats -> SettingsType]
    BY <1>1 DEF Types, TypeOK, VersionType
<1> DEFINE n == workers[w].event
           c == ChatOf(w)
           s == MutationSetting(EventOf(w).cmd)
           stamp == [epoch |-> workers[w].epoch, id |-> workers[w].id, event |-> n]
<1>3. n \in 1..MaxEvents /\ c \in Chats /\ workers[w] \in WorkerType /\ workers[w].id \in UpdateIds
    BY <1>1, WorkerFacts DEF IInv
<1>4. s \in Settings \cup {"none"} BY DEF MutationSetting, Settings
<1>5. stamp \in VersionType
    <2>1. /\ workers[w].epoch \in 0..MaxWeeks /\ MaxWeeks \in Nat /\ workers[w].id \in Nat
          /\ n \in 0..MaxEvents
        BY <1>3, InboxAssumption DEF WorkerType
    <2>2. workers[w].epoch \in Int BY <2>1
    <2> HIDE DEF n
    <2> QED BY <2>1, <2>2 DEF VersionType
<1>6. SettingsAfter(w) \in SettingsType
    <2>1. /\ settings[c] \in SettingsType /\ n \in 0..MaxEvents
          /\ workers[w].lang \in 0..MaxEvents
        BY <1>2, <1>3, InboxAssumption DEF WorkerType
    <2>2. /\ [settings[c] EXCEPT !.subscription = n, !.subscribed = TRUE,
                                 !.language = workers[w].lang] \in SettingsType
          /\ [settings[c] EXCEPT !.subscription = n, !.subscribed = FALSE] \in SettingsType
          /\ [settings[c] EXCEPT !.language = n] \in SettingsType
          /\ [settings[c] EXCEPT !.interval = n] \in SettingsType
        BY <2>1 DEF SettingsType
    <2>3. \/ SettingsAfter(w) = [settings[c] EXCEPT !.subscription = n, !.subscribed = TRUE,
                                                   !.language = workers[w].lang]
          \/ SettingsAfter(w) = [settings[c] EXCEPT !.subscription = n, !.subscribed = FALSE]
          \/ SettingsAfter(w) = [settings[c] EXCEPT !.language = n]
          \/ SettingsAfter(w) = [settings[c] EXCEPT !.interval = n]
          \/ SettingsAfter(w) = settings[c]
        BY DEF SettingsAfter
    <2> QED BY <2>1, <2>2, <2>3
<1>7. /\ closed' = closed \cup {n}
      /\ ~workers[w].apply => UNCHANGED <<versions, settings, effects>>
      /\ workers[w].apply =>
            /\ effects' = [effects EXCEPT ![n] = effects[n] + 1]
            /\ settings' = [settings EXCEPT ![c] = SettingsAfter(w)]
            /\ s = "none" => versions' = versions
            /\ s # "none" => versions' = [versions EXCEPT ![c] = [versions[c] EXCEPT ![s] = stamp]]
    BY CommitFacts
<1> HIDE DEF n, c, s, stamp
<1>8. closed' \subseteq 1..MaxEvents BY <1>2, <1>3, <1>7
<1>9. effects' \in [1..MaxEvents -> Nat] BY <1>2, <1>3, <1>7
<1>10. settings' \in [Chats -> SettingsType] BY <1>2, <1>3, <1>6, <1>7
<1>11. versions' \in [Chats -> [Settings -> VersionType]]
    <2>1. s # "none" => [versions[c] EXCEPT ![s] = stamp] \in [Settings -> VersionType]
        BY <1>2, <1>3, <1>4, <1>5
    <2> QED BY <1>2, <1>3, <1>7, <2>1
<1> QED BY <1>8, <1>9, <1>10, <1>11

\* A mutation is committed by the row that is still open, the only one of its event.
LEMMA CommitOnce ==
    ASSUME IInv, NEW w \in Workers, workers[w].pc = "processing", Owns(w), CommitUpdate(w), SameStream
    PROVE  Once'
<1>1. Types /\ RowsMatch /\ Claims /\ Once BY DEF IInv
<1> DEFINE n == workers[w].event
           u == workers[w].id
<1>2. /\ n \in 1..MaxEvents /\ n \in 1..Len(events) /\ events[n].id = u /\ u \in UpdateIds
      /\ rows[u].event = n
    BY <1>1, WorkerFacts
<1>3. /\ SameRows /\ rows[u].status = "processing" /\ rows'[u].status = "processed"
      /\ effects' = effects \/ effects' = [effects EXCEPT ![n] = effects[n] + 1]
    BY CommitFacts
<1>4. CASE effects' = effects
    BY <1>1, <1>3, <1>4, OnceFrame
<1>5. CASE effects' = [effects EXCEPT ![n] = effects[n] + 1]
    <2> SUFFICES ASSUME NEW m \in 1..MaxEvents PROVE Once!(m)'
        BY DEF Once
    <2>1. effects \in [1..MaxEvents -> Nat] BY <1>1 DEF Types, TypeOK
    <2>2. IsOpen(u) BY <1>3 DEF IsOpen
    <2>3. effects[n] = 0 BY <1>1, <1>2, <2>1, <2>2 DEF Once
    <2>4. CASE m = n
        <3>1. effects'[m] = 1 BY <1>2, <1>5, <2>1, <2>3, <2>4
        <3>2. \A v \in UpdateIds : rows'[v].status \in {"pending", "processing"} => rows'[v].event # n
            <4> SUFFICES ASSUME NEW v \in UpdateIds, rows'[v].status \in {"pending", "processing"},
                                rows'[v].event = n
                         PROVE  FALSE
                OBVIOUS
            <4>1. IsOpen(v) /\ rows[v].event = n BY <1>3 DEF SameRows
            <4>2. events[n].id = v BY <1>1, <4>1 DEF RowsMatch, IsOpen
            <4> QED BY <1>2, <1>3, <4>2
        <3>3. rows'[events[n].id].status # "absent" /\ rows'[events[n].id].event = n
            BY <1>2, <1>3 DEF SameRows
        <3> QED BY <1>2, <2>4, <3>1, <3>2, <3>3 DEF SameStream, IsOpen
    <2>5. CASE m # n
        <3>1. effects'[m] = effects[m] BY <1>5, <2>1, <2>5
        <3>2. CASE effects[m] = 0 BY <3>1, <3>2
        <3>3. CASE effects[m] > 0
            <4>1. /\ m <= Len(events) /\ effects[m] <= 1
                  /\ \A v \in UpdateIds : IsOpen(v) => rows[v].event # m
                  /\ m \in live => rows[events[m].id].status # "absent" /\ rows[events[m].id].event = m
                BY <1>1, <3>3 DEF Once
            <4>2. events[m].id \in UpdateIds
                <5>1. m \in 1..Len(events) BY <4>1
                <5> QED BY <1>1, <5>1, EventFacts DEF EventType
            <4> QED BY <1>3, <3>1, <4>1, <4>2 DEF SameRows, SameStream, IsOpen
        <3> QED BY <2>1, <3>2, <3>3
    <2> QED BY <2>4, <2>5
<1> QED BY <1>3, <1>4, <1>5

\* The end of a transaction.
LEMMA ProcessKeeps ==
    ASSUME IInv, NEW w \in Workers, NEW answer \in {"ok", "error", "lost"}, ProcessTelegramUpdate(w, answer)
    PROVE  IInv'
<1>1. Types /\ RowsMatch /\ Claims /\ Once /\ ClaimedInOrder BY DEF IInv
<1>2. /\ workers[w].pc = "processing" /\ versionLock' = Unlocked(w)
      /\ Goto(w, "releasing") \/ Goto(w, "marking")
      /\ SameStream /\ UNCHANGED <<chatLock, losses>>
    BY ProcessFacts
<1>3. SameClaims BY <1>1, <1>2, GotoFrame DEF PcType
<1>4. /\ chatLock' \in [Chats -> Workers \cup {"free"}] /\ losses' \in Nat
      /\ versionLock' \in [Chats -> [Settings -> Workers \cup {"free"}]]
    BY <1>1, <1>2, LockTypes
<1>5. CASE UNCHANGED <<rows, versions, settings, effects, closed>>
    <2>1. SameRows /\ NoneClaimed BY <1>1, <1>5, SameRowsFrame
    <2> QED BY <1>2, <1>3, <1>4, <1>5, <2>1, LocalKeeps DEF Local
<1>6. CASE Owns(w) /\ CommitUpdate(w)
    <2>1. SameRows /\ NoneClaimed BY <1>2, <1>6, CommitFacts
    <2>2. Types'
        <3>1. rows' \in [UpdateIds -> RowType] /\ workers' \in [Workers -> WorkerType]
            BY <1>3, <2>1 DEF SameRows, SameClaims
        <3>2. /\ versions' \in [Chats -> [Settings -> VersionType]] /\ effects' \in [1..MaxEvents -> Nat]
              /\ closed' \subseteq 1..MaxEvents /\ settings' \in [Chats -> SettingsType]
            BY <1>2, <1>6, CommitTypes
        <3> QED BY <1>1, <1>2, <1>4, <3>1, <3>2, TypesFrame
    <2>3. UNCHANGED <<events, saves>> BY <1>2 DEF SameStream
    <2>4. RowsMatch' BY <1>1, <2>1, <2>3, RowsMatchFrame
    <2>5. Claims' BY <1>1, <1>3, <2>1, ClaimsFrame
    <2>6. Once' BY <1>2, <1>6, CommitOnce
    <2>7. ClaimedInOrder' BY <1>1, <2>1, <2>3, InOrderFrame
    <2> QED BY <2>2, <2>4, <2>5, <2>6, <2>7 DEF IInv
<1> QED BY <1>5, <1>6, ProcessFacts

\* A claim.
LEMMA ClaimFacts ==
    ASSUME IInv, NEW w \in Workers, NEW u \in UpdateIds, ClaimPendingTelegramUpdate(w, u)
    PROVE  /\ SameRows /\ SameStream /\ IsOpen(u) /\ rows'[u].status = "processing"
           /\ \A v \in UpdateIds : v # u => rows'[v] = rows[v]
           /\ workers' \in [Workers -> WorkerType]
           /\ workers'[w].pc = "claimed" /\ workers'[w].id = u /\ workers'[w].event = rows[u].event
           /\ workers'[w].epoch = rows[u].epoch /\ workers[w].pc = "idle"
           /\ \A x \in Workers : x # w => workers'[x] = workers[x]
           /\ UNCHANGED <<versions, settings, effects, closed, chatLock, versionLock, losses>>
<1>1. Types BY DEF IInv
<1>2. /\ SameStream /\ UNCHANGED <<versions, settings, effects, closed, chatLock, versionLock, losses>>
      /\ IsOpen(u) /\ workers[w].pc = "idle"
    BY DEF ClaimPendingTelegramUpdate, SameStream, telegram, database, Claimable
<1>3. rows \in [UpdateIds -> RowType] /\ workers \in [Workers -> WorkerType]
    BY <1>1 DEF Types, TypeOK, RowType, WorkerType
<1> DEFINE r == [rows[u] EXCEPT !.status = "processing", !.attempts = rows[u].attempts + 1, !.expired = FALSE]
           new == [pc |-> "claimed", id |-> u, event |-> rows[u].event,
                   epoch |-> rows[u].epoch, attempts |-> rows[u].attempts + 1, apply |-> FALSE,
                   lang |-> 0]
<1>4. rows' = [rows EXCEPT ![u] = r] /\ workers' = [workers EXCEPT ![w] = new]
    BY <1>3 DEF ClaimPendingTelegramUpdate
<1>5. /\ r \in RowType /\ r.event = rows[u].event /\ r.epoch = rows[u].epoch
      /\ r.saved = rows[u].saved /\ r.status = "processing"
    <2>1. rows[u] \in RowType BY <1>3
    <2>2. rows[u].attempts + 1 \in Nat BY <2>1 DEF RowType
    <2> QED BY <2>1, <2>2 DEF RowType
<1>6. /\ new \in WorkerType /\ new.pc = "claimed" /\ new.id = u /\ new.event = rows[u].event
      /\ new.epoch = rows[u].epoch
    BY <1>3, InboxAssumption DEF RowType, WorkerType
<1> HIDE DEF r, new
<1>7. rows[u].status # "absent" BY <1>2 DEF IsOpen
<1>8. SameRows /\ rows'[u] = r /\ \A v \in UpdateIds : v # u => rows'[v] = rows[v]
    BY <1>1, <1>2, <1>4, <1>5, <1>7, RewriteFrame
<1> QED BY <1>2, <1>3, <1>4, <1>5, <1>6, <1>8

\* A claim is only made when nothing of the chat that precedes it is open.
LEMMA ClaimKeeps ==
    ASSUME IInv, NEW w \in Workers, NEW u \in UpdateIds, ClaimPendingTelegramUpdate(w, u)
    PROVE  IInv'
<1>1. Types /\ RowsMatch /\ Claims /\ Once /\ ClaimedInOrder BY DEF IInv
<1>2. /\ SameRows /\ SameStream /\ IsOpen(u) /\ rows'[u].status = "processing"
      /\ \A v \in UpdateIds : v # u => rows'[v] = rows[v]
      /\ workers' \in [Workers -> WorkerType]
      /\ workers'[w].pc = "claimed" /\ workers'[w].id = u /\ workers'[w].event = rows[u].event
      /\ workers'[w].epoch = rows[u].epoch
      /\ \A x \in Workers : x # w => workers'[x] = workers[x]
      /\ UNCHANGED <<versions, settings, effects, closed, chatLock, versionLock, losses>>
    BY ClaimFacts
<1>3. Types'
    <2>1. rows' \in [UpdateIds -> RowType] BY <1>2 DEF SameRows
    <2>2. /\ versions' \in [Chats -> [Settings -> VersionType]] /\ effects' \in [1..MaxEvents -> Nat]
          /\ closed' \subseteq 1..MaxEvents /\ settings' \in [Chats -> SettingsType]
        BY <1>1, <1>2 DEF Types, TypeOK, VersionType
    <2>3. /\ chatLock' \in [Chats -> Workers \cup {"free"}] /\ losses' \in Nat
          /\ versionLock' \in [Chats -> [Settings -> Workers \cup {"free"}]]
        BY <1>1, <1>2, LockTypes
    <2> QED BY <1>1, <1>2, <2>1, <2>2, <2>3, TypesFrame
<1>4. UNCHANGED <<events, saves>> BY <1>2 DEF SameStream
<1>5. RowsMatch' BY <1>1, <1>2, <1>4, RowsMatchFrame
<1>6. Claims'
    <2> SUFFICES ASSUME NEW x \in Workers, workers'[x].pc # "idle" PROVE Claims!(x)'
        BY DEF Claims
    <2>1. CASE x = w BY <1>2, <2>1 DEF SameRows
    <2>2. CASE x # w
        <3>1. /\ workers[x].id \in UpdateIds /\ rows[workers[x].id].status # "absent"
              /\ rows[workers[x].id].event = workers[x].event
              /\ rows[workers[x].id].epoch = workers[x].epoch
            BY <1>1, <1>2, <2>2 DEF Claims
        <3> QED BY <1>2, <2>2, <3>1 DEF SameRows
    <2> QED BY <2>1, <2>2
<1>7. Once' BY <1>1, <1>2, OnceFrame
<1>8. ClaimedInOrder'
    <2> SUFFICES ASSUME NEW t \in UpdateIds, NEW v \in UpdateIds,
                        rows'[t].status = "processing", rows'[v].status \in {"pending", "processing"},
                        ChatAt(v)' = ChatAt(t)',
                        Before(rows'[v].epoch, v, rows'[t].epoch, t)
                 PROVE  rows'[v].saved > rows'[t].saved
        BY DEF ClaimedInOrder, IsOpen, Before
    <2>1. /\ IsOpen(v) /\ ChatAt(v) = ChatAt(t) /\ Before(rows[v].epoch, v, rows[t].epoch, t)
          /\ rows'[v].saved = rows[v].saved /\ rows'[t].saved = rows[t].saved
        BY <1>2, <1>4 DEF SameRows, ChatAt, Before
    <2>2. CASE t = u
        BY <2>1, <2>2 DEF ClaimPendingTelegramUpdate, Claimable
    <2>3. CASE t # u
        BY <1>1, <1>2, <2>1, <2>3 DEF ClaimedInOrder
    <2> QED BY <2>2, <2>3
<1> QED BY <1>3, <1>5, <1>6, <1>7, <1>8 DEF IInv

-----------------------------------------------------------------------------
(* The steps of Telegram, of the webhook and of the retention *)

\* An update is saved.
LEMMA SaveFacts ==
    ASSUME IInv, NEW n \in 1..Len(events), SaveTelegramUpdate(n)
    PROVE  /\ n \in live /\ events[n].id \in UpdateIds /\ rows[events[n].id].status = "absent"
           /\ rows' \in [UpdateIds -> RowType]
           /\ rows'[events[n].id].status = "pending" /\ rows'[events[n].id].event = n
           /\ rows'[events[n].id].epoch = NextEpoch /\ rows'[events[n].id].saved = saves + 1
           /\ \A v \in UpdateIds : v # events[n].id => rows'[v] = rows[v]
           /\ stream' = [epoch |-> NextEpoch, old |-> FALSE] /\ NextEpoch' = NextEpoch
           /\ NextEpoch \in 0..MaxWeeks /\ stream.epoch \in 0..MaxWeeks /\ stream.old \in BOOLEAN
           /\ saves' = saves + 1
           /\ UNCHANGED <<events, live, weekQuiet, weeks, versions, settings, effects, closed>>
           /\ UNCHANGED <<chatLock, versionLock, workers, losses>>
<1>1. Types BY DEF IInv
<1> DEFINE u == events[n].id
<1>2. u \in UpdateIds /\ n \in 1..MaxEvents BY <1>1, EventFacts DEF EventType
<1>3. /\ n \in live /\ u \notin Retained /\ stream' = [epoch |-> NextEpoch, old |-> FALSE]
      /\ saves' = saves + 1
      /\ UNCHANGED <<events, live, weekQuiet, weeks, versions, settings, effects, closed>>
      /\ UNCHANGED <<chatLock, versionLock, workers, losses>>
    BY DEF SaveTelegramUpdate, NextEpoch, telegram, database
<1>4. stream \in [epoch : 0..MaxWeeks, old : BOOLEAN] /\ weeks \in 0..MaxWeeks /\ NextEpoch <= weeks
    BY <1>1 DEF Types, TypeOK
<1>5. NextEpoch \in 0..MaxWeeks
    BY <1>4, InboxAssumption DEF NextEpoch
<1>6. NextEpoch' = NextEpoch
    BY <1>3, <1>4 DEF NextEpoch
<1> DEFINE r == [AbsentRow EXCEPT !.status = "pending", !.event = n, !.epoch = NextEpoch, !.saved = saves + 1]
<1>7. rows' = [rows EXCEPT ![u] = r] BY DEF SaveTelegramUpdate, NextEpoch
<1>8. r \in RowType /\ r.status = "pending" /\ r.event = n /\ r.epoch = NextEpoch /\ r.saved = saves + 1
    <2>1. saves + 1 \in Nat /\ n \in 0..MaxEvents /\ 0 \in 0..MaxEvents
        BY <1>1, <1>2, InboxAssumption DEF Types
    <2> QED BY <1>5, <2>1 DEF AbsentRow, RowType
<1> HIDE DEF r
<1>9. rows \in [UpdateIds -> RowType] BY <1>1 DEF Types, TypeOK, RowType
<1>10. rows[u].status = "absent" BY <1>2, <1>3 DEF Retained
<1> HIDE DEF u
<1>11. rows' \in [UpdateIds -> RowType] /\ rows'[u] = r /\ \A v \in UpdateIds : v # u => rows'[v] = rows[v]
    BY <1>2, <1>7, <1>8, <1>9
<1> QED BY <1>2, <1>3, <1>4, <1>5, <1>6, <1>8, <1>10, <1>11 DEF u

\* A saved update has no effects yet, and is the last of its chat to be saved.
LEMMA SaveKeeps ==
    ASSUME IInv, NEW n \in 1..Len(events), SaveTelegramUpdate(n)
    PROVE  IInv'
<1>1. Types /\ RowsMatch /\ Claims /\ Once /\ ClaimedInOrder BY DEF IInv
<1> DEFINE u == events[n].id
<1>2. /\ n \in live /\ u \in UpdateIds /\ rows[u].status = "absent" /\ rows' \in [UpdateIds -> RowType]
      /\ rows'[u].status = "pending" /\ rows'[u].event = n /\ rows'[u].saved = saves + 1
      /\ \A v \in UpdateIds : v # u => rows'[v] = rows[v]
    BY SaveFacts
<1>3. /\ stream' = [epoch |-> NextEpoch, old |-> FALSE] /\ NextEpoch' = NextEpoch
      /\ NextEpoch \in 0..MaxWeeks /\ saves' = saves + 1
      /\ UNCHANGED <<events, live, weekQuiet, weeks, versions, settings, effects, closed>>
      /\ UNCHANGED <<chatLock, versionLock, workers, losses>>
    BY SaveFacts
<1>4. events[n].id = u OBVIOUS
<1>5. saves \in Nat /\ rows \in [UpdateIds -> RowType] BY <1>1 DEF Types, TypeOK, RowType
<1> HIDE DEF u
<1>6. Types'
    <2>1. stream' \in [epoch : 0..MaxWeeks, old : BOOLEAN] BY <1>3
    <2>2. TypeOK' BY <1>1, <1>2, <1>3, <2>1 DEF Types, TypeOK, RowType, WorkerType
    <2> QED BY <1>1, <1>3, <1>5, <2>2 DEF Types
<1>7. RowsMatch'
    <2> SUFFICES ASSUME NEW v \in UpdateIds, rows'[v].status # "absent" PROVE RowsMatch!(v)'
        BY DEF RowsMatch
    <2>1. CASE v = u BY <1>2, <1>3, <1>4, <1>5, <2>1
    <2>2. CASE v # u
        <3>1. /\ rows[v].event \in 1..Len(events) /\ events[rows[v].event].id = v
              /\ rows[v].saved <= saves /\ rows[v].saved \in Nat
            BY <1>1, <1>2, <1>5, <2>2 DEF RowsMatch, RowType
        <3> QED BY <1>2, <1>3, <1>5, <2>2, <3>1
    <2> QED BY <2>1, <2>2
<1>8. Claims'
    <2> SUFFICES ASSUME NEW w \in Workers, workers'[w].pc # "idle" PROVE Claims!(w)'
        BY DEF Claims
    <2>1. /\ workers[w].id \in UpdateIds /\ rows[workers[w].id].status # "absent"
          /\ rows[workers[w].id].event = workers[w].event
          /\ rows[workers[w].id].epoch = workers[w].epoch
        BY <1>1, <1>3 DEF Claims
    <2> QED BY <1>2, <1>3, <2>1
<1>9. Once'
    <2> SUFFICES ASSUME NEW m \in 1..MaxEvents PROVE Once!(m)'
        BY DEF Once
    <2>1. effects[m] \in Nat /\ effects[m] <= 1 BY <1>1 DEF Types, TypeOK, Once
    <2>2. CASE effects[m] = 0 BY <1>3, <2>1, <2>2
    <2>3. CASE effects[m] > 0
        <3>1. /\ m <= Len(events) /\ \A v \in UpdateIds : IsOpen(v) => rows[v].event # m
              /\ m \in live => rows[events[m].id].status # "absent" /\ rows[events[m].id].event = m
            BY <1>1, <2>3 DEF Once
        <3>2. events[m].id \in UpdateIds
            <4>1. m \in 1..Len(events) BY <3>1
            <4> QED BY <1>1, <4>1, EventFacts DEF EventType
        <3>3. m # n BY <1>2, <1>4, <3>1
        <3>4. \A v \in UpdateIds : rows'[v].status \in {"pending", "processing"} => rows'[v].event # m
            BY <1>2, <3>1, <3>3 DEF IsOpen
        <3>5. m \in live => rows'[events[m].id].status # "absent" /\ rows'[events[m].id].event = m
            BY <1>2, <3>1, <3>2
        <3> QED BY <1>3, <2>1, <3>1, <3>4, <3>5 DEF IsOpen
    <2> QED BY <2>1, <2>2, <2>3
<1>10. ClaimedInOrder'
    <2> SUFFICES ASSUME NEW t \in UpdateIds, NEW v \in UpdateIds,
                        rows'[t].status = "processing", rows'[v].status \in {"pending", "processing"},
                        ChatAt(v)' = ChatAt(t)',
                        Before(rows'[v].epoch, v, rows'[t].epoch, t)
                 PROVE  rows'[v].saved > rows'[t].saved
        BY DEF ClaimedInOrder, IsOpen, Before
    <2>1. t # u /\ rows'[t] = rows[t] BY <1>2
    <2>2. rows[t].saved <= saves /\ rows[t].saved \in Nat
        BY <1>1, <1>5, <2>1 DEF RowsMatch, RowType
    <2>3. CASE v = u BY <1>2, <1>5, <2>1, <2>2, <2>3
    <2>4. CASE v # u
        BY <1>1, <1>2, <1>3, <2>1, <2>4 DEF ClaimedInOrder, ChatAt, IsOpen
    <2> QED BY <2>3, <2>4
<1> QED BY <1>6, <1>7, <1>8, <1>9, <1>10 DEF IInv

\* A closed row that Telegram no longer redelivers goes.
LEMMA CleanupFacts ==
    ASSUME IInv, NEW u \in UpdateIds, CleanupTelegramUpdateHistory(u)
    PROVE  /\ SameStream /\ UNCHANGED <<versions, settings, effects, closed>>
           /\ UNCHANGED <<workers, chatLock, versionLock, losses>>
           /\ rows' \in [UpdateIds -> RowType] /\ rows'[u].status = "absent"
           /\ \A v \in UpdateIds : v # u => rows'[v] = rows[v]
           /\ \A n \in live : rows[u].event < n
           /\ \A w \in Workers : workers[w].id # u
<1>1. rows \in [UpdateIds -> RowType] BY DEF IInv, Types, TypeOK, RowType
<1>2. AbsentRow \in RowType /\ AbsentRow.status = "absent"
    BY InboxAssumption DEF AbsentRow, RowType
<1>3. rows' = [rows EXCEPT ![u] = AbsentRow] BY DEF CleanupTelegramUpdateHistory
<1>4. /\ SameStream /\ UNCHANGED <<versions, settings, effects, closed>>
      /\ UNCHANGED <<workers, chatLock, versionLock, losses>>
      /\ \A n \in live : rows[u].event < n
      /\ \A w \in Workers : workers[w].id # u
    BY DEF CleanupTelegramUpdateHistory, SameStream, telegram, database
<1>5. rows' \in [UpdateIds -> RowType] /\ rows'[u] = AbsentRow /\ \A v \in UpdateIds : v # u => rows'[v] = rows[v]
    BY <1>1, <1>2, <1>3
<1> QED BY <1>2, <1>4, <1>5

\* A row is deleted only when Telegram no longer redelivers its update and nobody works on it.
LEMMA CleanupKeeps ==
    ASSUME IInv, NEW u \in UpdateIds, CleanupTelegramUpdateHistory(u)
    PROVE  IInv'
<1>1. Types /\ RowsMatch /\ Claims /\ Once /\ ClaimedInOrder BY DEF IInv
<1>2. /\ SameStream /\ UNCHANGED <<versions, settings, effects, closed>>
      /\ UNCHANGED <<workers, chatLock, versionLock, losses>>
      /\ rows' \in [UpdateIds -> RowType] /\ rows'[u].status = "absent"
      /\ \A v \in UpdateIds : v # u => rows'[v] = rows[v]
      /\ \A n \in live : rows[u].event < n
      /\ \A w \in Workers : workers[w].id # u
    BY CleanupFacts
<1>3. UNCHANGED <<events, live, saves>> BY <1>2 DEF SameStream
<1>4. Types'
    <2>1. /\ versions' \in [Chats -> [Settings -> VersionType]] /\ effects' \in [1..MaxEvents -> Nat]
          /\ closed' \subseteq 1..MaxEvents /\ settings' \in [Chats -> SettingsType]
          /\ workers' \in [Workers -> WorkerType]
        BY <1>1, <1>2 DEF Types, TypeOK, VersionType, WorkerType
    <2>2. /\ chatLock' \in [Chats -> Workers \cup {"free"}] /\ losses' \in Nat
          /\ versionLock' \in [Chats -> [Settings -> Workers \cup {"free"}]]
        BY <1>1, <1>2, LockTypes
    <2> QED BY <1>1, <1>2, <2>1, <2>2, TypesFrame
<1>5. RowsMatch' BY <1>1, <1>2, <1>3 DEF RowsMatch
<1>6. Claims' BY <1>1, <1>2 DEF Claims
<1>7. Once'
    <2> SUFFICES ASSUME NEW m \in 1..MaxEvents PROVE Once!(m)'
        BY DEF Once
    <2>1. effects[m] \in Nat /\ effects[m] <= 1 BY <1>1 DEF Types, TypeOK, Once
    <2>2. CASE effects[m] = 0 BY <1>2, <2>1, <2>2
    <2>3. CASE effects[m] > 0
        <3>1. /\ m <= Len(events) /\ \A v \in UpdateIds : IsOpen(v) => rows[v].event # m
              /\ m \in live => rows[events[m].id].status # "absent" /\ rows[events[m].id].event = m
            BY <1>1, <2>3 DEF Once
        <3>2. events[m].id \in UpdateIds
            <4>1. m \in 1..Len(events) BY <3>1
            <4> QED BY <1>1, <4>1, EventFacts DEF EventType
        <3>3. m \in live => events[m].id # u BY <1>2, <3>1
        <3>4. \A v \in UpdateIds : rows'[v].status \in {"pending", "processing"} => rows'[v].event # m
            BY <1>2, <3>1 DEF IsOpen
        <3> QED BY <1>2, <1>3, <2>1, <3>1, <3>2, <3>3, <3>4 DEF IsOpen
    <2> QED BY <2>1, <2>2, <2>3
<1>8. ClaimedInOrder' BY <1>1, <1>2, <1>3 DEF ClaimedInOrder, IsOpen, ChatAt
<1> QED BY <1>4, <1>5, <1>6, <1>7, <1>8 DEF IInv

\* A user's update comes last.
LEMMA UserFacts ==
    ASSUME Types, NEW u \in UpdateIds, NEW c \in Chats, NEW cmd \in Commands, UserActs(u, c, cmd)
    PROVE  /\ events' \in Seq(EventType) /\ Len(events) \in Nat /\ Len(events') = Len(events) + 1
           /\ Len(events) < MaxEvents
           /\ \A n \in 1..Len(events) : events'[n] = events[n]
           /\ events'[Len(events) + 1].id = u
           /\ live' = live \cup {Len(events) + 1} /\ weekQuiet' = FALSE
           /\ weekQuiet \/ Len(events) = 0 \/ u = events[Len(events)].id + 1
           /\ UNCHANGED <<weeks, versions, settings, effects, closed, stream, rows>>
           /\ UNCHANGED <<chatLock, versionLock, workers, saves, losses>>
<1>1. events \in Seq(EventType) BY DEF Types, TypeOK, EventType
<1> DEFINE e == [id |-> u, chat |-> c, cmd |-> cmd]
<1>2. e \in EventType /\ e.id = u BY DEF EventType
<1>3. events' = Append(events, e) BY DEF UserActs
<1> HIDE DEF e
<1>4. /\ events' \in Seq(EventType) /\ Len(events) \in Nat /\ Len(events') = Len(events) + 1
      /\ \A n \in 1..Len(events) : events'[n] = events[n]
      /\ events'[Len(events) + 1] = e
    BY <1>1, <1>2, <1>3
<1>5. /\ live' = live \cup {Len(events) + 1} /\ weekQuiet' = FALSE /\ Len(events) < MaxEvents
      /\ weekQuiet \/ events = <<>> \/ u = events[Len(events)].id + 1
      /\ UNCHANGED <<weeks, versions, settings, effects, closed, stream, rows>>
      /\ UNCHANGED <<chatLock, versionLock, workers, saves, losses>>
    BY DEF UserActs, database
<1>6. events = <<>> => Len(events) = 0 OBVIOUS
<1> QED BY <1>2, <1>4, <1>5, <1>6

\* Nothing is known yet of a new event.
LEMMA UserKeeps ==
    ASSUME IInv, NEW u \in UpdateIds, NEW c \in Chats, NEW cmd \in Commands, UserActs(u, c, cmd)
    PROVE  IInv'
<1>1. Types /\ RowsMatch /\ Claims /\ Once /\ ClaimedInOrder BY DEF IInv
<1>2. /\ events' \in Seq(EventType) /\ Len(events) \in Nat /\ Len(events') = Len(events) + 1
      /\ Len(events) < MaxEvents
      /\ \A n \in 1..Len(events) : events'[n] = events[n]
      /\ live' = live \cup {Len(events) + 1} /\ weekQuiet' = FALSE
      /\ UNCHANGED <<weeks, versions, settings, effects, closed, stream, rows>>
      /\ UNCHANGED <<chatLock, versionLock, workers, saves, losses>>
    BY <1>1, UserFacts
<1>3. Types'
    <2>1. live' \subseteq 1..Len(events')
        <3>1. live \subseteq 1..Len(events) BY <1>1 DEF Types, TypeOK
        <3>2. Len(events) + 1 \in 1..(Len(events) + 1) BY <1>2
        <3>3. 1..Len(events) \subseteq 1..(Len(events) + 1) BY <1>2
        <3> QED BY <1>2, <3>1, <3>2, <3>3
    <2>2. TypeOK' BY <1>1, <1>2, <2>1 DEF Types, TypeOK, EventType
    <2>3. NextEpoch' = NextEpoch BY <1>2 DEF NextEpoch
    <2>4. MaxEvents \in Nat BY InboxAssumption
    <2> QED BY <1>1, <1>2, <2>2, <2>3, <2>4 DEF Types
<1>4. RowsMatch' BY <1>1, <1>2 DEF RowsMatch
<1>5. Claims' BY <1>1, <1>2 DEF Claims
<1>6. Once'
    <2> SUFFICES ASSUME NEW m \in 1..MaxEvents PROVE Once!(m)'
        BY DEF Once
    <2>1. effects[m] \in Nat /\ effects[m] <= 1 BY <1>1 DEF Types, TypeOK, Once
    <2>2. CASE effects[m] = 0 BY <1>2, <2>1, <2>2
    <2>3. CASE effects[m] > 0
        <3>1. /\ m <= Len(events) /\ \A v \in UpdateIds : IsOpen(v) => rows[v].event # m
              /\ m \in live => rows[events[m].id].status # "absent" /\ rows[events[m].id].event = m
            BY <1>1, <2>3 DEF Once
        <3>2. m \in 1..Len(events) BY <1>2, <3>1
        <3>3. m \in live' => m \in live BY <1>2, <3>2
        <3> QED BY <1>2, <2>1, <3>1, <3>2, <3>3 DEF IsOpen
    <2> QED BY <2>1, <2>2, <2>3
<1>7. ClaimedInOrder'
    <2>1. \A v \in UpdateIds : IsOpen(v) => ChatAt(v)' = ChatAt(v)
        <3> SUFFICES ASSUME NEW v \in UpdateIds, IsOpen(v) PROVE ChatAt(v)' = ChatAt(v)
            OBVIOUS
        <3>1. rows[v].event \in 1..Len(events) BY <1>1 DEF IsOpen, RowsMatch
        <3> QED BY <1>2, <3>1 DEF ChatAt
    <2> SUFFICES ASSUME NEW t \in UpdateIds, NEW v \in UpdateIds,
                        rows[t].status = "processing", IsOpen(v),
                        ChatAt(v)' = ChatAt(t)',
                        Before(rows[v].epoch, v, rows[t].epoch, t)
                 PROVE  rows[v].saved > rows[t].saved
        BY <1>2 DEF ClaimedInOrder, IsOpen, Before
    <2>2. ChatAt(v) = ChatAt(t) BY <2>1 DEF IsOpen
    <2> QED BY <1>1, <2>2 DEF ClaimedInOrder
<1> QED BY <1>3, <1>4, <1>5, <1>6, <1>7 DEF IInv

\* A week without updates.
LEMMA WeekFacts ==
    ASSUME Types, NEW whose \in {{"telegram"}, {"bot"}, {"telegram", "bot"}}, WeekWithoutUpdates(whose)
    PROVE  /\ weeks' = weeks + 1 /\ weeks < MaxWeeks
           /\ weekQuiet' = (weekQuiet \/ "telegram" \in whose)
           /\ "telegram" \in whose => live' = {}
           /\ "telegram" \notin whose => live' = {n \in live : \A u \in Retained : rows[u].event < n}
           /\ live' \subseteq live
           /\ stream' \in [epoch : 0..MaxWeeks, old : BOOLEAN] /\ stream'.epoch = stream.epoch
           /\ stream \in [epoch : 0..MaxWeeks, old : BOOLEAN]
           /\ stream'.old = (stream.old \/ "bot" \in whose)
           /\ NextEpoch' <= weeks'
           /\ ~DeliveryLag => "bot" \in whose
           /\ UNCHANGED <<events, versions, settings, effects, closed, rows>>
           /\ UNCHANGED <<chatLock, versionLock, workers, saves, losses>>
<1>1. stream \in [epoch : 0..MaxWeeks, old : BOOLEAN] /\ weeks \in 0..MaxWeeks /\ NextEpoch <= weeks
    BY DEF Types, TypeOK
<1>2. stream' = [stream EXCEPT !.old = stream.old \/ "bot" \in whose]
    BY DEF WeekWithoutUpdates
<1>3. /\ stream' \in [epoch : 0..MaxWeeks, old : BOOLEAN] /\ stream'.epoch = stream.epoch
      /\ stream'.old = (stream.old \/ "bot" \in whose)
    BY <1>1, <1>2
<1>4. weeks' = weeks + 1 /\ weeks < MaxWeeks BY DEF WeekWithoutUpdates
<1>5. NextEpoch' <= weeks'
    BY <1>1, <1>3, <1>4, InboxAssumption DEF NextEpoch
<1> QED BY <1>1, <1>3, <1>4, <1>5 DEF WeekWithoutUpdates, database

\* A week without updates gives deliveries up and makes the stream old.
LEMMA WeekKeeps ==
    ASSUME IInv, NEW whose \in {{"telegram"}, {"bot"}, {"telegram", "bot"}}, WeekWithoutUpdates(whose)
    PROVE  IInv'
<1>1. Types /\ RowsMatch /\ Claims /\ Once /\ ClaimedInOrder BY DEF IInv
<1>2. /\ weeks' = weeks + 1 /\ weeks < MaxWeeks /\ NextEpoch' <= weeks'
      /\ weekQuiet' = (weekQuiet \/ "telegram" \in whose) /\ live' \subseteq live
      /\ stream' \in [epoch : 0..MaxWeeks, old : BOOLEAN]
      /\ UNCHANGED <<events, versions, settings, effects, closed, rows>>
      /\ UNCHANGED <<chatLock, versionLock, workers, saves, losses>>
    BY <1>1, WeekFacts
<1>3. TypeOK' BY <1>1, <1>2 DEF Types, TypeOK
<1>4. weeks' \in 0..MaxWeeks BY <1>1, <1>2, InboxAssumption DEF Types
<1>5. Types' BY <1>1, <1>2, <1>3, <1>4 DEF Types
<1>6. RowsMatch' /\ Claims' BY <1>1, <1>2 DEF RowsMatch, Claims
<1>7. Once' BY <1>1, <1>2 DEF Once, IsOpen
<1>8. ClaimedInOrder' BY <1>1, <1>2 DEF ClaimedInOrder, IsOpen, ChatAt
<1> QED BY <1>5, <1>6, <1>7, <1>8 DEF IInv

-----------------------------------------------------------------------------
(* The theorems that need no assumption on the weeks *)

\* The invariant holds in an empty inbox.
LEMMA InitIInv == Init => IInv
<1> SUFFICES ASSUME Init PROVE IInv
    OBVIOUS
<1>1. {MaxEvents, MaxWeeks} \subseteq Nat BY InboxAssumption
<1>2. AbsentRow \in RowType /\ AbsentRow.status = "absent" BY <1>1 DEF AbsentRow, RowType
<1>3. IdleWorker \in WorkerType /\ IdleWorker.pc = "idle" BY <1>1 DEF IdleWorker, WorkerType
<1>4. NoVersion \in VersionType BY <1>1 DEF NoVersion, VersionType
<1>5. /\ rows \in [UpdateIds -> RowType] /\ \A u \in UpdateIds : rows[u].status = "absent"
      /\ workers \in [Workers -> WorkerType] /\ \A w \in Workers : workers[w].pc = "idle"
    BY <1>2, <1>3 DEF Init
<1>6. Types
    <2>1. versions \in [Chats -> [Settings -> VersionType]] BY <1>4 DEF Init
    <2>2. events = <<>> /\ events \in Seq(EventType) /\ Len(events) = 0
        <3>1. events = <<>> BY DEF Init
        <3>2. events \in Seq(EventType) BY <3>1
        <3>3. Len(events) = 0 BY <3>1
        <3> QED BY <3>1, <3>2, <3>3
    <2>3. settings \in [Chats -> SettingsType] BY <1>1 DEF Init, SettingsType
    <2>4. stream \in [epoch : 0..MaxWeeks, old : BOOLEAN] /\ NextEpoch = 0
        BY <1>1 DEF Init, NextEpoch
    <2>5. TypeOK
        BY <1>1, <1>5, <2>1, <2>2, <2>4 DEF TypeOK, EventType, RowType, WorkerType, VersionType, Init
    <2> QED BY <1>1, <2>2, <2>3, <2>4, <2>5 DEF Types, Init
<1>7. RowsMatch /\ Claims /\ ClaimedInOrder
    BY <1>5 DEF RowsMatch, Claims, ClaimedInOrder
<1>8. Once BY DEF Init, Once
<1> QED BY <1>6, <1>7, <1>8 DEF IInv

\* Every step keeps the invariant.
LEMMA NextIInv == IInv /\ [Next]_vars => IInv'
<1> SUFFICES ASSUME IInv, [Next]_vars PROVE IInv'
    OBVIOUS
<1>1. ASSUME NEW u \in UpdateIds, NEW c \in Chats, NEW cmd \in Commands, UserActs(u, c, cmd)
      PROVE  IInv'
    BY <1>1, UserKeeps
<1>2. ASSUME NEW whose \in {{"telegram"}, {"bot"}, {"telegram", "bot"}}, WeekWithoutUpdates(whose)
      PROVE  IInv'
    BY <1>2, WeekKeeps
<1>3. ASSUME NEW n \in 1..Len(events), SaveTelegramUpdate(n) PROVE IInv'
    BY <1>3, SaveKeeps
<1>4. ASSUME NEW w \in Workers, NEW u \in UpdateIds, ClaimPendingTelegramUpdate(w, u) PROVE IInv'
    BY <1>4, ClaimKeeps
<1>5. ASSUME NEW w \in Workers, WorkerStep(w) \/ WorkerFault(w) PROVE IInv'
    <2>1. CASE AcquireTelegramChatLock(w) \/ AcquireTimeout(w) \/ AllowTelegramMutation(w)
                   \/ GetLangWithDB(w) \/ ReleaseTelegramChatLock(w) \/ WorkerFault(w)
        BY <2>1, WorkerLocal, LocalKeeps
    <2>2. CASE MarkTelegramUpdate(w)
        <3>1. Types BY DEF IInv
        <3> QED BY <2>2, <3>1, MarkLocal, LockTypes, LocalKeeps
    <2>3. ASSUME NEW answer \in {"ok", "error", "lost"}, ProcessTelegramUpdate(w, answer) PROVE IInv'
        BY <2>3, ProcessKeeps
    <2> QED BY <1>5, <2>1, <2>2, <2>3 DEF WorkerStep
<1>6. ASSUME NEW u \in UpdateIds, LeaseExpires(u) \/ BackoffEnds(u) PROVE IInv'
    <2>1. Types BY DEF IInv
    <2> QED BY <1>6, <2>1, TimeLocal, LockTypes, LocalKeeps
<1>7. ASSUME NEW u \in UpdateIds, CleanupTelegramUpdateHistory(u) PROVE IInv'
    BY <1>7, CleanupKeeps
<1>8. CASE UNCHANGED vars
    <2>1. Types /\ RowsMatch /\ Claims /\ Once /\ ClaimedInOrder BY DEF IInv
    <2>2. /\ UNCHANGED <<events, live, weekQuiet, weeks, versions, settings, effects, closed, stream, rows>>
          /\ UNCHANGED <<chatLock, versionLock, workers, saves, losses>>
        BY <1>8 DEF vars, telegram, database
    <2>3. SameRows /\ NoneClaimed BY <2>1, <2>2, SameRowsFrame
    <2>4. SameClaims /\ SameStream
        BY <2>1, <2>2 DEF SameClaims, SameStream, Types, TypeOK, WorkerType
    <2> QED BY <2>1, <2>2, <2>3, <2>4, LocalKeeps, LockTypes DEF Local
<1> QED BY <1>1, <1>2, <1>3, <1>4, <1>5, <1>6, <1>7, <1>8 DEF Next

\* The inductive invariant holds.
THEOREM InboxConsistent == Spec => []IInv
BY InitIInv, NextIInv, PTL DEF Spec

\* Every variable keeps its type.
THEOREM TypeCorrect == Spec => []TypeOK
<1>1. IInv => TypeOK BY DEF IInv, Types
<1> QED BY <1>1, InboxConsistent, PTL

\* An update's mutation is committed at most once, however often it is delivered, claimed and
\* retried, and whatever answers of its commit were lost.
THEOREM AtMostOnce == Spec => []MutationAtMostOnce
<1>1. IInv => MutationAtMostOnce BY DEF IInv, Once, MutationAtMostOnce
<1> QED BY <1>1, InboxConsistent, PTL

\* No update is processed while an earlier one of its chat, saved before it, is open.
THEOREM InSavedOrder == Spec => ProcessedInSavedOrder
<1> DEFINE InOrder == \A u, v \in UpdateIds :
          /\ rows[u].status = "processing" /\ rows'[u].status = "processed"
          /\ IsOpen(v) /\ ChatAt(v) = ChatAt(u)
          /\ Before(rows[v].epoch, v, rows[u].epoch, u)
          => rows[v].saved > rows[u].saved
<1>1. IInv /\ [Next]_vars => [InOrder]_vars
    BY DEF IInv, ClaimedInOrder
<1>2. Spec => [][InOrder]_vars
    <2> HIDE DEF InOrder
    <2> QED BY <1>1, InboxConsistent, PTL DEF Spec
<1> QED BY <1>2 DEF ProcessedInSavedOrder

\* A closed row is only removed.
KeepsClosed == \A u \in UpdateIds : rows[u].status \in {"processed", "failed"}
                   => rows'[u].status \in {rows[u].status, "absent"}

\* Every step but retention leaves a closed row as it is.
LEMMA StepKeepsClosed == IInv /\ Next => KeepsClosed
<1> SUFFICES ASSUME IInv, Next PROVE KeepsClosed
    OBVIOUS
<1> USE DEF KeepsClosed
<1>1. Types /\ rows \in [UpdateIds -> RowType] BY DEF IInv, Types, TypeOK, RowType
<1>2. ASSUME NEW u \in UpdateIds, NEW c \in Chats, NEW cmd \in Commands, UserActs(u, c, cmd)
      PROVE  KeepsClosed
    BY <1>2 DEF UserActs
<1>3. ASSUME NEW whose \in {{"telegram"}, {"bot"}, {"telegram", "bot"}}, WeekWithoutUpdates(whose)
      PROVE  KeepsClosed
    BY <1>3 DEF WeekWithoutUpdates
<1>4. ASSUME NEW n \in 1..Len(events), SaveTelegramUpdate(n) PROVE KeepsClosed
    BY <1>4, SaveFacts
<1>5. ASSUME NEW w \in Workers, NEW u \in UpdateIds, ClaimPendingTelegramUpdate(w, u) PROVE KeepsClosed
    BY <1>5, ClaimFacts DEF IsOpen
<1>6. ASSUME NEW w \in Workers, WorkerStep(w) \/ WorkerFault(w) PROVE KeepsClosed
    <2>1. CASE AcquireTelegramChatLock(w) \/ AcquireTimeout(w) \/ AllowTelegramMutation(w)
                   \/ GetLangWithDB(w) \/ ReleaseTelegramChatLock(w) \/ WorkerFault(w)
        <3>1. UNCHANGED rows BY <2>1, WorkerLocal
        <3> QED BY <3>1
    <2>2. CASE MarkTelegramUpdate(w)
        <3>1. \A u \in UpdateIds : rows'[u] # rows[u] => rows[u].status = "processing"
            BY <2>2, MarkLocal
        <3> QED BY <3>1
    <2>3. ASSUME NEW answer \in {"ok", "error", "lost"}, ProcessTelegramUpdate(w, answer)
          PROVE  KeepsClosed
        <3>1. CASE UNCHANGED rows BY <3>1
        <3>2. CASE Owns(w) /\ CommitUpdate(w)
            <4>1. workers[w].pc = "processing" BY <2>3, ProcessFacts
            <4>2. /\ rows[workers[w].id].status = "processing"
                  /\ \A v \in UpdateIds : v # workers[w].id => rows'[v] = rows[v]
                BY <3>2, <4>1, CommitFacts
            <4> QED BY <4>2
        <3> QED BY <2>3, <3>1, <3>2, ProcessFacts
    <2> QED BY <1>6, <2>1, <2>2, <2>3 DEF WorkerStep
<1>7. ASSUME NEW u \in UpdateIds, LeaseExpires(u) \/ BackoffEnds(u) PROVE KeepsClosed
    <2>1. \A v \in UpdateIds : rows'[v].status = rows[v].status
        BY <1>1, <1>7 DEF LeaseExpires, BackoffEnds, RowType
    <2> QED BY <2>1
<1>8. ASSUME NEW u \in UpdateIds, CleanupTelegramUpdateHistory(u) PROVE KeepsClosed
    BY <1>8, CleanupFacts
<1> QED BY <1>2, <1>3, <1>4, <1>5, <1>6, <1>7, <1>8 DEF Next

\* A closed update is never reopened or rewritten, whoever still works on it.
THEOREM ClosedIsFinal == Spec => TerminalIsFinal
<1>1. IInv /\ [Next]_vars => [KeepsClosed]_vars
    BY StepKeepsClosed
<1>2. Spec => [][KeepsClosed]_vars
    BY <1>1, InboxConsistent, PTL DEF Spec
<1> QED BY <1>2 DEF TerminalIsFinal, KeepsClosed

-----------------------------------------------------------------------------
(* The order of the stamps *)

\* The conjuncts that only rows, versions, events and the stream decide.
Order == Sequential /\ NoLaterStamp /\ LiveInOrder /\ StampsInOrder /\ VersionsKept

\* Stamps are triples of numbers.
LEMMA StampTypes ==
    ASSUME Types
    PROVE  /\ RowStamps \subseteq VersionType /\ Stamps \subseteq VersionType
           /\ \A u \in UpdateIds : rows[u].status # "absent" => StampOf(u) \in RowStamps
           /\ \A c \in Chats, s \in Settings : versions[c][s] \in Stamps
<1>1. /\ rows \in [UpdateIds -> RowType] /\ versions \in [Chats -> [Settings -> VersionType]]
    BY DEF Types, TypeOK, RowType, VersionType
<1>2. UpdateIds \subseteq Nat /\ MaxWeeks \in Nat BY InboxAssumption
<1>3. \A u \in UpdateIds : StampOf(u) \in VersionType
    <2> SUFFICES ASSUME NEW u \in UpdateIds PROVE StampOf(u) \in VersionType
        OBVIOUS
    <2>1. rows[u].event \in 0..MaxEvents /\ rows[u].epoch \in 0..MaxWeeks BY <1>1 DEF RowType
    <2>2. rows[u].epoch \in Int /\ u \in Nat BY <1>2, <2>1
    <2> QED BY <2>1, <2>2 DEF StampOf, VersionType
<1> QED BY <1>1, <1>3 DEF RowStamps, Stamps, Retained

\* The fields of a row's stamp.
LEMMA StampFields ==
    ASSUME NEW u
    PROVE  StampOf(u).epoch = rows[u].epoch /\ StampOf(u).id = u /\ StampOf(u).event = rows[u].event
BY DEF StampOf

\* Rows that keep their place keep their stamps.
LEMMA SameStamps ==
    ASSUME SameRows
    PROVE  RowStamps' = RowStamps
<1>1. Retained' = Retained BY DEF Retained, SameRows
<1>2. \A u \in UpdateIds : StampOf(u)' = StampOf(u) BY DEF StampOf, SameRows
<1>3. Retained \subseteq UpdateIds BY DEF Retained
<1> HIDE DEF Retained
<1>4. \A x : x \in RowStamps' <=> x \in RowStamps
    <2>1. \A x : x \in RowStamps' <=> \E u \in Retained' : x = StampOf(u)' BY DEF RowStamps
    <2>2. \A x : x \in RowStamps <=> \E u \in Retained : x = StampOf(u) BY DEF RowStamps
    <2> QED BY <1>1, <1>2, <1>3, <2>1, <2>2
<1> QED BY <1>4

\* Stamps that go disturb no order.
LEMMA OrderFrame ==
    ASSUME Order, Stamps' \subseteq Stamps, UNCHANGED <<events, live, weekQuiet, stream>>, VersionsKept'
    PROVE  Order'
<1>1. Sequential' BY DEF Order, Sequential
<1>2. NextEpoch' = NextEpoch BY DEF NextEpoch
<1>3. NoLaterStamp' BY <1>2 DEF Order, NoLaterStamp
<1>4. LiveInOrder' BY <1>2 DEF Order, LiveInOrder
<1>5. StampsInOrder' BY DEF Order, StampsInOrder
<1> QED BY <1>1, <1>3, <1>4, <1>5 DEF Order

\* Steps that change neither the place of a row nor a version.
LEMMA OrderLocal ==
    ASSUME Order, SameRows, SameStream, UNCHANGED versions
    PROVE  Order'
<1>1. RowStamps' = RowStamps BY SameStamps
<1>2. Stamps' = Stamps BY <1>1 DEF Stamps
<1>3. UNCHANGED <<events, live, weekQuiet, stream>> BY DEF SameStream
<1>4. VersionsKept' BY <1>1, <1>3 DEF Order, VersionsKept
<1> QED BY <1>2, <1>3, <1>4, OrderFrame

\* A commit gives a version the stamp of its row.
LEMMA OrderCommit ==
    ASSUME IInv, Order, NEW w \in Workers, workers[w].pc = "processing", Owns(w), CommitUpdate(w),
           SameStream
    PROVE  Order'
<1>1. Types BY DEF IInv
<1> DEFINE n == workers[w].event
           u == workers[w].id
           c == ChatOf(w)
           s == MutationSetting(EventOf(w).cmd)
           stamp == [epoch |-> workers[w].epoch, id |-> u, event |-> n]
<1>2. /\ u \in UpdateIds /\ c \in Chats /\ rows[u].status # "absent" /\ rows[u].event = n
      /\ rows[u].epoch = workers[w].epoch
    BY <1>1, WorkerFacts DEF IInv
<1>3. stamp = StampOf(u) BY <1>2 DEF StampOf
<1>4. stamp \in RowStamps BY <1>1, <1>2, <1>3, StampTypes
<1>5. s \in Settings \cup {"none"} BY DEF MutationSetting, Settings
<1>6. /\ SameRows
      /\ \/ versions' = versions
         \/ s # "none" /\ versions' = [versions EXCEPT ![c] = [versions[c] EXCEPT ![s] = stamp]]
    BY CommitFacts
<1>7. CASE versions' = versions BY <1>6, <1>7, OrderLocal
<1>8. CASE s # "none" /\ versions' = [versions EXCEPT ![c] = [versions[c] EXCEPT ![s] = stamp]]
    <2>1. versions \in [Chats -> [Settings -> VersionType]] BY <1>1 DEF Types, TypeOK, VersionType
    <2> HIDE DEF n, u, c, s, stamp
    <2>2. \A d \in Chats, t \in Settings :
             versions'[d][t] = IF d = c /\ t = s THEN stamp ELSE versions[d][t]
        BY <1>2, <1>5, <1>8, <2>1
    <2>3. RowStamps' = RowStamps BY <1>6, SameStamps
    <2>4. Stamps' \subseteq Stamps
        <3>1. \A d \in Chats, t \in Settings : versions'[d][t] \in Stamps
            BY <1>4, <2>2 DEF Stamps
        <3> QED BY <2>3, <3>1 DEF Stamps
    <2>5. UNCHANGED <<events, live, weekQuiet, stream>> BY DEF SameStream
    <2>6. VersionsKept' BY <1>4, <2>2, <2>3, <2>5 DEF Order, VersionsKept
    <2> QED BY <2>4, <2>5, <2>6, OrderFrame
<1> QED BY <1>6, <1>7, <1>8

\* A row goes when all that Telegram still redelivers is later.
LEMMA OrderCleanup ==
    ASSUME IInv, Order, NEW u \in UpdateIds, CleanupTelegramUpdateHistory(u)
    PROVE  Order'
<1>1. /\ SameStream /\ UNCHANGED versions /\ rows'[u].status = "absent"
      /\ \A v \in UpdateIds : v # u => rows'[v] = rows[v]
      /\ \A n \in live : rows[u].event < n
    BY CleanupFacts
<1>2. Retained' \subseteq Retained /\ \A v \in Retained' : v # u /\ StampOf(v)' = StampOf(v)
    BY <1>1 DEF Retained, StampOf
<1>3. RowStamps' \subseteq RowStamps BY <1>2 DEF RowStamps
<1>4. Stamps' \subseteq Stamps BY <1>1, <1>3 DEF Stamps
<1>5. UNCHANGED <<events, live, weekQuiet, stream>> BY <1>1 DEF SameStream
<1>6. \A v \in Retained : v # u => v \in Retained' BY <1>1 DEF Retained
<1>7. VersionsKept'
    <2> SUFFICES ASSUME NEW c \in Chats, NEW s \in Settings, versions[c][s] \notin RowStamps'
                 PROVE  \A n \in live : versions[c][s].event < n
        BY <1>1, <1>5 DEF VersionsKept
    <2>1. CASE versions[c][s] \in RowStamps
        <3>1. PICK v \in Retained : versions[c][s] = StampOf(v) BY <2>1 DEF RowStamps
        <3>2. v = u
            <4>1. v # u => v \in Retained' /\ StampOf(v)' = StampOf(v) BY <1>2, <1>6
            <4> QED BY <3>1, <4>1 DEF RowStamps
        <3>3. versions[c][s].event = rows[u].event BY <3>1, <3>2, StampFields
        <3> QED BY <1>1, <3>3
    <2>2. CASE versions[c][s] \notin RowStamps BY <2>2 DEF Order, VersionsKept
    <2> QED BY <2>1, <2>2
<1> QED BY <1>4, <1>5, <1>7, OrderFrame

\* A saved update gets a stamp in its place among those that are there.
LEMMA OrderSave ==
    ASSUME IInv, Order, NEW n \in 1..Len(events), SaveTelegramUpdate(n)
    PROVE  Order'
<1>1. Types BY DEF IInv
<1>0. PICK u \in UpdateIds : events[n].id = u
    BY <1>1, EventFacts DEF EventType
<1> DEFINE b == [epoch |-> NextEpoch, id |-> u, event |-> n]
<1>2. /\ n \in live /\ u \in UpdateIds /\ rows[u].status = "absent"
      /\ rows'[u].status = "pending" /\ rows'[u].event = n /\ rows'[u].epoch = NextEpoch
      /\ \A v \in UpdateIds : v # u => rows'[v] = rows[v]
      /\ stream' = [epoch |-> NextEpoch, old |-> FALSE] /\ NextEpoch' = NextEpoch
      /\ NextEpoch \in 0..MaxWeeks /\ stream.epoch \in 0..MaxWeeks /\ stream.old \in BOOLEAN
      /\ UNCHANGED <<events, live, weekQuiet, versions>>
    BY <1>0, SaveFacts
<1>3. b.epoch = NextEpoch /\ b.id = u /\ b.event = n /\ events[n].id = u BY <1>0
<1>4. /\ stream'.old = FALSE /\ stream'.epoch = NextEpoch /\ stream.epoch <= NextEpoch
      /\ ~stream.old => NextEpoch = stream.epoch
    BY <1>2, InboxAssumption DEF NextEpoch
<1>5. StampOf(u)' = b BY <1>2 DEF StampOf
<1> HIDE DEF b
<1>6. Retained' = Retained \cup {u} /\ \A v \in Retained : StampOf(v)' = StampOf(v)
    BY <1>2 DEF Retained, StampOf
<1>7. RowStamps' = RowStamps \cup {b}
    <2>1. \A x : x \in RowStamps' <=> \E v \in Retained' : x = StampOf(v)' BY DEF RowStamps
    <2>2. \A x : x \in RowStamps <=> \E v \in Retained : x = StampOf(v) BY DEF RowStamps
    <2> QED BY <1>5, <1>6, <2>1, <2>2
<1>8. Stamps' = Stamps \cup {b} BY <1>2, <1>7 DEF Stamps
<1>9. Stamps \subseteq VersionType BY <1>1, StampTypes
<1>10. /\ \A m \in live : m \in 1..Len(events)
       /\ \A m \in 1..Len(events) : m \in Nat /\ events[m].id \in Nat
    <2>1. \A m \in 1..Len(events) : events[m].id \in UpdateIds BY <1>1, EventFacts DEF EventType
    <2>2. live \subseteq 1..Len(events) BY <1>1 DEF Types, TypeOK
    <2>3. \A m \in 1..Len(events) : m \in Nat OBVIOUS
    <2> QED BY <2>1, <2>2, <2>3, InboxAssumption
<1>11. Len(events) \in Nat /\ n \in Nat /\ n <= Len(events) /\ n >= 1
    BY <1>1, EventFacts
<1>12. Sequential'
    <2>1. weekQuiet = FALSE BY <1>1, <1>2 DEF Order, Sequential, Types, TypeOK
    <2> QED BY <1>2, <2>1 DEF Order, Sequential
<1>13. NoLaterStamp'
    <2> SUFFICES ASSUME NEW a \in Stamps' PROVE NoLaterStamp!(a)'
        BY DEF NoLaterStamp
    <2>1. CASE a \in Stamps
        <3>1. /\ a.event <= Len(events) /\ (a.event = 0 => a.epoch = -1) /\ a.epoch <= stream.epoch
              /\ a.epoch = NextEpoch => a.id <= events[Len(events)].id
            BY <2>1 DEF Order, NoLaterStamp
        <3>2. a.epoch <= stream'.epoch
            BY <1>2, <1>4, <1>9, <2>1, <3>1, InboxAssumption DEF VersionType
        <3> QED BY <1>2, <3>1, <3>2
    <2>2. CASE a = b
        <3>1. u <= events[Len(events)].id BY <1>2, <1>3 DEF Order, Sequential
        <3>2. b.epoch <= stream'.epoch /\ n # 0 BY <1>2, <1>3, <1>4, <1>11, InboxAssumption
        <3> QED BY <1>2, <1>3, <1>11, <2>2, <3>1, <3>2
    <2> QED BY <1>8, <2>1, <2>2
<1>14. LiveInOrder'
    <2> SUFFICES ASSUME NEW a \in Stamps', NEW m \in live
                 PROVE  /\ a.event < m => Before(a.epoch, a.id, NextEpoch, events[m].id)
                        /\ a.event > m => a.epoch = NextEpoch /\ events[m].id < a.id
        BY <1>2, <1>4 DEF LiveInOrder
    <2>1. CASE a \in Stamps
        BY <1>4, <2>1 DEF Order, LiveInOrder
    <2>2. CASE a = b
        <3>1. n < m => u < events[m].id BY <1>2, <1>3 DEF Order, Sequential
        <3>2. m < n => events[m].id < u BY <1>2, <1>3 DEF Order, Sequential
        <3>3. m \in Nat BY <1>10
        <3> QED BY <1>3, <1>11, <2>2, <3>1, <3>2, <3>3 DEF Before
    <2> QED BY <1>8, <2>1, <2>2
<1>15. StampsInOrder'
    <2> SUFFICES ASSUME NEW a \in Stamps', NEW d \in Stamps', a.event < d.event
                 PROVE  Precedes(a, d)
        BY DEF StampsInOrder, Precedes, Before
    <2>1. CASE a \in Stamps /\ d \in Stamps BY <2>1 DEF Order, StampsInOrder
    <2>2. CASE a \in Stamps /\ d = b
        BY <1>2, <1>3, <2>2 DEF Order, LiveInOrder, Precedes
    <2>3. CASE a = b /\ d \in Stamps
        <3>1. d.event > n BY <1>3, <1>9, <1>11, <2>3 DEF VersionType
        <3>2. ~stream.old /\ d.epoch = stream.epoch /\ u < d.id
            BY <1>2, <1>3, <2>3, <3>1 DEF Order, LiveInOrder
        <3> QED BY <1>3, <1>4, <2>3, <3>2 DEF Precedes, Before
    <2>4. CASE a = b /\ d = b BY <1>3, <1>11, <2>4
    <2> QED BY <1>8, <2>1, <2>2, <2>3, <2>4
<1>16. VersionsKept' BY <1>2, <1>7 DEF Order, VersionsKept
<1> QED BY <1>12, <1>13, <1>14, <1>15, <1>16 DEF Order

\* A user's update comes after everything: in the sequence of ids or, after a quiet week, in
\* a new epoch.
LEMMA OrderUser ==
    ASSUME IInv, Order, NEW u \in UpdateIds, NEW c \in Chats, NEW cmd \in Commands, UserActs(u, c, cmd)
    PROVE  Order'
<1>1. Types BY DEF IInv
<1> DEFINE last == Len(events)
<1>2. /\ last \in Nat /\ Len(events') = last + 1
      /\ \A n \in 1..last : events'[n] = events[n]
      /\ events'[last + 1].id = u
      /\ live' = live \cup {last + 1} /\ weekQuiet' = FALSE
      /\ weekQuiet \/ last = 0 \/ u = events[last].id + 1
      /\ UNCHANGED <<versions, stream, rows>>
    BY <1>1, UserFacts
<1>3. Stamps' = Stamps /\ RowStamps' = RowStamps /\ NextEpoch' = NextEpoch
    BY <1>2 DEF Stamps, RowStamps, Retained, StampOf, NextEpoch
<1>4. Stamps \subseteq VersionType BY <1>1, StampTypes
<1>5. live \subseteq 1..last BY <1>1 DEF Types, TypeOK
<1>6. \A m \in 1..last : m \in Nat /\ m <= last /\ events[m].id \in Nat
    <2>1. \A m \in 1..last : events[m].id \in UpdateIds BY <1>1, EventFacts DEF EventType
    <2>2. \A m \in 1..last : m \in Nat /\ m <= last BY <1>2
    <2> QED BY <2>1, <2>2, InboxAssumption
<1>7. weekQuiet \in BOOLEAN /\ stream \in [epoch : 0..MaxWeeks, old : BOOLEAN] /\ u \in Nat
    BY <1>1, InboxAssumption DEF Types, TypeOK
<1>8. /\ NextEpoch \in Nat /\ stream.epoch \in Nat /\ stream.epoch <= NextEpoch
      /\ stream.old => stream.epoch < NextEpoch
    BY <1>7, InboxAssumption DEF NextEpoch
<1> HIDE DEF last
<1>9. \A a \in Stamps : /\ a.event \in Nat /\ a.epoch \in Int /\ a.id \in Nat
                        /\ a.event <= last /\ a.epoch <= stream.epoch
                        /\ a.epoch = NextEpoch => a.id < u
    <2> SUFFICES ASSUME NEW a \in Stamps
                 PROVE  /\ a.event \in Nat /\ a.epoch \in Int /\ a.id \in Nat
                        /\ a.event <= last /\ a.epoch <= stream.epoch
                        /\ a.epoch = NextEpoch => a.id < u
        OBVIOUS
    <2>1. a.event \in Nat /\ a.epoch \in Int /\ a.id \in Nat BY <1>4, InboxAssumption DEF VersionType
    <2>2. /\ a.event <= last /\ (a.event = 0 => a.epoch = -1) /\ a.epoch <= stream.epoch
          /\ a.epoch = NextEpoch => a.id <= events[last].id
        BY DEF Order, NoLaterStamp, last
    <2>3. CASE weekQuiet
        <3>1. stream.old BY <2>3 DEF Order, Sequential
        <3> QED BY <1>8, <2>1, <2>2, <3>1
    <2>4. CASE last = 0
        <3>1. a.event = 0 BY <2>1, <2>2, <2>4
        <3> QED BY <1>8, <2>1, <2>2, <3>1
    <2>5. CASE ~weekQuiet /\ last # 0
        <3>1. u = events[last].id + 1 /\ events[last].id \in Nat
            <4>1. last \in 1..last BY <1>2, <2>5
            <4> QED BY <1>2, <1>6, <2>5, <4>1
        <3> QED BY <1>7, <2>1, <2>2, <3>1
    <2> QED BY <2>3, <2>4, <2>5
<1>10. \A m \in live : m \in 1..last /\ events'[m].id = events[m].id /\ events[m].id < u
    <2> SUFFICES ASSUME NEW m \in live
                 PROVE  m \in 1..last /\ events'[m].id = events[m].id /\ events[m].id < u
        OBVIOUS
    <2>1. m \in 1..last /\ events'[m].id = events[m].id BY <1>2, <1>5
    <2>2. ~weekQuiet /\ last # 0 /\ last \in 1..last BY <1>2, <2>1 DEF Order, Sequential
    <2>3. u = events[last].id + 1 BY <1>2, <2>2
    <2>4. events[m].id <= events[last].id BY DEF Order, Sequential, last
    <2> QED BY <1>6, <1>7, <2>1, <2>2, <2>3, <2>4
<1>11. last + 1 \in Nat /\ last < last + 1 BY <1>2
<1>12. Sequential'
    <2>1. \A n \in live' : events'[n].id <= u
        <3>1. \A n \in live : events'[n].id <= u BY <1>6, <1>7, <1>10
        <3> QED BY <1>2, <1>7, <3>1
    <2>2. ASSUME NEW m \in live', NEW n \in live', m < n PROVE events'[m].id < events'[n].id
        <3>1. CASE m \in live /\ n \in live
            BY <1>10, <2>2, <3>1 DEF Order, Sequential
        <3>2. CASE m \in live /\ n = last + 1
            BY <1>2, <1>10, <3>2
        <3>3. CASE m = last + 1
            <4>1. n <= last + 1 BY <1>2, <1>6, <1>10
            <4>2. n \in Nat BY <1>2, <1>6, <1>10
            <4> QED BY <1>11, <2>2, <3>3, <4>1, <4>2
        <3> QED BY <1>2, <3>1, <3>2, <3>3
    <2> QED BY <1>2, <2>1, <2>2 DEF Sequential
<1>13. NoLaterStamp'
    <2> SUFFICES ASSUME NEW a \in Stamps PROVE NoLaterStamp!(a)'
        BY <1>3 DEF NoLaterStamp
    <2>1. a.event = 0 => a.epoch = -1 BY DEF Order, NoLaterStamp
    <2>2. a.event <= last + 1 BY <1>2, <1>9
    <2>3. a.epoch = NextEpoch => a.id <= u BY <1>7, <1>9
    <2> QED BY <1>2, <1>3, <1>9, <2>1, <2>2, <2>3
<1>14. LiveInOrder'
    <2> SUFFICES ASSUME NEW a \in Stamps, NEW m \in live'
                 PROVE  /\ a.event < m => Before(a.epoch, a.id, NextEpoch, events'[m].id)
                        /\ a.event > m => ~stream.old /\ a.epoch = stream.epoch /\ events'[m].id < a.id
        BY <1>2, <1>3 DEF LiveInOrder, Before
    <2>1. CASE m \in live
        BY <1>10, <2>1 DEF Order, LiveInOrder
    <2>2. CASE m = last + 1
        <3>1. Before(a.epoch, a.id, NextEpoch, u)
            BY <1>8, <1>9 DEF Before
        <3>2. ~(a.event > last + 1) BY <1>2, <1>9
        <3> QED BY <1>2, <2>2, <3>1, <3>2
    <2> QED BY <1>2, <2>1, <2>2
<1>15. StampsInOrder' BY <1>3 DEF Order, StampsInOrder
<1>16. VersionsKept'
    <2> SUFFICES ASSUME NEW d \in Chats, NEW s \in Settings
                 PROVE  versions[d][s] \in RowStamps \/ \A n \in live' : versions[d][s].event < n
        BY <1>2, <1>3 DEF VersionsKept
    <2>1. versions[d][s] \in Stamps BY <1>1, StampTypes
    <2>2. versions[d][s].event < last + 1 BY <1>2, <1>9, <2>1
    <2> QED BY <1>2, <2>2 DEF Order, VersionsKept
<1> QED BY <1>12, <1>13, <1>14, <1>15, <1>16 DEF Order

\* After the bot's week without updates a new epoch starts: what Telegram still redelivers
\* is later than every stamp.
LEMMA OrderWeek ==
    ASSUME IInv, Order, DeliveryLag = FALSE,
           NEW whose \in {{"telegram"}, {"bot"}, {"telegram", "bot"}}, WeekWithoutUpdates(whose)
    PROVE  Order'
<1>1. Types BY DEF IInv
<1>2. /\ weekQuiet' = (weekQuiet \/ "telegram" \in whose)
      /\ "telegram" \in whose => live' = {}
      /\ "telegram" \notin whose => live' = {n \in live : \A u \in Retained : rows[u].event < n}
      /\ live' \subseteq live
      /\ stream'.epoch = stream.epoch /\ stream \in [epoch : 0..MaxWeeks, old : BOOLEAN]
      /\ stream'.old = TRUE
      /\ UNCHANGED <<events, versions, rows>>
    BY <1>1, WeekFacts
<1>3. NextEpoch' = stream.epoch + 1 /\ stream.epoch \in Nat
    BY <1>2, InboxAssumption DEF NextEpoch
<1>4. Stamps' = Stamps /\ RowStamps' = RowStamps
    BY <1>2 DEF Stamps, RowStamps, Retained, StampOf
<1>5. Stamps \subseteq VersionType BY <1>1, StampTypes
<1>6. \A a \in Stamps : /\ a.event <= Len(events) /\ (a.event = 0 => a.epoch = -1)
                        /\ a.epoch <= stream.epoch /\ a.epoch \in Int /\ a.event \in Nat
    <2>1. \A a \in Stamps : a.epoch \in Int /\ a.event \in Nat BY <1>5, InboxAssumption DEF VersionType
    <2> QED BY <2>1 DEF Order, NoLaterStamp
<1>7. Sequential'
    <2>1. weekQuiet' => live' = {} BY <1>1, <1>2 DEF Order, Sequential
    <2> QED BY <1>2, <2>1 DEF Order, Sequential
<1>8. NoLaterStamp'
    <2>1. \A a \in Stamps : a.epoch # NextEpoch' BY <1>3, <1>6
    <2> QED BY <1>2, <1>4, <1>6, <2>1 DEF NoLaterStamp
<1>9. ASSUME NEW a \in Stamps, NEW n \in live' PROVE a.event < n
    <2>1. n \in live /\ \A u \in Retained : rows[u].event < n
        BY <1>2, <1>9
    <2>2. \A b \in RowStamps : b.event < n
        <3> SUFFICES ASSUME NEW u \in Retained PROVE StampOf(u).event < n
            BY DEF RowStamps
        <3> QED BY <2>1, StampFields
    <2>3. ASSUME NEW d \in Chats, NEW s \in Settings PROVE versions[d][s].event < n
        BY <2>1, <2>2 DEF Order, VersionsKept
    <2> QED BY <2>2, <2>3 DEF Stamps
<1>10. LiveInOrder'
    <2> SUFFICES ASSUME NEW a \in Stamps, NEW n \in live'
                 PROVE  /\ Before(a.epoch, a.id, NextEpoch', events[n].id)
                        /\ ~(a.event > n)
        BY <1>2, <1>4 DEF LiveInOrder, Before
    <2>1. a.event < n BY <1>9
    <2>2. n \in Nat
        <3>1. n \in live /\ live \subseteq 1..Len(events) BY <1>1, <1>2 DEF Types, TypeOK
        <3> QED BY <3>1
    <2> QED BY <1>3, <1>6, <2>1, <2>2 DEF Before
<1>11. StampsInOrder' BY <1>4 DEF Order, StampsInOrder
<1>12. VersionsKept' BY <1>2, <1>4 DEF Order, VersionsKept
<1> QED BY <1>7, <1>8, <1>10, <1>11, <1>12 DEF Order

-----------------------------------------------------------------------------
(* The decisions *)

\* Events are only added.
EventsKept == /\ Len(events) \in Nat /\ Len(events') \in Nat /\ Len(events) <= Len(events')
              /\ \A n \in 1..Len(events) : events'[n] = events[n]

\* The setting of a command.
LEMMA SettingFacts ==
    ASSUME NEW cmd \in Commands
    PROVE  /\ MutationSetting(cmd) \in Settings \cup {"none"}
           /\ MutationSetting(cmd) = "subscription" <=> cmd \in {"subscribe", "unsubscribe"}
           /\ MutationSetting(cmd) = "interval" <=> cmd = "interval"
           /\ MutationSetting(cmd) = "language" <=> cmd = "language"
BY DEF MutationSetting, Settings

\* Versions are those of events that happened.
LEMMA VersionFacts ==
    ASSUME Types, Order, NEW c \in Chats, NEW s \in Settings
    PROVE  /\ versions[c][s] \in VersionType /\ versions[c][s] \in Stamps
           /\ versions[c][s].event \in Nat /\ versions[c][s].event <= Len(events)
<1>1. versions[c][s] \in VersionType /\ versions[c][s] \in Stamps
    BY StampTypes
<1> QED BY <1>1, InboxAssumption DEF Order, NoLaterStamp, VersionType

\* What was in force stays so when nothing is committed.
LEMMA ForceFrame ==
    ASSUME Types, Order, VersionsMatch, ClosedHeld, EventsKept, UNCHANGED <<versions, settings, closed>>
    PROVE  VersionsMatch' /\ ClosedHeld'
<1>1. VersionsMatch'
    <2>1. ASSUME NEW c \in Chats, NEW s \in Settings, versions[c][s].event # 0
          PROVE  MutationSetting(events'[versions[c][s].event].cmd) = s
        <3>1. versions[c][s].event \in 1..Len(events) BY <2>1, VersionFacts DEF EventsKept
        <3>2. MutationSetting(events[versions[c][s].event].cmd) = s BY <2>1 DEF VersionsMatch
        <3> QED BY <3>1, <3>2 DEF EventsKept
    <2> QED BY <2>1 DEF VersionsMatch
<1>2. ClosedHeld'
    <2> SUFFICES ASSUME NEW n \in closed PROVE n <= Len(events') /\ Held(n)'
        BY DEF ClosedHeld
    <2>1. n <= Len(events) /\ Held(n) BY DEF ClosedHeld
    <2>2. n \in Nat /\ n >= 1 BY DEF Types, TypeOK
    <2>3. n \in 1..Len(events) BY <2>1, <2>2 DEF EventsKept
    <2> QED BY <2>1, <2>2, <2>3 DEF EventsKept, Held
<1> QED BY <1>1, <1>2

\* A decision outlives the steps of others that commit nothing.
LEMMA DecidedFrame ==
    ASSUME IInv, NEW w \in Workers, workers[w].pc \in {"allowed", "processing"}, DecidedBy(w), EventsKept,
           workers'[w].event = workers[w].event, workers'[w].apply = workers[w].apply,
           UNCHANGED versions, losses' = 0 => losses = 0,
           \A c \in Chats, s \in Settings : versionLock[c][s] = w => versionLock'[c][s] = w
    PROVE  DecidedBy(w)'
<1> DEFINE n == workers[w].event
<1>1. /\ n \in 1..Len(events) /\ EventOf(w) = events[n] /\ EventOf(w) \in EventType /\ ChatOf(w) \in Chats
      /\ ChatOf(w) = EventOf(w).chat
    BY WorkerFacts DEF IInv
<1>2. /\ workers'[w].event = n /\ workers'[w].apply = workers[w].apply
      /\ n \in 1..Len(events) /\ events'[n] = events[n]
    BY <1>1 DEF EventsKept
<1>3. EventOf(w)' = EventOf(w) /\ ChatOf(w)' = ChatOf(w) BY <1>1, <1>2 DEF EventOf, ChatOf
<1>4. ~workers[w].apply => Held(workers[w].event)'
    <2>1. PICK m \in 1..Len(events) : m = n BY <1>1
    <2>2. ~workers[w].apply => Held(m) BY <2>1 DEF DecidedBy
    <2>3. events'[m] = events[m] BY <1>2, <2>1
    <2>4. Held(m) => Held(m)' BY <2>3 DEF Held
    <2>5. workers'[w].event = m BY <1>2, <2>1
    <2>6. Held(m)' => Held(workers[w].event)' BY <2>5 DEF Held
    <2> QED BY <2>2, <2>4, <2>6
<1>5. MutationSetting(EventOf(w).cmd) \in Settings \cup {"none"} BY <1>1, SettingFacts DEF EventType
<1> HIDE DEF n
<1>6. /\ workers[w].apply /\ MutationSetting(EventOf(w).cmd) # "none"
         => versionLock[ChatOf(w)][MutationSetting(EventOf(w).cmd)] = w
            /\ versions[ChatOf(w)][MutationSetting(EventOf(w).cmd)].event <= n
      /\ ~workers[w].apply => Held(n)
      /\ workers[w].apply /\ MutationSetting(EventOf(w).cmd) = "interval" /\ losses = 0
         => versions[ChatOf(w)]["subscription"].event < n
    BY DEF DecidedBy, n
<1> QED BY <1>1, <1>2, <1>3, <1>4, <1>5, <1>6 DEF DecidedBy

\* What is left of the invariant.
InForce == VersionsMatch /\ Decided /\ Locked /\ ClosedHeld

\* Steps that commit nothing, given the locks and the decision of a worker that took it.
LEMMA ForceLocal ==
    ASSUME IInv, Order, InForce, EventsKept, UNCHANGED <<versions, settings, closed>>,
           losses' = 0 => losses = 0, Locked',
           \A w \in Workers : workers'[w].pc \in {"allowed", "processing"} =>
              \/ DecidedBy(w)'
              \/ /\ workers[w].pc \in {"allowed", "processing"}
                 /\ workers'[w].event = workers[w].event /\ workers'[w].apply = workers[w].apply
                 /\ \A c \in Chats, s \in Settings : versionLock[c][s] = w => versionLock'[c][s] = w
    PROVE  InForce'
<1>1. Types BY DEF IInv
<1>2. VersionsMatch' /\ ClosedHeld' BY <1>1, ForceFrame DEF InForce
<1>3. Decided'
    <2> SUFFICES ASSUME NEW w \in Workers, workers'[w].pc \in {"allowed", "processing"}
                 PROVE  DecidedBy(w)'
        BY DEF Decided
    <2>1. CASE DecidedBy(w)' BY <2>1
    <2>2. CASE /\ workers[w].pc \in {"allowed", "processing"}
               /\ workers'[w].event = workers[w].event /\ workers'[w].apply = workers[w].apply
               /\ \A c \in Chats, s \in Settings : versionLock[c][s] = w => versionLock'[c][s] = w
        <3>1. DecidedBy(w) BY <2>2 DEF InForce, Decided
        <3> QED BY <2>2, <3>1, DecidedFrame
    <2> QED BY <2>1, <2>2
<1> QED BY <1>2, <1>3 DEF InForce

\* Chat locks stay with those who work under them.
LEMMA LockedFrame ==
    ASSUME IInv, Locked, EventsKept, losses' = 0 => losses = 0,
           \A w \in Workers : workers'[w].pc \in {"locked", "allowed", "processing"} =>
              \/ workers'[w].event \in 1..Len(events) /\ chatLock'[events[workers'[w].event].chat] = w
              \/ /\ workers[w].pc \in {"locked", "allowed", "processing"} /\ workers'[w].event = workers[w].event
                 /\ chatLock[ChatOf(w)] = w => chatLock'[ChatOf(w)] = w
    PROVE  Locked'
<1> SUFFICES ASSUME losses' = 0, NEW w \in Workers, workers'[w].pc \in {"locked", "allowed", "processing"}
             PROVE  chatLock'[ChatOf(w)'] = w
    BY DEF Locked
<1>1. CASE workers'[w].event \in 1..Len(events) /\ chatLock'[events[workers'[w].event].chat] = w
    BY <1>1 DEF ChatOf, EventOf, EventsKept
<1>2. CASE /\ workers[w].pc \in {"locked", "allowed", "processing"} /\ workers'[w].event = workers[w].event
           /\ chatLock[ChatOf(w)] = w => chatLock'[ChatOf(w)] = w
    <2>1. workers[w].event \in 1..Len(events) BY <1>2, WorkerFacts DEF IInv
    <2>2. chatLock[ChatOf(w)] = w BY <1>2 DEF Locked
    <2>3. ChatOf(w)' = ChatOf(w) BY <1>2, <2>1 DEF ChatOf, EventOf, EventsKept
    <2> QED BY <1>2, <2>2, <2>3
<1> QED BY <1>1, <1>2

-----------------------------------------------------------------------------
(* The steps of a transaction *)

\* The order of the stamps is the order of the events.
LEMMA StampOrder ==
    ASSUME Types, Order, NEW a \in Stamps, NEW b \in Stamps
    PROVE  /\ Precedes(a, b) => a.event <= b.event
           /\ ~Precedes(a, b) => b.event <= a.event
<1>1. /\ a.event \in Nat /\ a.epoch \in Int /\ a.id \in Nat
      /\ b.event \in Nat /\ b.epoch \in Int /\ b.id \in Nat
    BY StampTypes, InboxAssumption DEF VersionType
<1>2. a.event < b.event => Precedes(a, b) BY DEF Order, StampsInOrder
<1>3. b.event < a.event => Precedes(b, a) BY DEF Order, StampsInOrder
<1>4. ~(Precedes(a, b) /\ Precedes(b, a)) BY <1>1 DEF Precedes, Before
<1> QED BY <1>1, <1>2, <1>3, <1>4

\* allowTelegramMutation decides by the order in which the users acted.
LEMMA AllowDecides ==
    ASSUME IInv, Order, InForce, NEW w \in Workers, AllowTelegramMutation(w)
    PROVE  /\ DecidedBy(w)' /\ \A x \in Workers : x # w => workers'[x] = workers[x]
           /\ workers'[w].event = workers[w].event
           /\ \A c \in Chats, s \in Settings, x \in Workers :
                 versionLock[c][s] = x => versionLock'[c][s] = x
<1>1. Types /\ workers[w].pc = "locked" BY DEF IInv, AllowTelegramMutation
<1>2. /\ workers[w].event \in 1..Len(events) /\ EventOf(w) = events[workers[w].event]
      /\ EventOf(w) \in EventType /\ ChatOf(w) = EventOf(w).chat
      /\ workers[w].id \in UpdateIds /\ rows[workers[w].id].status # "absent"
      /\ rows[workers[w].id].event = workers[w].event /\ rows[workers[w].id].epoch = workers[w].epoch
    BY <1>1, WorkerFacts DEF IInv
<1>3. PICK n \in 1..Len(events), c \in Chats, cmd \in Commands, s \in Settings \cup {"none"} :
          /\ workers[w].event = n /\ EventOf(w) = events[n] /\ ChatOf(w) = c /\ events[n].chat = c
          /\ events[n].cmd = cmd /\ EventOf(w).cmd = cmd /\ MutationSetting(cmd) = s
    BY <1>2, SettingFacts DEF EventType
<1>4. s = "interval" <=> cmd = "interval" BY <1>3, SettingFacts
<1>5. PICK st \in Stamps : st.event = n /\ st.epoch = workers[w].epoch /\ st.id = workers[w].id
    <2>1. StampOf(workers[w].id) \in Stamps BY <1>1, <1>2, StampTypes DEF Stamps
    <2> QED BY <1>2, <1>3, <2>1, StampFields
<1>6. n \in Nat /\ n # 0 OBVIOUS
<1>7. PICK sub \in Stamps : sub = versions[c]["subscription"] /\ sub.event \in Nat
    <2>1. "subscription" \in Settings BY DEF Settings
    <2> QED BY <1>1, <2>1, VersionFacts
<1>8. cmd = "interval" => sub.event # n
    <2>1. sub.event # 0 => MutationSetting(events[sub.event].cmd) = "subscription"
        BY <1>7 DEF InForce, VersionsMatch, Settings
    <2>2. s = "interval" => sub.event # n
        BY <1>3, <1>6, <2>1
    <2> QED BY <1>4, <2>2
<1>9. Superseded(w) <=> cmd = "interval" /\ Precedes(st, sub)
    BY <1>3, <1>5, <1>7 DEF Superseded, Precedes
<1>10. /\ Precedes(st, sub) => n <= sub.event
       /\ ~Precedes(st, sub) => sub.event <= n
    BY <1>1, <1>5, StampOrder
<1>11. Superseded(w) => s = "interval" /\ sub.event > n
    BY <1>4, <1>6, <1>7, <1>8, <1>9, <1>10
<1>12. ~Superseded(w) /\ s = "interval" => sub.event < n
    BY <1>4, <1>6, <1>7, <1>8, <1>9, <1>10
<1>13. s # "none" => /\ Newer(w, s) => versions[c][s].event <= n
                     /\ ~Newer(w, s) => versions[c][s].event >= n
    <2> SUFFICES ASSUME s # "none"
                 PROVE  /\ Newer(w, s) => versions[c][s].event <= n
                        /\ ~Newer(w, s) => versions[c][s].event >= n
        OBVIOUS
    <2>1. PICK v \in Stamps : v = versions[c][s] /\ v.event \in Nat BY <1>1, VersionFacts
    <2>2. Newer(w, s) <=> Precedes(v, st)
        BY <1>3, <1>5, <2>1 DEF Newer, Precedes
    <2>3. /\ Precedes(v, st) => v.event <= n
          /\ ~Precedes(v, st) => n <= v.event
        BY <1>1, <1>5, StampOrder
    <2> QED BY <1>6, <2>1, <2>2, <2>3
<1>14. Newer(w, s) \in BOOLEAN BY DEF Newer, Before
<1>15. PICK apply \in BOOLEAN :
          /\ Allow(w, apply)
          /\ s = "none" \/ Superseded(w) => apply = (s = "none") /\ versionLock' = versionLock
          /\ ~(s = "none" \/ Superseded(w)) =>
                /\ apply = Newer(w, s) /\ versionLock[c][s] = "free"
                /\ versionLock' = [versionLock EXCEPT ![c][s] = w]
    <2>1. CASE s = "none" \/ Superseded(w)
        <3>1. Allow(w, s = "none") /\ versionLock' = versionLock
            BY <1>3, <2>1 DEF AllowTelegramMutation
        <3>2. (s = "none") \in BOOLEAN OBVIOUS
        <3> QED BY <2>1, <3>1, <3>2
    <2>2. CASE ~(s = "none" \/ Superseded(w))
        <3>1. /\ Allow(w, Newer(w, s))
              /\ versionLock[c][s] = "free" /\ versionLock' = [versionLock EXCEPT ![c][s] = w]
            BY <1>3, <2>2 DEF AllowTelegramMutation
        <3> QED BY <1>14, <2>2, <3>1
    <2> QED BY <2>1, <2>2
<1>16. /\ workers'[w].event = n /\ workers'[w].apply = apply
       /\ \A x \in Workers : x # w => workers'[x] = workers[x]
    BY <1>1, <1>3, <1>15, AllowFrame
<1>17. UNCHANGED <<events, versions, losses>> BY DEF AllowTelegramMutation, telegram, database
<1>18. versionLock \in [Chats -> [Settings -> Workers \cup {"free"}]] BY <1>1, LockTypes
<1>19. \A d \in Chats, t \in Settings, x \in Workers : versionLock[d][t] = x => versionLock'[d][t] = x
    <2>1. CASE versionLock' = versionLock BY <2>1
    <2>2. CASE versionLock[c][s] = "free" /\ s \in Settings /\ versionLock' = [versionLock EXCEPT ![c][s] = w]
        BY <1>18, <2>2, InboxWorkersAssumption
    <2> QED BY <1>15, <2>1, <2>2
<1>20. ~(s = "none" \/ Superseded(w)) => versionLock'[c][s] = w
    BY <1>15, <1>18
<1>21. EventOf(w)' = events[n] /\ ChatOf(w)' = c
    BY <1>3, <1>16, <1>17 DEF EventOf, ChatOf
<1>22. ~apply => Held(n)
    <2>1. CASE Superseded(w) BY <1>3, <1>7, <1>11, <2>1 DEF Held
    <2>2. CASE ~Superseded(w) BY <1>3, <1>13, <1>15, <2>2 DEF Held
    <2> QED BY <2>1, <2>2
<1>23. Held(n) => Held(workers[w].event)' BY <1>16, <1>17 DEF Held
<1>24. /\ apply /\ s # "none" => versionLock'[c][s] = w /\ versions[c][s].event <= n
       /\ apply /\ s = "interval" => sub.event < n
    <2>1. apply /\ s # "none" => ~Superseded(w) /\ Newer(w, s) BY <1>15
    <2> QED BY <1>12, <1>13, <1>20, <2>1
<1>25. DecidedBy(w)'
    BY <1>3, <1>7, <1>16, <1>17, <1>21, <1>22, <1>23, <1>24 DEF DecidedBy
<1> QED BY <1>3, <1>16, <1>19, <1>25

\* The setting that a mutation writes, and those it leaves alone.
LEMMA SettingsFacts ==
    ASSUME Types, NEW w \in Workers, ChatOf(w) \in Chats, EventOf(w).cmd \in Commands
    PROVE  LET old == settings[ChatOf(w)]
               new == SettingsAfter(w)
               s == MutationSetting(EventOf(w).cmd)
           IN /\ new["subscription"] = IF s = "subscription" THEN workers[w].event ELSE old["subscription"]
              /\ new["language"] = IF s = "language" THEN workers[w].event
                                   ELSE IF EventOf(w).cmd = "subscribe" THEN workers[w].lang
                                   ELSE old["language"]
              /\ new["interval"] # old["interval"] => s = "interval" /\ new["interval"] = workers[w].event
<1>1. settings[ChatOf(w)] \in SettingsType BY DEF Types
<1> QED BY <1>1, SettingFacts DEF SettingsAfter, SettingsType

\* What held n holds it after versions of later mutations are written.
LEMMA HeldMonotone ==
    ASSUME NEW n, UNCHANGED events, events[n].chat \in Chats, events[n].cmd \in Commands,
           \A c \in Chats, s \in Settings : /\ versions[c][s].event \in Nat /\ versions'[c][s].event \in Nat
                                            /\ versions[c][s].event <= versions'[c][s].event,
           n \in Nat, Held(n)
    PROVE  Held(n)'
<1> DEFINE c == events[n].chat
           s == MutationSetting(events[n].cmd)
<1>1. events'[n] = events[n] OBVIOUS
<1>2. s \in Settings \cup {"none"} BY SettingFacts
<1>3. s = "none" \/ versions[c][s].event >= n \/ (s = "interval" /\ versions[c]["subscription"].event > n)
    BY DEF Held
<1> HIDE DEF c, s
<1>4. s # "none" /\ versions[c][s].event >= n => versions'[c][s].event >= n
    BY <1>2 DEF c
<1>5. versions[c]["subscription"].event > n => versions'[c]["subscription"].event > n
    BY DEF c, Settings
<1>6. s = "none" \/ versions'[c][s].event >= n \/ (s = "interval" /\ versions'[c]["subscription"].event > n)
    BY <1>3, <1>4, <1>5
<1> QED BY <1>1, <1>6 DEF Held, c, s

\* A commit puts the mutation in force and takes no other one away.
LEMMA ForceCommit ==
    ASSUME IInv, Order, InForce, NEW w \in Workers, workers[w].pc = "processing", Owns(w), CommitUpdate(w),
           SameStream, versionLock' = Unlocked(w), UNCHANGED <<chatLock, losses>>,
           \A x \in Workers : x # w => workers'[x] = workers[x],
           workers'[w].pc \notin {"allowed", "processing"}
    PROVE  VersionsMatch' /\ Decided' /\ ClosedHeld'
<1>1. Types BY DEF IInv
<1>2. UNCHANGED events BY DEF SameStream
<1>3. EventsKept
    <2>1. Len(events) \in Nat BY <1>1 DEF Types, TypeOK
    <2> QED BY <1>2, <2>1 DEF EventsKept
<1>4. PICK n \in 1..Len(events), c \in Chats, cmd \in Commands, s \in Settings \cup {"none"} :
          /\ workers[w].event = n /\ EventOf(w) = events[n] /\ ChatOf(w) = c /\ events[n].chat = c
          /\ events[n].cmd = cmd /\ EventOf(w).cmd = cmd /\ MutationSetting(cmd) = s
    <2>1. /\ workers[w].event \in 1..Len(events) /\ EventOf(w) = events[workers[w].event]
          /\ EventOf(w) \in EventType /\ ChatOf(w) = EventOf(w).chat
        BY <1>1, WorkerFacts DEF IInv
    <2> QED BY <2>1, SettingFacts DEF EventType
<1>5. /\ closed' = closed \cup {n}
      /\ ~workers[w].apply => UNCHANGED <<versions, settings>>
      /\ workers[w].apply =>
            /\ settings' = [settings EXCEPT ![c] = SettingsAfter(w)]
            /\ s = "none" => versions' = versions
            /\ s # "none" => versions' = [versions EXCEPT ![c] = [versions[c] EXCEPT
                    ![s] = [epoch |-> workers[w].epoch, id |-> workers[w].id, event |-> n]]]
    BY <1>4, CommitFacts
<1>6. /\ workers[w].apply /\ s # "none" => versionLock[c][s] = w /\ versions[c][s].event <= n
      /\ ~workers[w].apply => Held(n)
    BY <1>4 DEF InForce, Decided, DecidedBy
<1>7. /\ versions \in [Chats -> [Settings -> VersionType]] /\ settings \in [Chats -> SettingsType]
      /\ workers[w].apply \in BOOLEAN /\ n \in Nat
    <2>1. workers \in [Workers -> WorkerType] BY <1>1 DEF Types, TypeOK, WorkerType
    <2>2. workers[w].apply \in BOOLEAN BY <2>1 DEF WorkerType
    <2>3. /\ versions \in [Chats -> [Settings -> VersionType]] /\ settings \in [Chats -> SettingsType]
        BY <1>1 DEF Types, TypeOK, VersionType
    <2>4. n \in Nat OBVIOUS
    <2> QED BY <2>2, <2>3, <2>4
<1>8. \A d \in Chats, t \in Settings : /\ versions[d][t].event \in Nat /\ versions[d][t].event <= Len(events)
                                      /\ versions'[d][t].event = IF workers[w].apply /\ d = c /\ t = s
                                                                 THEN n ELSE versions[d][t].event
    <2>1. \A d \in Chats, t \in Settings : versions[d][t].event \in Nat /\ versions[d][t].event <= Len(events)
        BY <1>1, VersionFacts
    <2>2. \A d \in Chats, t \in Settings : versions'[d][t].event = IF workers[w].apply /\ d = c /\ t = s
                                                                   THEN n ELSE versions[d][t].event
        <3>1. CASE workers[w].apply /\ s # "none"
            <4> DEFINE stamp == [epoch |-> workers[w].epoch, id |-> workers[w].id, event |-> n]
            <4>1. versions' = [versions EXCEPT ![c] = [versions[c] EXCEPT ![s] = stamp]] BY <1>5, <3>1
            <4>2. stamp.event = n OBVIOUS
            <4> HIDE DEF stamp
            <4> QED BY <1>4, <1>7, <3>1, <4>1, <4>2
        <3>2. CASE ~workers[w].apply \/ s = "none"
            <4>1. versions' = versions BY <1>5, <1>7, <3>2
            <4>2. "none" \notin Settings BY DEF Settings
            <4> QED BY <3>2, <4>1, <4>2
        <3> QED BY <1>7, <3>1, <3>2
    <2> QED BY <2>1, <2>2
<1>9. \A d \in Chats, t \in Settings : /\ versions[d][t].event \in Nat /\ versions'[d][t].event \in Nat
                                      /\ versions[d][t].event <= versions'[d][t].event
    <2>1. "none" \notin Settings BY DEF Settings
    <2> QED BY <1>6, <1>7, <1>8, <2>1
<1>10. \A m \in 1..Len(events) : Held(m) => Held(m)'
    <2> SUFFICES ASSUME NEW m \in 1..Len(events), Held(m) PROVE Held(m)'
        OBVIOUS
    <2>1. events[m].chat \in Chats /\ events[m].cmd \in Commands BY <1>1, EventFacts DEF EventType
    <2>2. m \in Nat OBVIOUS
    <2> QED BY <1>2, <1>9, <2>1, <2>2, HeldMonotone
<1>11. VersionsMatch'
    <2>1. ASSUME NEW d \in Chats, NEW t \in Settings, versions'[d][t].event # 0
          PROVE  MutationSetting(events'[versions'[d][t].event].cmd) = t
        <3>1. CASE workers[w].apply /\ d = c /\ t = s
            BY <1>2, <1>4, <1>8, <3>1
        <3>2. CASE ~(workers[w].apply /\ d = c /\ t = s)
            <4>1. versions'[d][t].event = versions[d][t].event BY <1>8, <3>2
            <4> QED BY <1>2, <2>1, <4>1 DEF InForce, VersionsMatch
        <3> QED BY <3>1, <3>2
    <2>2. ASSUME NEW d \in Chats
          PROVE  settings'[d]["subscription"] = versions'[d]["subscription"].event
        <3>1. settings[d]["subscription"] = versions[d]["subscription"].event /\ "subscription" \in Settings
            BY DEF InForce, VersionsMatch, Settings
        <3>2. CASE workers[w].apply /\ d = c
            <4>1. settings'[d] = SettingsAfter(w) BY <1>5, <1>7, <3>2
            <4>2. SettingsAfter(w)["subscription"] = IF s = "subscription" THEN n
                                                     ELSE settings[c]["subscription"]
                BY <1>1, <1>4, SettingsFacts
            <4> QED BY <1>8, <3>1, <3>2, <4>1, <4>2
        <3>3. CASE ~(workers[w].apply /\ d = c)
            <4>1. settings'[d] = settings[d] BY <1>5, <1>7, <3>3
            <4> QED BY <1>8, <3>1, <3>3, <4>1
        <3> QED BY <3>2, <3>3
    <2> QED BY <2>1, <2>2 DEF VersionsMatch
<1>12. ClosedHeld'
    <2>1. Held(n)'
        <3>1. CASE ~workers[w].apply BY <1>6, <1>10, <3>1
        <3>2. CASE workers[w].apply /\ s = "none" BY <1>2, <1>4, <3>2 DEF Held
        <3>3. CASE workers[w].apply /\ s # "none"
            <4>1. versions'[c][s].event = n BY <1>4, <1>8, <3>3
            <4>2. events'[n].chat = c /\ MutationSetting(events'[n].cmd) = s BY <1>2, <1>4
            <4> QED BY <1>7, <4>1, <4>2 DEF Held
        <3> QED BY <1>7, <3>1, <3>2, <3>3
    <2>2. \A m \in closed : m <= Len(events) /\ Held(m)'
        <3> SUFFICES ASSUME NEW m \in closed PROVE m <= Len(events) /\ Held(m)'
            OBVIOUS
        <3>1. m <= Len(events) /\ Held(m) BY DEF InForce, ClosedHeld
        <3>2. m \in 1..Len(events)
            <4>1. m \in 1..MaxEvents BY <1>1 DEF Types, TypeOK
            <4> QED BY <1>3, <3>1, <4>1 DEF EventsKept
        <3> QED BY <1>10, <3>1, <3>2
    <2>3. n <= Len(events) OBVIOUS
    <2> QED BY <1>2, <1>5, <2>1, <2>2, <2>3 DEF ClosedHeld
<1>13. Decided'
    <2> SUFFICES ASSUME NEW x \in Workers, workers'[x].pc \in {"allowed", "processing"}
                 PROVE  DecidedBy(x)'
        BY DEF Decided
    <2>1. x # w /\ workers'[x] = workers[x] /\ workers[x].pc \in {"allowed", "processing"} OBVIOUS
    <2>2. PICK m \in 1..Len(events), d \in Chats, xcmd \in Commands, t \in Settings \cup {"none"} :
              /\ workers[x].event = m /\ EventOf(x) = events[m] /\ ChatOf(x) = d
              /\ EventOf(x).cmd = xcmd /\ MutationSetting(xcmd) = t
        BY <1>1, <2>1, WorkerFacts, SettingFacts DEF EventType, IInv
    <2>3. /\ workers[x].apply /\ t # "none" => versionLock[d][t] = x /\ versions[d][t].event <= m
          /\ ~workers[x].apply => Held(m)
          /\ workers[x].apply /\ t = "interval" /\ losses = 0 => versions[d]["subscription"].event < m
        BY <2>1, <2>2 DEF InForce, Decided, DecidedBy
    <2>4. EventOf(x)' = events[m] /\ ChatOf(x)' = d /\ workers'[x].event = m
        BY <1>2, <2>1, <2>2 DEF EventOf, ChatOf
    <2>5. workers[x].apply /\ t # "none" => versionLock'[d][t] = x /\ versions'[d][t].event <= m
        <3> SUFFICES ASSUME workers[x].apply, t # "none"
                     PROVE  versionLock'[d][t] = x /\ versions'[d][t].event <= m
            OBVIOUS
        <3>1. t \in Settings /\ versionLock[d][t] = x BY <2>2, <2>3
        <3>2. versionLock'[d][t] = x BY <2>1, <3>1 DEF Unlocked
        <3>3. ~(workers[w].apply /\ d = c /\ t = s) BY <1>6, <2>1, <3>1
        <3> QED BY <1>8, <2>3, <3>1, <3>2, <3>3
    <2>6. ~workers[x].apply => Held(workers[x].event)'
        <3>1. ~workers[x].apply => Held(m)' BY <1>10, <2>3
        <3> QED BY <2>4, <3>1 DEF Held
    <2>7. workers[x].apply /\ t = "interval" /\ losses' = 0 => versions'[d]["subscription"].event < m
        <3> SUFFICES ASSUME workers[x].apply, t = "interval", losses = 0
                     PROVE  versions'[d]["subscription"].event < m
            OBVIOUS
        <3>1. chatLock[d] = x /\ chatLock[c] = w BY <1>4, <2>1, <2>2 DEF InForce, Locked
        <3>2. d # c BY <2>1, <3>1
        <3> QED BY <1>8, <2>3, <3>2 DEF Settings
    <2> QED BY <2>1, <2>2, <2>4, <2>5, <2>6, <2>7 DEF DecidedBy
<1> QED BY <1>11, <1>12, <1>13

-----------------------------------------------------------------------------
(* The theorems about the order of the mutations *)

\* Steps outside the transactions keep what is in force.
LEMMA ForceQuiet ==
    ASSUME IInv, Order, InForce, EventsKept,
           UNCHANGED <<versions, settings, closed, workers, chatLock, versionLock, losses>>
    PROVE  InForce'
<1>1. \A w \in Workers : workers'[w].pc \in {"locked", "allowed", "processing"} =>
          /\ workers[w].pc \in {"locked", "allowed", "processing"} /\ workers'[w].event = workers[w].event
          /\ chatLock[ChatOf(w)] = w => chatLock'[ChatOf(w)] = w
    OBVIOUS
<1>2. Locked' BY <1>1, LockedFrame DEF InForce
<1> QED BY <1>2, ForceLocal

\* A step that changes no event.
LEMMA SameEvents ==
    ASSUME Types, UNCHANGED events
    PROVE  EventsKept
<1>1. Len(events) \in Nat BY DEF Types, TypeOK
<1> QED BY <1>1 DEF EventsKept

\* A worker that goes on outside a transaction.
LEMMA ForceGoto ==
    ASSUME IInv, Order, InForce, NEW w \in Workers, UNCHANGED <<events, versions, settings, closed, losses>>,
           workers[w].pc # "idle", workers'[w].pc \notin {"locked", "allowed", "processing"},
           \A x \in Workers : x # w => workers'[x] = workers[x],
           \A c \in Chats, x \in Workers : x # w /\ chatLock[c] = x => chatLock'[c] = x,
           \A c \in Chats, s \in Settings, x \in Workers :
               x # w /\ versionLock[c][s] = x => versionLock'[c][s] = x
    PROVE  InForce'
<1>1. Types BY DEF IInv
<1>2. EventsKept BY <1>1, SameEvents
<1>3. \A x \in Workers : workers'[x].pc \in {"locked", "allowed", "processing"} =>
          /\ x # w /\ workers'[x] = workers[x]
          /\ chatLock[ChatOf(x)] = x => chatLock'[ChatOf(x)] = x
    <2> SUFFICES ASSUME NEW x \in Workers, workers'[x].pc \in {"locked", "allowed", "processing"}
                 PROVE  /\ x # w /\ workers'[x] = workers[x]
                        /\ chatLock[ChatOf(x)] = x => chatLock'[ChatOf(x)] = x
        OBVIOUS
    <2>1. x # w /\ workers'[x] = workers[x] OBVIOUS
    <2>2. ChatOf(x) \in Chats BY <1>1, <2>1, WorkerFacts DEF IInv
    <2> QED BY <2>1, <2>2
<1>4. Locked' BY <1>2, <1>3, LockedFrame DEF InForce
<1> QED BY <1>2, <1>3, <1>4, ForceLocal

\* An update worker keeps the mutations in order and in force, whatever happens to its lock.
LEMMA WorkerForce ==
    ASSUME IInv, Order, InForce, NEW w \in Workers, WorkerStep(w) \/ WorkerFault(w)
    PROVE  Order' /\ InForce'
<1>1. Types BY DEF IInv
<1>2. chatLock \in [Chats -> Workers \cup {"free"}] BY <1>1, LockTypes
<1>3. CASE AcquireTelegramChatLock(w) \/ AcquireTimeout(w) \/ AllowTelegramMutation(w)
               \/ GetLangWithDB(w) \/ ReleaseTelegramChatLock(w) \/ WorkerFault(w)
    <2>1. Local /\ UNCHANGED <<rows, events, versions, settings, closed>>
        BY <1>3, WorkerLocal DEF Local, SameStream
    <2>2. Order' BY <2>1, OrderLocal DEF Local
    <2>3. EventsKept BY <1>1, <2>1, SameEvents
    <2>4. workers[w].pc # "idle" => ChatOf(w) \in Chats BY <1>1, WorkerFacts DEF IInv
    <2>5. CASE AcquireTelegramChatLock(w)
        <3>1. /\ workers[w].pc = "claimed" /\ Goto(w, "locked") /\ chatLock[ChatOf(w)] = "free"
              /\ chatLock' = [chatLock EXCEPT ![ChatOf(w)] = w] /\ UNCHANGED <<versionLock, losses>>
            BY <2>5 DEF AcquireTelegramChatLock
        <3>2. /\ workers'[w] = [workers[w] EXCEPT !.pc = "locked"]
              /\ \A x \in Workers : x # w => workers'[x] = workers[x]
            BY <1>1, <3>1, GotoFrame DEF PcType
        <3>3. /\ workers[w].event \in 1..Len(events) /\ ChatOf(w) = events[workers[w].event].chat
              /\ workers[w] \in WorkerType
            BY <1>1, <3>1, WorkerFacts DEF IInv
        <3>4. workers'[w].event = workers[w].event /\ workers'[w].pc = "locked"
            BY <3>2, <3>3 DEF WorkerType
        <3>5. chatLock'[ChatOf(w)] = w BY <1>2, <2>4, <3>1
        <3>6. \A c \in Chats, x \in Workers : chatLock[c] = x => chatLock'[c] = x
            BY <1>2, <2>4, <3>1, InboxWorkersAssumption
        <3>7. \A x \in Workers : workers'[x].pc \in {"locked", "allowed", "processing"} =>
                 \/ workers'[x].event \in 1..Len(events) /\ chatLock'[events[workers'[x].event].chat] = x
                 \/ /\ workers[x].pc \in {"locked", "allowed", "processing"} /\ workers'[x].event = workers[x].event
                    /\ chatLock[ChatOf(x)] = x => chatLock'[ChatOf(x)] = x
            <4> SUFFICES ASSUME NEW x \in Workers, x # w, workers'[x].pc \in {"locked", "allowed", "processing"}
                         PROVE  /\ workers[x].pc \in {"locked", "allowed", "processing"}
                                /\ workers'[x].event = workers[x].event
                                /\ chatLock[ChatOf(x)] = x => chatLock'[ChatOf(x)] = x
                BY <3>3, <3>4, <3>5
            <4>1. workers'[x] = workers[x] BY <3>2
            <4>2. ChatOf(x) \in Chats BY <1>1, <4>1, WorkerFacts DEF IInv
            <4> QED BY <3>6, <4>1, <4>2
        <3>8. Locked' BY <2>3, <3>1, <3>7, LockedFrame DEF InForce
        <3>9. \A x \in Workers : workers'[x].pc \in {"allowed", "processing"} => workers'[x] = workers[x]
            BY <3>2, <3>4
        <3>10. InForce' BY <2>1, <2>3, <3>1, <3>8, <3>9, ForceLocal
        <3> QED BY <2>2, <3>10
    <2>6. CASE AcquireTimeout(w) \/ MarkError(w)
        <3>1. PICK pc \in {"marking", "releasing"} :
                 workers[w].pc # "idle" /\ Goto(w, pc) /\ UNCHANGED <<chatLock, versionLock, losses>>
            BY <2>6 DEF AcquireTimeout, MarkError
        <3>2. /\ workers'[w] = [workers[w] EXCEPT !.pc = pc]
              /\ \A x \in Workers : x # w => workers'[x] = workers[x]
            BY <1>1, <3>1, GotoFrame DEF PcType
        <3>3. workers[w] \in WorkerType BY <1>1 DEF Types, TypeOK, WorkerType
        <3>4. workers'[w].pc \notin {"locked", "allowed", "processing"} BY <3>2, <3>3 DEF WorkerType
        <3>5. InForce' BY <2>1, <3>1, <3>2, <3>4, ForceGoto
        <3> QED BY <2>2, <3>5
    <2>7. CASE AllowTelegramMutation(w)
        <3>1. /\ DecidedBy(w)' /\ \A x \in Workers : x # w => workers'[x] = workers[x]
              /\ workers'[w].event = workers[w].event
              /\ \A c \in Chats, s \in Settings, x \in Workers :
                    versionLock[c][s] = x => versionLock'[c][s] = x
            BY <2>7, AllowDecides
        <3>2. workers[w].pc = "locked" /\ UNCHANGED <<chatLock, losses>>
            BY <2>7 DEF AllowTelegramMutation
        <3>3. Locked' BY <2>3, <3>1, <3>2, LockedFrame DEF InForce
        <3>4. \A x \in Workers : workers'[x].pc \in {"allowed", "processing"}
                                   => DecidedBy(x)' \/ workers'[x] = workers[x]
            BY <3>1
        <3>5. InForce' BY <2>1, <2>3, <3>1, <3>2, <3>3, <3>4, ForceLocal
        <3> QED BY <2>2, <3>5
    <2>8. CASE ReleaseTelegramChatLock(w) \/ Crash(w)
        <3>1. /\ workers[w].pc # "idle" /\ workers' = [workers EXCEPT ![w] = IdleWorker]
              /\ chatLock' = IF chatLock[ChatOf(w)] = w THEN [chatLock EXCEPT ![ChatOf(w)] = "free"] ELSE chatLock
              /\ versionLock' = versionLock \/ versionLock' = Unlocked(w)
              /\ UNCHANGED losses
            BY <2>8 DEF ReleaseTelegramChatLock, Crash
        <3>2. /\ workers'[w].pc = "idle" /\ \A x \in Workers : x # w => workers'[x] = workers[x]
            BY <1>1, <3>1, IdleFrame
        <3>3. \A c \in Chats, x \in Workers : x # w /\ chatLock[c] = x => chatLock'[c] = x
            BY <1>2, <2>4, <3>1
        <3>4. \A c \in Chats, s \in Settings, x \in Workers :
                 x # w /\ versionLock[c][s] = x => versionLock'[c][s] = x
            BY <3>1 DEF Unlocked
        <3>5. InForce' BY <2>1, <3>1, <3>2, <3>3, <3>4, ForceGoto
        <3> QED BY <2>2, <3>5
    <2>9. CASE LoseLockSession(w)
        <3>1. UNCHANGED <<versionLock, workers>> /\ losses' = losses + 1 /\ losses' # 0
            BY <1>1, <2>9 DEF LoseLockSession, Types
        <3>2. Locked' BY <3>1 DEF Locked
        <3>3. InForce' BY <2>1, <2>3, <3>1, <3>2, ForceLocal
        <3> QED BY <2>2, <3>3
    <2>10. CASE GetLangWithDB(w)
        <3>1. workers[w].pc = "allowed" /\ UNCHANGED <<chatLock, versionLock, losses>>
            BY <2>10 DEF GetLangWithDB
        <3>2. /\ workers'[w].event = workers[w].event /\ workers'[w].apply = workers[w].apply
              /\ \A x \in Workers : x # w => workers'[x] = workers[x]
            BY <2>10, GetLangFrame
        <3>3. Locked' BY <2>3, <3>1, <3>2, LockedFrame DEF InForce
        <3>4. InForce' BY <2>1, <2>3, <3>1, <3>2, <3>3, ForceLocal
        <3> QED BY <2>2, <3>4
    <2> QED BY <1>3, <2>5, <2>6, <2>7, <2>8, <2>9, <2>10 DEF WorkerFault
<1>4. CASE MarkTelegramUpdate(w)
    <2>1. Local /\ UNCHANGED <<chatLock, versionLock, losses>> /\ Goto(w, "releasing") /\ workers[w].pc # "idle"
        BY <1>4, MarkLocal DEF MarkTelegramUpdate
    <2>2. UNCHANGED <<events, versions, settings, closed>> BY <2>1 DEF Local, SameStream
    <2>3. Order' BY <2>1, <2>2, OrderLocal DEF Local
    <2>4. /\ workers'[w] = [workers[w] EXCEPT !.pc = "releasing"]
          /\ \A x \in Workers : x # w => workers'[x] = workers[x]
        BY <1>1, <2>1, GotoFrame DEF PcType
    <2>5. workers[w] \in WorkerType BY <1>1 DEF Types, TypeOK, WorkerType
    <2>6. workers'[w].pc \notin {"locked", "allowed", "processing"} BY <2>4, <2>5 DEF WorkerType
    <2>7. InForce' BY <2>1, <2>2, <2>4, <2>6, ForceGoto
    <2> QED BY <2>3, <2>7
<1>5. ASSUME NEW answer \in {"ok", "error", "lost"}, ProcessTelegramUpdate(w, answer)
      PROVE  Order' /\ InForce'
    <2>1. /\ workers[w].pc = "processing" /\ versionLock' = Unlocked(w)
          /\ Goto(w, "releasing") \/ Goto(w, "marking")
          /\ SameStream /\ UNCHANGED <<chatLock, losses>>
        BY <1>5, ProcessFacts
    <2>2. PICK pc \in {"releasing", "marking"} : Goto(w, pc) BY <2>1
    <2>3. /\ workers'[w] = [workers[w] EXCEPT !.pc = pc]
          /\ \A x \in Workers : x # w => workers'[x] = workers[x]
        BY <1>1, <2>1, <2>2, GotoFrame DEF PcType
    <2>4. workers[w] \in WorkerType BY <1>1 DEF Types, TypeOK, WorkerType
    <2>5. workers'[w].pc \notin {"locked", "allowed", "processing"} BY <2>3, <2>4 DEF WorkerType
    <2>6. \A c \in Chats, s \in Settings, x \in Workers :
             x # w /\ versionLock[c][s] = x => versionLock'[c][s] = x
        BY <2>1 DEF Unlocked
    <2>7. UNCHANGED events BY <2>1 DEF SameStream
    <2>8. CASE UNCHANGED <<rows, versions, settings, effects, closed>>
        <3>1. SameRows BY <1>1, <2>8, SameRowsFrame
        <3>2. Order' BY <2>1, <2>8, <3>1, OrderLocal
        <3>3. InForce' BY <2>1, <2>3, <2>5, <2>6, <2>7, <2>8, ForceGoto
        <3> QED BY <3>2, <3>3
    <2>9. CASE Owns(w) /\ CommitUpdate(w)
        <3>1. Order' BY <2>1, <2>9, OrderCommit
        <3>2. VersionsMatch' /\ Decided' /\ ClosedHeld'
            BY <2>1, <2>3, <2>5, <2>9, ForceCommit
        <3>3. \A x \in Workers : workers'[x].pc \in {"locked", "allowed", "processing"} => workers'[x] = workers[x]
            BY <2>3, <2>5
        <3>4. EventsKept BY <1>1, <2>7, SameEvents
        <3>5. Locked' BY <2>1, <3>3, <3>4, LockedFrame DEF InForce
        <3> QED BY <3>1, <3>2, <3>5 DEF InForce
    <2> QED BY <1>5, <2>8, <2>9, ProcessFacts
<1> QED BY <1>3, <1>4, <1>5 DEF WorkerStep

\* Nothing is out of order in an empty inbox.
LEMMA InitOInv == Init => OInv
<1> SUFFICES ASSUME Init PROVE OInv
    OBVIOUS
<1>1. IInv BY InitIInv
<1>2. /\ events = <<>> /\ live = {} /\ weekQuiet = FALSE /\ stream = [epoch |-> 0, old |-> FALSE]
      /\ closed = {}
    BY DEF Init
<1>3. \A c \in Chats, s \in Settings : versions[c][s] = NoVersion BY DEF Init
<1>4. RowStamps = {}
    <2>1. Retained = {} BY DEF Init, Retained, AbsentRow
    <2> QED BY <2>1 DEF RowStamps
<1>5. \A a \in Stamps : a.event = 0 /\ a.epoch = -1 BY <1>3, <1>4 DEF Stamps, NoVersion
<1>6. Len(events) = 0 BY <1>2
<1>7. Sequential BY <1>2 DEF Sequential
<1>8. NoLaterStamp BY <1>2, <1>5, <1>6 DEF NoLaterStamp, NextEpoch
<1>9. LiveInOrder BY <1>2 DEF LiveInOrder
<1>10. StampsInOrder BY <1>5 DEF StampsInOrder
<1>11. VersionsKept BY <1>2 DEF VersionsKept
<1>12. VersionsMatch BY <1>3 DEF Init, VersionsMatch, NoVersion, Settings
<1>13. Decided /\ Locked BY DEF Init, Decided, Locked, IdleWorker
<1>14. ClosedHeld BY <1>2 DEF ClosedHeld
<1> QED BY <1>1, <1>7, <1>8, <1>9, <1>10, <1>11, <1>12, <1>13, <1>14 DEF OInv

\* Every step keeps the order of the mutations if the two weeks end together.
LEMMA NextOInv == DeliveryLag = FALSE => (OInv /\ [Next]_vars => OInv')
<1> SUFFICES ASSUME DeliveryLag = FALSE, OInv, [Next]_vars PROVE OInv'
    OBVIOUS
<1>1. IInv /\ Order /\ InForce BY DEF OInv, Order, InForce
<1>2. IInv' BY <1>1, NextIInv
<1>3. Types BY <1>1 DEF IInv
<1> SUFFICES Order' /\ InForce'
    BY <1>2 DEF OInv, Order, InForce
<1>4. ASSUME NEW u \in UpdateIds, NEW c \in Chats, NEW cmd \in Commands, UserActs(u, c, cmd)
      PROVE  Order' /\ InForce'
    <2>1. /\ Len(events) \in Nat /\ Len(events') = Len(events) + 1
          /\ \A n \in 1..Len(events) : events'[n] = events[n]
          /\ UNCHANGED <<versions, settings, closed, workers, chatLock, versionLock, losses>>
        BY <1>3, <1>4, UserFacts
    <2>2. EventsKept BY <2>1 DEF EventsKept
    <2>3. Order' BY <1>1, <1>4, OrderUser
    <2> QED BY <1>1, <2>1, <2>2, <2>3, ForceQuiet
<1>5. ASSUME NEW whose \in {{"telegram"}, {"bot"}, {"telegram", "bot"}}, WeekWithoutUpdates(whose)
      PROVE  Order' /\ InForce'
    <2>1. UNCHANGED <<events, versions, settings, closed, workers, chatLock, versionLock, losses>>
        BY <1>3, <1>5, WeekFacts
    <2>2. EventsKept BY <1>3, <2>1, SameEvents
    <2>3. Order' BY <1>1, <1>5, OrderWeek
    <2> QED BY <1>1, <2>1, <2>2, <2>3, ForceQuiet
<1>6. ASSUME NEW n \in 1..Len(events), SaveTelegramUpdate(n) PROVE Order' /\ InForce'
    <2>1. UNCHANGED <<events, versions, settings, closed, workers, chatLock, versionLock, losses>>
        BY <1>1, <1>6, SaveFacts
    <2>2. EventsKept BY <1>3, <2>1, SameEvents
    <2>3. Order' BY <1>1, <1>6, OrderSave
    <2> QED BY <1>1, <2>1, <2>2, <2>3, ForceQuiet
<1>7. ASSUME NEW w \in Workers, NEW u \in UpdateIds, ClaimPendingTelegramUpdate(w, u)
      PROVE  Order' /\ InForce'
    <2>1. /\ SameRows /\ SameStream /\ workers'[w].pc = "claimed" /\ workers[w].pc = "idle"
          /\ \A x \in Workers : x # w => workers'[x] = workers[x]
          /\ UNCHANGED <<versions, settings, closed, chatLock, versionLock, losses>>
        BY <1>1, <1>7, ClaimFacts
    <2>2. EventsKept BY <1>3, <2>1, SameEvents DEF SameStream
    <2>3. Order' BY <1>1, <2>1, OrderLocal
    <2>4. \A x \in Workers : workers'[x].pc \in {"locked", "allowed", "processing"} => workers'[x] = workers[x]
        BY <2>1
    <2>5. Locked' BY <1>1, <2>1, <2>2, <2>4, LockedFrame DEF InForce
    <2>6. InForce' BY <1>1, <2>1, <2>2, <2>4, <2>5, ForceLocal
    <2> QED BY <2>3, <2>6
<1>8. ASSUME NEW w \in Workers, WorkerStep(w) \/ WorkerFault(w) PROVE Order' /\ InForce'
    BY <1>1, <1>8, WorkerForce
<1>9. ASSUME NEW u \in UpdateIds, LeaseExpires(u) \/ BackoffEnds(u) PROVE Order' /\ InForce'
    <2>1. Local /\ UNCHANGED <<workers, chatLock, versionLock, losses>> BY <1>1, <1>9, TimeLocal
    <2>2. UNCHANGED <<events, versions, settings, closed>> BY <2>1 DEF Local, SameStream
    <2>3. EventsKept BY <1>3, <2>2, SameEvents
    <2>4. Order' BY <1>1, <2>1, <2>2, OrderLocal DEF Local
    <2> QED BY <1>1, <2>1, <2>2, <2>3, <2>4, ForceQuiet
<1>10. ASSUME NEW u \in UpdateIds, CleanupTelegramUpdateHistory(u) PROVE Order' /\ InForce'
    <2>1. /\ SameStream
          /\ UNCHANGED <<versions, settings, closed, workers, chatLock, versionLock, losses>>
        BY <1>1, <1>10, CleanupFacts
    <2>2. EventsKept BY <1>3, <2>1, SameEvents DEF SameStream
    <2>3. Order' BY <1>1, <1>10, OrderCleanup
    <2> QED BY <1>1, <2>1, <2>2, <2>3, ForceQuiet
<1>11. CASE UNCHANGED vars
    <2>1. /\ SameStream /\ UNCHANGED <<rows, events>>
          /\ UNCHANGED <<versions, settings, closed, workers, chatLock, versionLock, losses>>
        BY <1>11 DEF vars, telegram, database, SameStream
    <2>2. SameRows BY <1>3, <2>1, SameRowsFrame
    <2>3. Order' BY <1>1, <2>1, <2>2, OrderLocal
    <2>4. EventsKept BY <1>3, <2>1, SameEvents
    <2> QED BY <1>1, <2>1, <2>3, <2>4, ForceQuiet
<1> QED BY <1>4, <1>5, <1>6, <1>7, <1>8, <1>9, <1>10, <1>11 DEF Next

\* The order of the mutations is that in which the users acted, as long as Telegram's week
\* without updates ends together with the bot's.
THEOREM OrderConsistent ==
    ASSUME DeliveryLag = FALSE
    PROVE  Spec => []OInv
<1>1. OInv /\ [Next]_vars => OInv' BY NextOInv
<1> QED BY <1>1, InitOInv, PTL DEF Spec

-----------------------------------------------------------------------------
(* The language, which subscribe writes without its version *)

\* As long as no lock session is lost, the language is that of its version, and a subscription
\* about to be committed would write it unchanged.
LanguageShown == \A c \in Chats : settings[c]["language"] = versions[c]["language"].event
LanguageRead == \A w \in Workers :
    workers[w].pc = "processing" /\ workers[w].apply /\ EventOf(w).cmd = "subscribe"
    => workers[w].lang = settings[ChatOf(w)]["language"]
LanguageKept == losses = 0 => LanguageShown /\ LanguageRead

LInv == OInv /\ LanguageKept

\* Steps that commit nothing, given what a worker reads.
LEMMA LanguageFrame ==
    ASSUME IInv, LanguageKept, EventsKept, UNCHANGED <<versions, settings>>, losses' = 0 => losses = 0,
           \A w \in Workers : workers'[w].pc = "processing" =>
              \/ workers'[w] = workers[w]
              \/ /\ workers[w].pc # "idle" /\ workers'[w].event = workers[w].event
                 /\ \/ ~(workers'[w].apply /\ EventOf(w).cmd = "subscribe")
                    \/ workers'[w].lang = settings[ChatOf(w)]["language"]
    PROVE  LanguageKept'
<1> SUFFICES ASSUME losses' = 0 PROVE LanguageShown' /\ LanguageRead'
    BY DEF LanguageKept
<1>1. LanguageShown /\ LanguageRead BY DEF LanguageKept
<1>2. LanguageShown' BY <1>1 DEF LanguageShown
<1>3. LanguageRead'
    <2> SUFFICES ASSUME NEW w \in Workers, workers'[w].pc = "processing", workers'[w].apply,
                        EventOf(w)'.cmd = "subscribe"
                 PROVE  workers'[w].lang = settings[ChatOf(w)']["language"]
        BY DEF LanguageRead
    <2>1. workers[w].pc # "idle" /\ workers'[w].event = workers[w].event OBVIOUS
    <2>2. workers[w].event \in 1..Len(events) BY <2>1, WorkerFacts DEF IInv
    <2>3. EventOf(w)' = EventOf(w) /\ ChatOf(w)' = ChatOf(w)
        BY <2>1, <2>2 DEF EventOf, ChatOf, EventsKept
    <2> QED BY <1>1, <2>3 DEF LanguageRead
<1> QED BY <1>2, <1>3

\* A commit under the chat's lock: nobody else has read the language it writes.
LEMMA LanguageCommit ==
    ASSUME OInv, LanguageKept, NEW w \in Workers, workers[w].pc = "processing", Owns(w), CommitUpdate(w),
           UNCHANGED <<events, losses>>, workers'[w].pc # "processing",
           \A x \in Workers : x # w => workers'[x] = workers[x]
    PROVE  LanguageKept'
<1> SUFFICES ASSUME losses = 0 PROVE LanguageShown' /\ LanguageRead'
    BY DEF LanguageKept
<1>1. IInv /\ Types /\ LanguageShown /\ LanguageRead BY DEF OInv, IInv, LanguageKept
<1>2. PICK n \in 1..Len(events), c \in Chats, cmd \in Commands, s \in Settings \cup {"none"} :
          /\ workers[w].event = n /\ ChatOf(w) = c /\ EventOf(w).cmd = cmd /\ MutationSetting(cmd) = s
    BY <1>1, WorkerFacts, SettingFacts DEF EventType, IInv
<1>3. /\ s = "language" <=> cmd = "language"
      /\ "language" \in Settings /\ "none" \notin Settings
    BY <1>2, SettingFacts DEF Settings
<1>4. /\ ~workers[w].apply => UNCHANGED <<versions, settings>>
      /\ workers[w].apply =>
            /\ settings' = [settings EXCEPT ![c] = SettingsAfter(w)]
            /\ s = "none" => versions' = versions
            /\ s # "none" => versions' = [versions EXCEPT ![c] = [versions[c] EXCEPT
                    ![s] = [epoch |-> workers[w].epoch, id |-> workers[w].id, event |-> n]]]
    BY <1>1, <1>2, CommitFacts
<1>5. versions \in [Chats -> [Settings -> VersionType]] /\ settings \in [Chats -> SettingsType]
    BY <1>1 DEF Types, TypeOK, VersionType
<1>6. \A d \in Chats : d # c => settings'[d] = settings[d] /\ versions'[d] = versions[d]
    BY <1>2, <1>4, <1>5
<1>7. settings'[c]["language"] = versions'[c]["language"].event
    <2>1. settings[c]["language"] = versions[c]["language"].event BY <1>1 DEF LanguageShown
    <2>2. CASE ~workers[w].apply BY <1>4, <2>1, <2>2
    <2>3. CASE workers[w].apply
        <3>1. settings'[c] = SettingsAfter(w) BY <1>4, <1>5, <2>3
        <3>2. SettingsAfter(w)["language"] = IF s = "language" THEN n
                                             ELSE IF cmd = "subscribe" THEN workers[w].lang
                                             ELSE settings[c]["language"]
            BY <1>1, <1>2, SettingsFacts
        <3>3. cmd = "subscribe" => workers[w].lang = settings[c]["language"]
            BY <1>1, <1>2, <2>3 DEF LanguageRead
        <3>4. s # "language" => versions'[c]["language"] = versions[c]["language"]
            BY <1>2, <1>3, <1>4, <1>5, <2>3
        <3>5. s = "language" => versions'[c]["language"].event = n
            BY <1>2, <1>3, <1>4, <1>5, <2>3
        <3> QED BY <2>1, <3>1, <3>2, <3>3, <3>4, <3>5
    <2> QED BY <2>2, <2>3
<1>8. LanguageShown'
    BY <1>1, <1>6, <1>7 DEF LanguageShown
<1>9. LanguageRead'
    <2> SUFFICES ASSUME NEW x \in Workers, workers'[x].pc = "processing", workers'[x].apply,
                        EventOf(x)'.cmd = "subscribe"
                 PROVE  workers'[x].lang = settings'[ChatOf(x)']["language"]
        BY DEF LanguageRead
    <2>1. x # w /\ workers'[x] = workers[x] OBVIOUS
    <2>2. EventOf(x)' = EventOf(x) /\ ChatOf(x)' = ChatOf(x) BY <2>1 DEF EventOf, ChatOf
    <2>3. workers[x].lang = settings[ChatOf(x)]["language"] BY <1>1, <2>1, <2>2 DEF LanguageRead
    <2>4. chatLock[ChatOf(x)] = x /\ chatLock[c] = w BY <1>2, <2>1 DEF OInv, Locked
    <2>5. ChatOf(x) \in Chats BY <1>1, <2>1, WorkerFacts DEF IInv
    <2> QED BY <1>6, <2>1, <2>2, <2>3, <2>4, <2>5
<1> QED BY <1>8, <1>9

\* What a worker does leaves the language as it is or is done under the chat's lock.
LEMMA WorkerLanguage ==
    ASSUME OInv, LanguageKept, NEW w \in Workers, WorkerStep(w) \/ WorkerFault(w)
    PROVE  LanguageKept'
<1>1. IInv /\ Types BY DEF OInv, IInv
<1>2. CASE AllowTelegramMutation(w)
    <2>1. PICK apply \in BOOLEAN : Allow(w, apply)
        BY <1>2 DEF AllowTelegramMutation, Newer, Before
    <2>2. workers[w].pc # "idle" /\ UNCHANGED <<events, versions, settings, losses>>
        BY <1>2 DEF AllowTelegramMutation, telegram, database
    <2>3. EventsKept BY <1>1, <2>2, SameEvents
    <2> QED BY <1>1, <2>1, <2>2, <2>3, AllowFrame, LanguageFrame
<1>3. CASE GetLangWithDB(w)
    <2>1. workers[w].pc = "allowed" /\ UNCHANGED <<events, versions, settings, losses>>
        BY <1>3 DEF GetLangWithDB, telegram, database
    <2>2. EventsKept BY <1>1, <2>1, SameEvents
    <2> QED BY <1>1, <1>3, <2>1, <2>2, GetLangFrame, LanguageFrame
<1>4. CASE LoseLockSession(w)
    <2>1. losses' # 0 BY <1>1, <1>4 DEF LoseLockSession, Types
    <2> QED BY <2>1 DEF LanguageKept
<1>5. ASSUME NEW answer \in {"ok", "error", "lost"}, ProcessTelegramUpdate(w, answer)
      PROVE  LanguageKept'
    <2>1. /\ workers[w].pc = "processing" /\ SameStream /\ UNCHANGED losses
          /\ \E pc \in {"releasing", "marking"} : Goto(w, pc)
        BY <1>5, ProcessFacts
    <2>2. PICK pc \in {"releasing", "marking"} : Goto(w, pc) BY <2>1
    <2>3. /\ workers'[w] = [workers[w] EXCEPT !.pc = pc]
          /\ \A x \in Workers : x # w => workers'[x] = workers[x]
        BY <1>1, <2>1, <2>2, GotoFrame DEF PcType
    <2>4. workers[w] \in WorkerType BY <1>1 DEF Types, TypeOK, WorkerType
    <2>5. workers'[w].pc # "processing" BY <2>3, <2>4 DEF WorkerType
    <2>6. UNCHANGED events /\ EventsKept BY <1>1, <2>1, SameEvents DEF SameStream
    <2>7. CASE UNCHANGED <<versions, settings>>
        BY <1>1, <2>1, <2>3, <2>5, <2>6, <2>7, LanguageFrame
    <2>8. CASE Owns(w) /\ CommitUpdate(w)
        BY <2>1, <2>3, <2>5, <2>6, <2>8, LanguageCommit
    <2> QED BY <1>5, <2>7, <2>8, ProcessFacts
<1>6. CASE AcquireTelegramChatLock(w) \/ AcquireTimeout(w) \/ MarkError(w) \/ MarkTelegramUpdate(w)
    <2>1. PICK pc \in {"locked", "marking", "releasing"} : workers[w].pc # "idle" /\ Goto(w, pc)
        BY <1>6 DEF AcquireTelegramChatLock, AcquireTimeout, MarkError, MarkTelegramUpdate
    <2>2. UNCHANGED <<events, versions, settings, losses>>
        BY <1>6 DEF AcquireTelegramChatLock, AcquireTimeout, MarkError, MarkTelegramUpdate,
                    telegram, database
    <2>3. /\ workers'[w] = [workers[w] EXCEPT !.pc = pc]
          /\ \A x \in Workers : x # w => workers'[x] = workers[x]
        BY <1>1, <2>1, GotoFrame DEF PcType
    <2>4. workers[w] \in WorkerType BY <1>1 DEF Types, TypeOK, WorkerType
    <2>5. workers'[w].pc # "processing" BY <2>3, <2>4 DEF WorkerType
    <2>6. EventsKept BY <1>1, <2>2, SameEvents
    <2> QED BY <1>1, <2>2, <2>3, <2>5, <2>6, LanguageFrame
<1>7. CASE ReleaseTelegramChatLock(w) \/ Crash(w)
    <2>1. /\ workers' = [workers EXCEPT ![w] = IdleWorker]
          /\ UNCHANGED <<events, versions, settings, losses>>
        BY <1>7 DEF ReleaseTelegramChatLock, Crash, telegram, database
    <2>2. workers'[w].pc # "processing" /\ \A x \in Workers : x # w => workers'[x] = workers[x]
        BY <1>1, <2>1, IdleFrame
    <2>3. EventsKept BY <1>1, <2>1, SameEvents
    <2> QED BY <1>1, <2>1, <2>2, <2>3, LanguageFrame
<1> QED BY <1>2, <1>3, <1>4, <1>5, <1>6, <1>7 DEF WorkerStep, WorkerFault

\* The language holds from the first state on.
LEMMA InitLInv == Init => LInv
<1> SUFFICES ASSUME Init PROVE LInv
    OBVIOUS
<1>1. OInv BY InitOInv
<1>2. LanguageShown BY DEF LanguageShown, Init, NoVersion, Settings
<1>3. LanguageRead BY DEF LanguageRead, Init, IdleWorker
<1> QED BY <1>1, <1>2, <1>3 DEF LInv, LanguageKept

\* Every step keeps it.
LEMMA NextLInv == DeliveryLag = FALSE => (LInv /\ [Next]_vars => LInv')
<1> SUFFICES ASSUME DeliveryLag = FALSE, LInv, [Next]_vars PROVE LInv'
    OBVIOUS
<1>1. OInv /\ LanguageKept /\ IInv /\ Types BY DEF LInv, OInv, IInv
<1>2. OInv' BY <1>1, NextOInv
<1>3. ASSUME NEW w \in Workers, WorkerStep(w) \/ WorkerFault(w) PROVE LanguageKept'
    BY <1>1, <1>3, WorkerLanguage
<1>4. ASSUME NEW u \in UpdateIds, NEW c \in Chats, NEW cmd \in Commands, UserActs(u, c, cmd)
      PROVE  LanguageKept'
    <2>1. /\ Len(events) \in Nat /\ Len(events') = Len(events) + 1
          /\ \A n \in 1..Len(events) : events'[n] = events[n]
          /\ UNCHANGED <<versions, settings, workers, losses>>
        BY <1>1, <1>4, UserFacts
    <2>2. EventsKept BY <2>1 DEF EventsKept
    <2> QED BY <1>1, <2>1, <2>2, LanguageFrame
<1>5. ASSUME UNCHANGED <<events, versions, settings, losses>>,
             \A x \in Workers : workers'[x].pc = "processing" => workers'[x] = workers[x]
      PROVE  LanguageKept'
    <2>1. EventsKept BY <1>1, <1>5, SameEvents
    <2> QED BY <1>1, <1>5, <2>1, LanguageFrame
<1>6. ASSUME NEW whose \in {{"telegram"}, {"bot"}, {"telegram", "bot"}}, WeekWithoutUpdates(whose)
      PROVE  LanguageKept'
    BY <1>5, <1>6 DEF WeekWithoutUpdates, database
<1>7. ASSUME NEW n \in 1..Len(events), SaveTelegramUpdate(n) PROVE LanguageKept'
    BY <1>5, <1>7 DEF SaveTelegramUpdate, telegram, database
<1>8. ASSUME NEW w \in Workers, NEW u \in UpdateIds, ClaimPendingTelegramUpdate(w, u)
      PROVE  LanguageKept'
    <2>1. /\ workers'[w].pc = "claimed" /\ \A x \in Workers : x # w => workers'[x] = workers[x]
          /\ UNCHANGED <<events, versions, settings, losses>>
        BY <1>1, <1>8, ClaimFacts DEF SameStream
    <2> QED BY <1>5, <2>1
<1>9. ASSUME NEW u \in UpdateIds, LeaseExpires(u) \/ BackoffEnds(u) \/ CleanupTelegramUpdateHistory(u)
      PROVE  LanguageKept'
    BY <1>5, <1>9 DEF LeaseExpires, BackoffEnds, CleanupTelegramUpdateHistory, telegram, database
<1>10. ASSUME UNCHANGED vars PROVE LanguageKept'
    BY <1>5, <1>10 DEF vars, telegram, database
<1> QED BY <1>1, <1>2, <1>3, <1>4, <1>6, <1>7, <1>8, <1>9, <1>10 DEF LInv, Next

\* The language is the last one chosen as long as no lock session is lost.
THEOREM LanguageConsistent ==
    ASSUME DeliveryLag = FALSE
    PROVE  Spec => []LInv
<1>1. LInv /\ [Next]_vars => LInv' BY NextLInv
<1> QED BY <1>1, InitLInv, PTL DEF Spec

\* What a processed update asked for is in force, or what the users asked for later; for a
\* language, as long as no lock session is lost.
THEOREM ProcessedStaysInForce ==
    ASSUME DeliveryLag = FALSE
    PROVE  Spec => []ProcessedMutationInForce
<1>1. LInv => ProcessedMutationInForce
    <2> SUFFICES ASSUME LInv, NEW n \in closed
                 PROVE  LET c == events[n].chat  s == MutationSetting(events[n].cmd) IN
                        CASE s = "none" -> TRUE
                          [] s = "subscription" -> settings[c][s] >= n
                          [] s = "interval" -> \/ versions[c]["interval"].event >= n
                                               \/ versions[c]["subscription"].event > n
                          [] s = "language" -> losses = 0 => settings[c][s] >= n
        BY DEF ProcessedMutationInForce
    <2>1. Types /\ n <= Len(events) /\ Held(n) BY DEF LInv, OInv, IInv, ClosedHeld
    <2>2. n \in 1..Len(events)
        <3>1. n \in 1..MaxEvents BY <2>1 DEF Types, TypeOK
        <3>2. Len(events) \in Nat BY <2>1 DEF Types, TypeOK
        <3> QED BY <2>1, <3>1, <3>2
    <2>3. PICK c \in Chats, cmd \in Commands : events[n].chat = c /\ events[n].cmd = cmd
        BY <2>1, <2>2, EventFacts DEF EventType
    <2>4. PICK s \in {"none", "subscription", "interval", "language"} : MutationSetting(cmd) = s
        BY SettingFacts DEF Settings
    <2>5. /\ settings[c]["subscription"] = versions[c]["subscription"].event
          /\ losses = 0 => settings[c]["language"] = versions[c]["language"].event
        BY DEF LInv, OInv, VersionsMatch, LanguageKept, LanguageShown
    <2>6. s = "none" \/ versions[c][s].event >= n \/ (s = "interval" /\ versions[c]["subscription"].event > n)
        BY <2>1, <2>3, <2>4 DEF Held
    <2> QED BY <2>3, <2>4, <2>5, <2>6
<1> QED BY <1>1, LanguageConsistent, PTL

\* The setting that a chat's cadence has is that of an interval chosen after the last change
\* of the subscription, in every step that writes it under the chat's lock.
IntervalIsNew == \A c \in Chats :
    settings'[c]["interval"] # settings[c]["interval"] /\ losses = 0
    => settings'[c]["interval"] > settings[c]["subscription"]

\* Only a transaction that was let through writes the interval.
LEMMA StepIntervalIsNew == OInv /\ Next => IntervalIsNew
<1> SUFFICES ASSUME OInv, Next PROVE IntervalIsNew
    OBVIOUS
<1>1. IInv /\ Types BY DEF OInv, IInv
<1>2. CASE UNCHANGED settings BY <1>2 DEF IntervalIsNew
<1>3. ASSUME NEW w \in Workers, workers[w].pc = "processing", Owns(w), CommitUpdate(w) PROVE IntervalIsNew
    <2> SUFFICES ASSUME NEW d \in Chats, settings'[d]["interval"] # settings[d]["interval"], losses = 0
                 PROVE  settings'[d]["interval"] > settings[d]["subscription"]
        BY DEF IntervalIsNew
    <2>1. /\ workers[w].event \in 1..Len(events) /\ EventOf(w) \in EventType /\ ChatOf(w) \in Chats
        BY <1>1, <1>3, WorkerFacts DEF IInv
    <2>2. EventOf(w).cmd \in Commands BY <2>1 DEF EventType
    <2>3. settings \in [Chats -> SettingsType] BY <1>1 DEF Types
    <2>4. workers[w].apply /\ settings' = [settings EXCEPT ![ChatOf(w)] = SettingsAfter(w)]
        <3>1. /\ ~workers[w].apply => UNCHANGED settings
              /\ workers[w].apply => settings' = [settings EXCEPT ![ChatOf(w)] = SettingsAfter(w)]
            BY <1>1, <1>3, CommitFacts
        <3> QED BY <3>1
    <2>5. d = ChatOf(w) /\ settings'[d] = SettingsAfter(w) BY <2>1, <2>3, <2>4
    <2>6. MutationSetting(EventOf(w).cmd) = "interval" /\ settings'[d]["interval"] = workers[w].event
        BY <1>1, <2>1, <2>2, <2>5, SettingsFacts
    <2>7. versions[d]["subscription"].event < workers[w].event
        BY <1>3, <2>4, <2>5, <2>6 DEF OInv, Decided, DecidedBy
    <2>8. settings[d]["subscription"] = versions[d]["subscription"].event /\ settings[d]["subscription"] \in Nat
        BY <2>3, InboxAssumption DEF OInv, VersionsMatch, SettingsType
    <2> QED BY <2>1, <2>6, <2>7, <2>8
<1>4. UNCHANGED settings \/ \E w \in Workers : workers[w].pc = "processing" /\ Owns(w) /\ CommitUpdate(w)
    <2>1. ASSUME NEW u \in UpdateIds, NEW c \in Chats, NEW cmd \in Commands, UserActs(u, c, cmd)
          PROVE  UNCHANGED settings
        BY <2>1 DEF UserActs, database
    <2>2. ASSUME NEW whose \in {{"telegram"}, {"bot"}, {"telegram", "bot"}}, WeekWithoutUpdates(whose)
          PROVE  UNCHANGED settings
        BY <2>2 DEF WeekWithoutUpdates, database
    <2>3. ASSUME NEW n \in 1..Len(events), SaveTelegramUpdate(n) PROVE UNCHANGED settings
        BY <2>3 DEF SaveTelegramUpdate, database
    <2>4. ASSUME NEW w \in Workers, NEW u \in UpdateIds, ClaimPendingTelegramUpdate(w, u)
          PROVE  UNCHANGED settings
        BY <2>4 DEF ClaimPendingTelegramUpdate, database
    <2>5. ASSUME NEW w \in Workers, WorkerStep(w) \/ WorkerFault(w)
          PROVE  UNCHANGED settings \/ (workers[w].pc = "processing" /\ Owns(w) /\ CommitUpdate(w))
        <3>1. CASE AcquireTelegramChatLock(w) \/ AcquireTimeout(w) \/ AllowTelegramMutation(w)
                       \/ GetLangWithDB(w) \/ ReleaseTelegramChatLock(w) \/ WorkerFault(w)
            BY <1>1, <3>1, WorkerLocal DEF Local
        <3>2. CASE MarkTelegramUpdate(w) BY <3>2 DEF MarkTelegramUpdate, database
        <3>3. ASSUME NEW answer \in {"ok", "error", "lost"}, ProcessTelegramUpdate(w, answer)
              PROVE  UNCHANGED settings \/ (workers[w].pc = "processing" /\ Owns(w) /\ CommitUpdate(w))
            BY <3>3, ProcessFacts
        <3> QED BY <2>5, <3>1, <3>2, <3>3 DEF WorkerStep
    <2>6. ASSUME NEW u \in UpdateIds, LeaseExpires(u) \/ BackoffEnds(u) \/ CleanupTelegramUpdateHistory(u)
          PROVE  UNCHANGED settings
        BY <2>6 DEF LeaseExpires, BackoffEnds, CleanupTelegramUpdateHistory, database
    <2> QED BY <2>1, <2>2, <2>3, <2>4, <2>5, <2>6 DEF Next
<1> QED BY <1>2, <1>3, <1>4

\* An interval chosen before a change of the subscription never sets the cadence after it, as
\* long as no lock session is lost.
THEOREM OldIntervalIsRefused ==
    ASSUME DeliveryLag = FALSE
    PROVE  Spec => OldIntervalNeverApplied
<1>1. OInv /\ [Next]_vars => [IntervalIsNew]_vars BY StepIntervalIsNew
<1>2. Spec => [][IntervalIsNew]_vars BY <1>1, OrderConsistent, PTL DEF Spec
<1> QED BY <1>2 DEF OldIntervalNeverApplied, IntervalIsNew
=============================================================================
