--------------------------- MODULE TelegramInbox ---------------------------
(***************************************************************************)
(* The durable inbox: the webhook stores every Telegram update once, the   *)
(* update workers of every replica process the updates of a chat in order, *)
(* and each update's mutation, its version row, its replies and its status *)
(* are committed by one transaction.                                       *)
(*                                                                         *)
(* Telegram is modelled from how saveTelegramUpdate uses it: updates come  *)
(* with sequential ids, in any order and more than once for a day; after a *)
(* week without updates the ids may start again anywhere.  Updates are     *)
(* numbered by `events' in the order the users caused them, which the code *)
(* never sees.                                                             *)
(*                                                                         *)
(* Nothing here depends on how long a lease or a backoff lasts, so a lease *)
(* may run out and a backoff may end at any time.                          *)
(***************************************************************************)
EXTENDS Integers, Sequences, FiniteSets

CONSTANTS
    Chats, Workers,
    UpdateIds,     \* update_id values
    Commands,      \* kinds of update users send, a subset of AllCommands
    MaxAttempts,   \* TelegramUpdateMaxAttempts
    DeliveryLag,   \* whether an update may reach the bot late enough that its
                   \* week without updates ends after Telegram's
    MaxEvents,     \* bound: updates caused by users
    MaxWeeks,      \* bound: weeks without updates
    MaxFaults,     \* bound: crashes, failed marks, overrun leases
    MaxLosses      \* bound: lost lock sessions

AllCommands == {"subscribe", "unsubscribe", "interval", "language", "alert", "price"}

ASSUME InboxAssumption ==
    /\ UpdateIds \subseteq Nat
    /\ Commands \subseteq AllCommands
    /\ DeliveryLag \in BOOLEAN
    /\ {MaxAttempts, MaxEvents, MaxWeeks, MaxFaults, MaxLosses} \subseteq Nat

ASSUME InboxWorkersAssumption == "free" \notin Workers

VARIABLES
    events,     \* updates in the order users caused them: [id, chat, cmd]
    live,       \* events Telegram still delivers, again after each success too
    weekQuiet,  \* Telegram has had no update for a week
    stream,     \* telegram_update_stream: [epoch, old]; old: last_received_at is 7 days back
    rows,       \* telegram_updates by update_id
    versions,   \* telegram_mutation_versions by chat and setting
    settings,   \* per chat: event that set each setting, and is_subscribed
    effects,    \* per event, how often its mutation and replies were committed
    closed,     \* events whose row was marked processed
    chatLock,   \* holder of each chat's advisory lock
    versionLock,\* transaction that holds a version row's lock until it ends
    workers,    \* local state of each update worker
    saves,      \* number of rows saved so far
    faults,     \* crashes, failed marks and leases that ran out on a live worker
    losses,     \* lock sessions lost
    weeks       \* weeks without updates

telegram == <<events, live, weekQuiet, weeks>>
database == <<versions, settings, effects, closed>>
vars == <<telegram, database, stream, rows, chatLock, versionLock, workers, saves, faults, losses>>

Settings == {"subscription", "interval", "language"}
NoVersion == [epoch |-> -1, id |-> 0, event |-> 0]

AbsentRow == [status |-> "absent", event |-> 0, epoch |-> 0, attempts |-> 0,
              expired |-> FALSE, due |-> TRUE, saved |-> 0]
IdleWorker == [pc |-> "idle", id |-> 0, event |-> 0, epoch |-> 0, attempts |-> 0,
               apply |-> FALSE, lang |-> 0]

Init ==
    /\ events = <<>>
    /\ live = {}
    /\ weekQuiet = FALSE
    /\ stream = [epoch |-> 0, old |-> FALSE]
    /\ rows = [u \in UpdateIds |-> AbsentRow]
    /\ versions = [c \in Chats |-> [s \in Settings |-> NoVersion]]
    /\ settings = [c \in Chats |-> [subscription |-> 0, interval |-> 0, language |-> 0, subscribed |-> FALSE]]
    /\ effects = [n \in 1..MaxEvents |-> 0]
    /\ closed = {}
    /\ chatLock = [c \in Chats |-> "free"]
    /\ versionLock = [c \in Chats |-> [s \in Settings |-> "free"]]
    /\ workers = [w \in Workers |-> IdleWorker]
    /\ saves = 0
    /\ faults = 0
    /\ losses = 0
    /\ weeks = 0

-----------------------------------------------------------------------------
(* Telegram and the webhook *)

Retained == {u \in UpdateIds : rows[u].status # "absent"}

\* A user acts.  Ids are sequential, but after a quiet week they restart anywhere; a
\* restarted sequence is taken not to meet an id the inbox still retains.
UserActs(u, c, cmd) ==
    /\ Len(events) < MaxEvents
    /\ IF weekQuiet THEN u \notin Retained
       ELSE events # <<>> => u = events[Len(events)].id + 1
    /\ events' = Append(events, [id |-> u, chat |-> c, cmd |-> cmd])
    /\ live' = live \cup {Len(events) + 1}
    /\ weekQuiet' = FALSE
    /\ UNCHANGED <<database, stream, rows, chatLock, versionLock, workers, saves, faults, losses, weeks>>

\* A week without updates at Telegram, which gives an undelivered update up after a day.
\* The bot's own week starts at the last delivery: with a delivery lag it may end later,
\* and it may end alone when updates were lost meanwhile; updates older than the last one
\* delivered have been given up by then.
WeekWithoutUpdates(whose) ==
    /\ weeks < MaxWeeks /\ weeks' = weeks + 1
    /\ whose = {"telegram"} => DeliveryLag
    /\ weekQuiet' = (weekQuiet \/ "telegram" \in whose)
    /\ live' = IF "telegram" \in whose THEN {} ELSE {n \in live : \A u \in Retained : rows[u].event < n}
    /\ stream' = [stream EXCEPT !.old = @ \/ "bot" \in whose]
    /\ UNCHANGED <<events, database, rows, chatLock, versionLock, workers, saves, faults, losses>>

\* handleWebhook and saveTelegramUpdate: one transaction under the stream row's lock.  A
\* known update_id changes nothing, not even last_received_at.
SaveTelegramUpdate(n) ==
    LET u == events[n].id
        epoch == IF stream.old THEN stream.epoch + 1 ELSE stream.epoch
    IN /\ n \in live
       /\ u \notin Retained
       /\ rows' = [rows EXCEPT ![u] = [AbsentRow EXCEPT !.status = "pending", !.event = n,
                                            !.epoch = epoch, !.saved = saves + 1]]
       /\ stream' = [epoch |-> epoch, old |-> FALSE]
       /\ saves' = saves + 1
       /\ UNCHANGED <<telegram, database, chatLock, versionLock, workers, faults, losses>>

-----------------------------------------------------------------------------
(* An update worker *)

IsOpen(u) == rows[u].status \in {"pending", "processing"}
ChatAt(u) == events[rows[u].event].chat

\* (stream_epoch, update_id) < (stream_epoch, update_id)
Before(e, u, f, v) == e < f \/ (e = f /\ u < v)

\* Variant with a mistake: earlier updates of the chat are not waited for.
ClaimableOutOfOrder(u) ==
    /\ IsOpen(u) /\ rows[u].due
    /\ rows[u].status = "pending" \/ rows[u].expired

\* Variant with a mistake: an expired lease is not taken over.
ClaimableIfPending(u) ==
    /\ rows[u].status = "pending" /\ rows[u].due
    /\ \A v \in UpdateIds : IsOpen(v) /\ ChatAt(v) = ChatAt(u)
           => ~Before(rows[v].epoch, v, rows[u].epoch, u)

\* claimPendingTelegramUpdateForWorker: due, not under a running lease, and no earlier
\* update of the chat is open, whatever it waits for.
Claimable(u) ==
    /\ IsOpen(u) /\ rows[u].due
    /\ rows[u].status = "pending" \/ rows[u].expired
    /\ \A v \in UpdateIds : IsOpen(v) /\ ChatAt(v) = ChatAt(u)
           => ~Before(rows[v].epoch, v, rows[u].epoch, u)

ClaimPendingTelegramUpdate(w, u) ==
    /\ workers[w].pc = "idle"
    /\ Claimable(u)
    /\ rows' = [rows EXCEPT ![u].status = "processing", ![u].attempts = @ + 1, ![u].expired = FALSE]
    /\ workers' = [workers EXCEPT ![w] = [pc |-> "claimed", id |-> u, event |-> rows[u].event,
                       epoch |-> rows[u].epoch, attempts |-> rows[u].attempts + 1,
                       apply |-> FALSE, lang |-> 0]]
    /\ UNCHANGED <<telegram, database, stream, chatLock, versionLock, saves, faults, losses>>

EventOf(w) == events[workers[w].event]
ChatOf(w) == EventOf(w).chat
Goto(w, pc) == workers' = [workers EXCEPT ![w].pc = pc]

\* Variant with a mistake: the answer of the attempt is not looked at.
AcquireUnconditionally(w) ==
    /\ workers[w].pc = "claimed"
    /\ chatLock' = [chatLock EXCEPT ![ChatOf(w)] = w]
    /\ Goto(w, "locked")
    /\ UNCHANGED <<telegram, database, stream, rows, versionLock, saves, faults, losses>>

\* acquireTelegramChatAdvisoryLock, or its failure after ten seconds.
AcquireTelegramChatLock(w) ==
    /\ workers[w].pc = "claimed"
    /\ chatLock[ChatOf(w)] = "free"
    /\ chatLock' = [chatLock EXCEPT ![ChatOf(w)] = w]
    /\ Goto(w, "locked")
    /\ UNCHANGED <<telegram, database, stream, rows, versionLock, saves, faults, losses>>

AcquireTimeout(w) ==
    /\ workers[w].pc = "claimed"
    /\ Goto(w, "marking")
    /\ UNCHANGED <<telegram, database, stream, rows, chatLock, versionLock, saves, faults, losses>>

\* telegramMutationSetting
MutationSetting(cmd) == CASE cmd \in {"subscribe", "unsubscribe"} -> "subscription"
                          [] cmd \in {"interval", "language"} -> cmd
                          [] OTHER -> "none"

\* Variant with a mistake: no look at the subscription version.
NeverSuperseded(w) == FALSE

\* allowTelegramMutation: an interval yields to a newer subscription change; otherwise the
\* version row is taken if it is older.  The upsert waits for a transaction that holds the
\* row, and holds it until this transaction ends.
Superseded(w) ==
    LET subscription == versions[ChatOf(w)]["subscription"] IN
    /\ EventOf(w).cmd = "interval"
    /\ Before(workers[w].epoch, workers[w].id, subscription.epoch, subscription.id)

\* Variant with a mistake: the epoch is ignored.
NewerById(w, s) == versions[ChatOf(w)][s].id < workers[w].id

Newer(w, s) == LET version == versions[ChatOf(w)][s] IN
               Before(version.epoch, version.id, workers[w].epoch, workers[w].id)

\* A stale mutation is not handled; of the handlers, subscribe starts with a read that
\* matters later.
Allow(w, apply) ==
    workers' = [workers EXCEPT ![w].apply = apply,
                    ![w].pc = IF apply /\ EventOf(w).cmd = "subscribe" THEN "allowed" ELSE "processing"]

AllowTelegramMutation(w) ==
    LET s == MutationSetting(EventOf(w).cmd) IN
    /\ workers[w].pc = "locked"
    /\ IF s = "none" \/ Superseded(w)
       THEN /\ Allow(w, s = "none")
            /\ UNCHANGED versionLock
       ELSE /\ versionLock[ChatOf(w)][s] = "free"
            /\ Allow(w, Newer(w, s))
            /\ versionLock' = [versionLock EXCEPT ![ChatOf(w)][s] = w]
    /\ UNCHANGED <<telegram, database, stream, rows, chatLock, saves, faults, losses>>

\* getLangWithDB, a statement of its own in the READ COMMITTED transaction.  Every handler but
\* that of a language choice reads the language for the wording of its replies, which is left
\* out; subscribe also writes back what it read.
GetLangWithDB(w) ==
    /\ workers[w].pc = "allowed"
    /\ workers' = [workers EXCEPT ![w].pc = "processing", ![w].lang = settings[ChatOf(w)].language]
    /\ UNCHANGED <<telegram, database, stream, rows, chatLock, versionLock, saves, faults, losses>>

\* The end of a transaction releases the row locks it took.
Unlocked(w) == [c \in Chats |-> [s \in Settings |->
                   IF versionLock[c][s] = w THEN "free" ELSE versionLock[c][s]]]

\* Variant with a mistake: a closed row still counts as claimed.
OwnsByAttempts(w) == rows[workers[w].id].attempts = workers[w].attempts

\* WHERE status = 'processing' AND attempts = $
Owns(w) == /\ rows[workers[w].id].status = "processing"
           /\ rows[workers[w].id].attempts = workers[w].attempts

\* What the handler writes: an interval only reaches an active subscriber, and subscribe sets
\* the language it read, without the version row of the language.
SettingsAfter(w) ==
    LET n == workers[w].event  s == settings[ChatOf(w)] IN
    CASE EventOf(w).cmd = "subscribe" -> [s EXCEPT !.subscription = n, !.subscribed = TRUE,
                                                       !.language = workers[w].lang]
      [] EventOf(w).cmd = "unsubscribe" -> [s EXCEPT !.subscription = n, !.subscribed = FALSE]
      [] EventOf(w).cmd = "language" -> [s EXCEPT !.language = n]
      [] EventOf(w).cmd = "interval" /\ s.subscribed -> [s EXCEPT !.interval = n]
      [] OTHER -> s

\* processTelegramUpdateWithDB, completeTelegramUpdateTx and the commit: version, mutation,
\* replies and status together.  A stale mutation only completes the update.
CommitUpdate(w) ==
    LET n == workers[w].event
        s == MutationSetting(EventOf(w).cmd)
    IN /\ rows' = [rows EXCEPT ![workers[w].id].status = "processed"]
       /\ closed' = closed \cup {n}
       /\ IF workers[w].apply
          THEN /\ versions' = IF s = "none" THEN versions
                  ELSE [versions EXCEPT ![ChatOf(w)][s] =
                           [epoch |-> workers[w].epoch, id |-> workers[w].id, event |-> n]]
               /\ settings' = [settings EXCEPT ![ChatOf(w)] = SettingsAfter(w)]
               /\ effects' = [effects EXCEPT ![n] = @ + 1]
          ELSE UNCHANGED <<versions, settings, effects>>

\* processTelegramUpdateJob's transaction ends: it commits; it finds the claim gone and rolls
\* back; it fails and rolls back, to be marked; or it commits and the answer is lost, which
\* the code cannot tell from a failure.
ProcessTelegramUpdate(w, answer) ==
    /\ workers[w].pc = "processing"
    /\ CASE answer = "ok" /\ Owns(w) -> CommitUpdate(w) /\ Goto(w, "releasing")
         [] answer = "ok" /\ ~Owns(w) -> Goto(w, "releasing") /\ UNCHANGED <<rows, database>>
         [] answer = "error" -> Goto(w, "marking") /\ UNCHANGED <<rows, database>>
         [] answer = "lost" -> Owns(w) /\ CommitUpdate(w) /\ Goto(w, "marking")
    /\ versionLock' = Unlocked(w)
    /\ UNCHANGED <<telegram, stream, chatLock, saves, faults, losses>>

StatusAfterError(w) == IF workers[w].attempts >= MaxAttempts THEN "failed" ELSE "pending"

\* markTelegramUpdateProcessingError: retry after a backoff, or failed at the last attempt.
MarkTelegramUpdate(w) ==
    /\ workers[w].pc = "marking"
    /\ rows' = IF ~Owns(w) THEN rows
               ELSE [rows EXCEPT ![workers[w].id].status = StatusAfterError(w),
                                 ![workers[w].id].due = (StatusAfterError(w) = "failed")]
    /\ Goto(w, "releasing")
    /\ UNCHANGED <<telegram, database, stream, chatLock, versionLock, saves, faults, losses>>

ReleaseTelegramChatLock(w) ==
    /\ workers[w].pc = "releasing"
    /\ chatLock' = IF chatLock[ChatOf(w)] = w THEN [chatLock EXCEPT ![ChatOf(w)] = "free"] ELSE chatLock
    /\ workers' = [workers EXCEPT ![w] = IdleWorker]
    /\ UNCHANGED <<telegram, database, stream, rows, versionLock, saves, faults, losses>>

-----------------------------------------------------------------------------
(* Time, retention and faults *)

Fault == faults < MaxFaults /\ faults' = faults + 1

\* claimed_until passes.  The lock wait, the transaction and the mark of a claim end by
\* their timeouts well before, so it takes a paused worker to see it happen.
LeaseExpires(u) ==
    /\ rows[u].status = "processing" /\ ~rows[u].expired
    /\ IF \E w \in Workers : workers[w].id = u /\ Owns(w) THEN Fault ELSE UNCHANGED faults
    /\ rows' = [rows EXCEPT ![u].expired = TRUE]
    /\ UNCHANGED <<telegram, database, stream, chatLock, versionLock, workers, saves, losses>>

\* next_attempt_at is reached.
BackoffEnds(u) ==
    /\ rows[u].status = "pending" /\ ~rows[u].due
    /\ rows' = [rows EXCEPT ![u].due = TRUE]
    /\ UNCHANGED <<telegram, database, stream, chatLock, versionLock, workers, saves, faults, losses>>

\* Variant with a mistake: rows go while Telegram still redelivers them.
CleanupWhileRedelivered(u) ==
    /\ rows[u].status \in {"processed", "failed"}
    /\ \A w \in Workers : workers[w].id # u
    /\ rows' = [rows EXCEPT ![u] = AbsentRow]
    /\ UNCHANGED <<telegram, database, stream, chatLock, versionLock, workers, saves, faults, losses>>

\* cleanupTelegramUpdateHistory: closed rows at least a week old, when Telegram no longer
\* redelivers them and no worker is left in their job.
CleanupTelegramUpdateHistory(u) ==
    /\ rows[u].status \in {"processed", "failed"}
    /\ \A n \in live : rows[u].event < n
    /\ \A w \in Workers : workers[w].id # u
    /\ rows' = [rows EXCEPT ![u] = AbsentRow]
    /\ UNCHANGED <<telegram, database, stream, chatLock, versionLock, workers, saves, faults, losses>>

\* The process dies: its transaction rolls back and its sessions close.
Crash(w) ==
    /\ workers[w].pc # "idle"
    /\ Fault
    /\ chatLock' = IF chatLock[ChatOf(w)] = w THEN [chatLock EXCEPT ![ChatOf(w)] = "free"] ELSE chatLock
    /\ versionLock' = Unlocked(w)
    /\ workers' = [workers EXCEPT ![w] = IdleWorker]
    /\ UNCHANGED <<telegram, database, stream, rows, saves, losses>>

\* The session that holds the lock is lost; the transaction runs on another connection.
LoseLockSession(w) ==
    /\ workers[w].pc # "idle" /\ chatLock[ChatOf(w)] = w
    /\ losses < MaxLosses /\ losses' = losses + 1
    /\ chatLock' = [chatLock EXCEPT ![ChatOf(w)] = "free"]
    /\ UNCHANGED <<telegram, database, stream, rows, versionLock, workers, saves, faults>>

MarkError(w) ==
    /\ workers[w].pc = "marking"
    /\ Fault
    /\ Goto(w, "releasing")
    /\ UNCHANGED <<telegram, database, stream, rows, chatLock, versionLock, saves, losses>>

-----------------------------------------------------------------------------

WorkerStep(w) ==
    \/ AcquireTelegramChatLock(w) \/ AcquireTimeout(w) \/ AllowTelegramMutation(w)
    \/ GetLangWithDB(w) \/ \E answer \in {"ok", "error", "lost"} : ProcessTelegramUpdate(w, answer)
    \/ MarkTelegramUpdate(w) \/ ReleaseTelegramChatLock(w)

WorkerFault(w) == Crash(w) \/ LoseLockSession(w) \/ MarkError(w)

Next ==
    \/ \E u \in UpdateIds, c \in Chats, cmd \in Commands : UserActs(u, c, cmd)
    \/ \E whose \in {{"telegram"}, {"bot"}, {"telegram", "bot"}} : WeekWithoutUpdates(whose)
    \/ \E n \in 1..Len(events) : SaveTelegramUpdate(n)
    \/ \E w \in Workers, u \in UpdateIds : ClaimPendingTelegramUpdate(w, u)
    \/ \E w \in Workers : WorkerStep(w) \/ WorkerFault(w)
    \/ \E u \in UpdateIds : LeaseExpires(u) \/ BackoffEnds(u) \/ CleanupTelegramUpdateHistory(u)

Spec == Init /\ [][Next]_vars

\* The workers' loops run and their calls end; leases and backoffs run out; an idle worker
\* polls until it claims.
Fairness ==
    /\ \A w \in Workers : WF_vars(WorkerStep(w))
    /\ \A u \in UpdateIds :
          /\ WF_vars(\E w \in Workers : ClaimPendingTelegramUpdate(w, u))
          /\ WF_vars(LeaseExpires(u)) /\ WF_vars(BackoffEnds(u))

FairSpec == Spec /\ Fairness

-----------------------------------------------------------------------------
(* Properties *)

\* Every variable keeps its type.
TypeOK ==
    /\ events \in Seq([id : UpdateIds, chat : Chats, cmd : Commands])
    /\ live \subseteq 1..Len(events)
    /\ weekQuiet \in BOOLEAN
    /\ stream \in [epoch : 0..MaxWeeks, old : BOOLEAN]
    /\ rows \in [UpdateIds -> [status : {"absent", "pending", "processing", "processed", "failed"},
                    event : 0..MaxEvents, epoch : 0..MaxWeeks, attempts : Nat,
                    expired : BOOLEAN, due : BOOLEAN, saved : Nat]]
    /\ versions \in [Chats -> [Settings -> [epoch : Int, id : Nat, event : 0..MaxEvents]]]
    /\ effects \in [1..MaxEvents -> Nat]
    /\ closed \subseteq 1..MaxEvents
    /\ chatLock \in [Chats -> Workers \cup {"free"}]
    /\ versionLock \in [Chats -> [Settings -> Workers \cup {"free"}]]
    /\ workers \in [Workers -> [pc : {"idle", "claimed", "locked", "allowed", "processing", "marking", "releasing"},
                    id : UpdateIds \cup {0}, event : 0..MaxEvents, epoch : 0..MaxWeeks,
                    attempts : Nat, apply : BOOLEAN, lang : 0..MaxEvents]]

\* An update's mutation is committed at most once, whatever is redelivered, reclaimed,
\* retried after a lost commit answer, or reported late.
MutationAtMostOnce == \A n \in 1..MaxEvents : effects[n] <= 1

\* Once an update is processed, its setting holds what it asked for or what the user asked
\* for later, in the order the users acted; an interval may also have yielded to a later
\* subscription change.  No late, duplicated or restarted id makes the bot forget it.  The
\* language is written by subscribe too, outside its version, so that it takes the chat lock.
ProcessedMutationInForce ==
    \A n \in closed :
        LET c == events[n].chat  s == MutationSetting(events[n].cmd) IN
        CASE s = "none" -> TRUE
          [] s = "subscription" -> settings[c][s] >= n
          [] s = "interval" -> \/ versions[c]["interval"].event >= n
                               \/ versions[c]["subscription"].event > n
          [] s = "language" -> losses = 0 => settings[c][s] >= n

\* An update never changes a setting that holds what the user asked for after it.
NewerSettingKept ==
    [][\A n \in closed' \ closed, s \in Settings :
          n < settings[events[n].chat][s]
          => settings'[events[n].chat][s] = settings[events[n].chat][s]]_vars

\* An interval chosen before a subscription change never changes the cadence after it, as
\* long as the chat lock serializes the two transactions.
OldIntervalNeverApplied ==
    [][\A c \in Chats :
          settings'[c]["interval"] # settings[c]["interval"] /\ losses = 0
          => settings'[c]["interval"] > settings[c]["subscription"]]_vars

\* Updates of a chat take effect in the order of their ids among those already saved: an
\* update is not processed while an earlier one, saved before it, still waits, for a
\* backoff or for anything else.
ProcessedInSavedOrder ==
    [][\A u, v \in UpdateIds :
          /\ rows[u].status = "processing" /\ rows'[u].status = "processed"
          /\ IsOpen(v) /\ ChatAt(v) = ChatAt(u)
          /\ Before(rows[v].epoch, v, rows[u].epoch, u)
          => rows[v].saved > rows[u].saved]_vars

\* A closed update is never reopened or rewritten by a stale worker; attempts alone is the
\* fence here, there is no claim token.
TerminalIsFinal ==
    [][\A u \in UpdateIds : rows[u].status \in {"processed", "failed"}
         => rows'[u].status \in {rows[u].status, "absent"}]_vars

\* Every saved update is eventually processed or failed: a failing update holds back the
\* later ones of its chat only until its attempts are used up.
EveryUpdateFinishes == \A u \in UpdateIds : IsOpen(u) ~> ~IsOpen(u)
=============================================================================
