------------------------- MODULE NotificationOutbox -------------------------
(***************************************************************************)
(* The notification outbox: cron creates one durable job per due chat, the *)
(* price ticker one per triggered alert, and the alert workers of every    *)
(* replica claim, validate, send and finalize them.                        *)
(*                                                                         *)
(* Rows are shared through PostgreSQL, so every transaction of the code is *)
(* one step here; what a worker does between two transactions, the calls   *)
(* it waits for included, is visible in its pc.                            *)
(*                                                                         *)
(* Time columns hold the time left until the column's value, in ticks,     *)
(* cut off where no comparison tells the values apart: "claimed_until <    *)
(* NOW()" is claimed_until = -1, "next_attempt_at <= NOW()" is             *)
(* next_attempt_at = 0.  last_sent and scheduled_at are only compared by   *)
(* date_trunc('minute', ...), so they hold the number of minute boundaries *)
(* crossed since.  NULL times are the value that compares the same way.    *)
(***************************************************************************)
EXTENDS Integers, FiniteSets

CONSTANTS
    Chats,                \* chat ids
    Workers,              \* alertWorker goroutines of all replicas
    JobIds,               \* slots for rows of notification_jobs
    ClaimWindow,          \* NotificationJobClaimWindow
    SafetyWindow,         \* TelegramSendLeaseSafetyWindow
    LockTimeout,          \* rest of the claiming call and the wait for the chat lock
    CheckTimeout,         \* NotificationSubscriptionCheckTimeout
    ValidationTimeout,    \* NotificationClaimValidationTimeout
    SendTimeout,          \* HTTP timeout of the Telegram client
    MarkTimeout,          \* timeout of a mark* transaction and of an unlock
    FinalizationBudget,   \* sentFinalizationBudget
    MaxFinalizations,     \* tries of the sent transaction
    MaxAttempts,          \* NotificationJobMaxAttempts
    Minute,               \* ticks in a minute
    MaxBackoff,           \* cap of the backoff, in minutes
    MaxRetryAfter,        \* bound: longest retry_after of a Telegram error, in ticks
    MaxInterval,          \* longest interval_minutes a user can choose
    DefaultInterval,      \* interval_minutes of a new subscriber
    CronClaimWindow,      \* how long cron_claimed_until is set ahead
    FailureCooldown,      \* NotificationFailureCooldown
    CronBatchLimit,       \* CronBatchLimit
    CandidateLimit,       \* OutboxClaimCandidateLimit
    MaxFaults,            \* bound: faults of the environment
    MaxUpdates            \* bound: user updates handled

ASSUME JobIdsAssumption == JobIds \subseteq Nat \ {0}

ASSUME ChatsAssumption == Chats # {}

ASSUME WorkersAssumption == Workers \cap {"free", "handler", "orphan"} = {}

ASSUME WindowsAssumption ==
    /\ {ClaimWindow, SafetyWindow, LockTimeout, CheckTimeout, ValidationTimeout,
        SendTimeout, MarkTimeout, FinalizationBudget, CronClaimWindow,
        FailureCooldown, CronBatchLimit, CandidateLimit, MaxRetryAfter, MaxFaults, MaxUpdates} \subseteq Nat
    /\ {MaxFinalizations, MaxAttempts, Minute, MaxBackoff, MaxInterval} \subseteq Nat \ {0}
    /\ DefaultInterval \in 1..MaxInterval

\* A claim found valid outlives the call that validated it and the send after it.
ASSUME SafetyWindowAssumption == ValidationTimeout + SendTimeout <= SafetyWindow

\* The claim window covers the lock wait, both checks, the send and its finalization, and
\* a claim validated as late as its timeouts allow still has the safety margin.
ASSUME ClaimWindowAssumption ==
    /\ \A last \in {MarkTimeout, FinalizationBudget} :
           LockTimeout + CheckTimeout + ValidationTimeout + SendTimeout + last <= ClaimWindow
    /\ LockTimeout + CheckTimeout + ValidationTimeout + SafetyWindow < ClaimWindow

VARIABLES
    jobs,         \* rows of notification_jobs
    subscribers,  \* rows of subscribers
    chatLock,     \* holder of each chat's advisory lock
    workers,      \* local state of each alertWorker
    handling,     \* chats whose inbox worker is inside its transaction
    second,       \* ticks since the last minute boundary
    accepted,     \* per job, the claims whose message Telegram accepted
    disturbed,    \* per job, the claims hit by a fault that hides their outcome
    unserialized, \* chats with a handler that committed after losing its lock
    faults,       \* faults so far
    updates       \* user updates so far

vars == <<jobs, subscribers, chatLock, workers, handling, second,
          accepted, disturbed, unserialized, faults, updates>>

ghosts == <<accepted, disturbed, unserialized>>

OpenStatus == {"pending", "sending"}
TerminalStatus == {"sent", "failed", "canceled"}
Critical == {"locked", "enabled", "validated", "sending", "finalizing"}
Timed == {"claimed", "marking", "releasing"} \cup Critical

Intervals == 1..MaxInterval
Least(a, b) == IF a < b THEN a ELSE b
Down(t, floor) == IF t > floor THEN t - 1 ELSE floor

AbsentJob == [status |-> "absent", kind |-> "scheduled", chat |-> CHOOSE c \in Chats : TRUE,
              alert |-> "none", attempts |-> 0, claim_token |-> 0,
              claimed_until |-> -1, next_attempt_at |-> 0, scheduled_at |-> 0]

\* INSERT INTO notification_jobs; a price alert's job starts with its alert triggered.
NewJob(kind, c) == [AbsentJob EXCEPT !.status = "pending", !.kind = kind, !.chat = c,
                        !.alert = IF kind = "price_alert" THEN "triggered" ELSE "none"]

IdleWorker == [pc |-> "idle", job |-> 0, attempts |-> 0, left |-> 0, finals |-> 0,
               outcome |-> "none", canceled |-> FALSE, stalled |-> FALSE, late |-> FALSE]

\* A chat without a row: last_sent is unset.
NewSubscriber == [is_subscribed |-> FALSE, interval_minutes |-> DefaultInterval,
                  last_sent |-> -1, cron_claimed_until |-> -1,
                  delivery_suspended_until |-> 0]

Init ==
    /\ jobs = [j \in JobIds |-> AbsentJob]
    /\ subscribers = [c \in Chats |-> NewSubscriber]
    /\ chatLock = [c \in Chats |-> "free"]
    /\ workers = [w \in Workers |-> IdleWorker]
    /\ handling = {}
    /\ second = 0
    /\ accepted = [j \in JobIds |-> {}]
    /\ disturbed = [j \in JobIds |-> {}]
    /\ unserialized = {}
    /\ faults = 0
    /\ updates = 0

-----------------------------------------------------------------------------
(* Shared predicates and row updates *)

IsOpen(j) == jobs[j].status \in OpenStatus
OpenScheduled(c) == {j \in JobIds : IsOpen(j) /\ jobs[j].kind = "scheduled" /\ jobs[j].chat = c}

JobOf(w) == jobs[workers[w].job]
ChatOf(w) == JobOf(w).chat
HoldsLock(w) == chatLock[ChatOf(w)] = w

\* Variant with a mistake: any claim in progress counts as the own one.
OwnsByStatus(w) == JobOf(w).status = "sending"

\* WHERE status = 'sending' AND claim_token = $ AND attempts = $: the token is drawn
\* afresh by every claim, as is the value of attempts, so the claim's number is both.
Owns(w) == /\ JobOf(w).status = "sending"
           /\ JobOf(w).claim_token = workers[w].attempts
           /\ JobOf(w).attempts = workers[w].attempts

Goto(w, pc, left) == workers' = [workers EXCEPT ![w].pc = pc, ![w].left = left]

Fault == faults < MaxFaults /\ faults' = faults + 1

\* Variant with a mistake: the lease lasts as long as its safety margin.
ClaimedBriefly(j) == [jobs[j] EXCEPT !.status = "sending", !.attempts = @ + 1,
                          !.claim_token = jobs[j].attempts + 1, !.claimed_until = SafetyWindow]

\* The SET clause of a claim.
Claimed(j) == [jobs[j] EXCEPT !.status = "sending", !.attempts = @ + 1,
                   !.claim_token = jobs[j].attempts + 1, !.claimed_until = ClaimWindow]

\* The SET clause every terminal mark and the retry mark share.
Closed(j, status) == [jobs[j] EXCEPT !.status = status, !.claim_token = 0, !.claimed_until = -1]

\* workers.RetryDelay: linear backoff, capped.
RetryDelay(attempts) == Least(IF attempts < 1 THEN 1 ELSE attempts, MaxBackoff) * Minute

-----------------------------------------------------------------------------
(* Producers *)

\* Variant with a mistake: cron_claimed_until alone keeps a second job out.
DueBesideOpenJob(c) ==
    /\ subscribers[c].is_subscribed
    /\ subscribers[c].last_sent = -1 \/ subscribers[c].last_sent >= subscribers[c].interval_minutes
    /\ subscribers[c].cron_claimed_until = -1
    /\ subscribers[c].delivery_suspended_until = 0

\* Variant with a mistake: a minute early.
DueEarly(c) ==
    /\ subscribers[c].is_subscribed
    /\ subscribers[c].last_sent = -1 \/ subscribers[c].last_sent + 1 >= subscribers[c].interval_minutes
    /\ subscribers[c].cron_claimed_until = -1
    /\ subscribers[c].delivery_suspended_until = 0
    /\ OpenScheduled(c) = {}

\* The due CTE of createCronNotificationJobs.
Due(c) ==
    /\ subscribers[c].is_subscribed
    /\ subscribers[c].last_sent = -1 \/ subscribers[c].last_sent >= subscribers[c].interval_minutes
    /\ subscribers[c].cron_claimed_until = -1
    /\ subscribers[c].delivery_suspended_until = 0
    /\ OpenScheduled(c) = {}

\* createCronNotificationJobs: one transaction claims a batch of due chats and inserts
\* their jobs.  SKIP LOCKED may leave any due row out, so any due set up to the limit
\* can be the batch.
CreateCronNotificationJobs ==
    \E rows \in SUBSET {j \in JobIds : jobs[j].status = "absent"} :
      \E chat \in [rows -> {c \in Chats : Due(c)}] :
        /\ rows # {} /\ Cardinality(rows) <= CronBatchLimit
        /\ \A i, j \in rows : chat[i] = chat[j] => i = j
        /\ jobs' = [j \in JobIds |-> IF j \in rows THEN NewJob("scheduled", chat[j]) ELSE jobs[j]]
        /\ subscribers' = [c \in Chats |->
               IF \E j \in rows : chat[j] = c
               THEN [subscribers[c] EXCEPT !.cron_claimed_until = CronClaimWindow]
               ELSE subscribers[c]]
        /\ UNCHANGED <<chatLock, workers, handling, second, ghosts, faults, updates>>

\* triggerPriceAlert, as far as the outbox sees it: under the chat's transaction lock
\* an active alert becomes triggered and its job is inserted.  The user's update that
\* created the alert is counted here.
TriggerPriceAlert(j, c) ==
    /\ jobs[j].status = "absent"
    /\ chatLock[c] = "free"
    /\ updates < MaxUpdates /\ updates' = updates + 1
    /\ jobs' = [jobs EXCEPT ![j] = NewJob("price_alert", c)]
    /\ UNCHANGED <<subscribers, chatLock, workers, handling, second, ghosts, faults>>

-----------------------------------------------------------------------------
(* An alert worker *)

\* Variant with a mistake: an expired lease is not taken over.
ClaimableIfPending(j) == jobs[j].status = "pending" /\ jobs[j].next_attempt_at = 0

\* WHERE clause of the candidate query, repeated by the claiming UPDATE.
Claimable(j) ==
    /\ IsOpen(j)
    /\ jobs[j].next_attempt_at = 0
    /\ jobs[j].status = "pending" \/ jobs[j].claimed_until = -1

Older(j) == {k \in JobIds : Claimable(k) /\ jobs[k].scheduled_at > jobs[j].scheduled_at}

\* claimPendingNotificationJob: the oldest candidate whose chat lock is free.
ClaimPendingNotificationJob(w, j) ==
    /\ workers[w].pc = "idle"
    /\ Claimable(j)
    /\ Cardinality(Older(j)) < CandidateLimit
    /\ chatLock[jobs[j].chat] = "free"
    /\ \A k \in Older(j) : chatLock[jobs[k].chat] # "free"
    /\ jobs' = [jobs EXCEPT ![j] = Claimed(j)]
    /\ workers' = [workers EXCEPT ![w] = [IdleWorker EXCEPT !.pc = "claimed", !.job = j,
                            !.attempts = jobs[j].attempts + 1, !.left = LockTimeout]]
    /\ UNCHANGED <<subscribers, chatLock, handling, second, ghosts, faults, updates>>

\* Records the outcome the worker will write with its mark* transaction.
Decide(w, outcome) ==
    workers' = [workers EXCEPT ![w].pc = "marking", ![w].left = MarkTimeout, ![w].outcome = outcome]

RetryOrFail(w) == IF workers[w].attempts >= MaxAttempts THEN "failed" ELSE "retry"

\* processNotificationJob finds its context canceled before it starts: always a retry.
ProcessCanceled(w) ==
    /\ workers[w].pc = "claimed" /\ workers[w].canceled
    /\ Decide(w, "retry")
    /\ UNCHANGED <<jobs, subscribers, chatLock, handling, second, ghosts, faults, updates>>

\* acquireTelegramChatAdvisoryLock on a session of the lock pool.
AcquireTelegramChatLock(w) ==
    /\ workers[w].pc = "claimed" /\ ~workers[w].canceled
    /\ chatLock[ChatOf(w)] = "free"
    /\ chatLock' = [chatLock EXCEPT ![ChatOf(w)] = w]
    /\ Goto(w, "locked", CheckTimeout)
    /\ UNCHANGED <<jobs, subscribers, handling, second, ghosts, faults, updates>>

\* deferNotificationJob: the lock wait, the subscription check or the claim validation
\* timed out, failed or was canceled.
DeferNotificationJob(w) ==
    /\ workers[w].pc \in {"claimed", "locked", "enabled", "validated"}
    /\ Decide(w, RetryOrFail(w))
    /\ UNCHANGED <<jobs, subscribers, chatLock, handling, second, ghosts, faults, updates>>

Enabled(j) == IF jobs[j].kind = "price_alert" THEN jobs[j].alert = "triggered"
              ELSE subscribers[jobs[j].chat].is_subscribed

\* notificationEnabled under the chat lock.
CheckNotificationEnabled(w) ==
    /\ workers[w].pc = "locked" /\ ~workers[w].canceled
    /\ IF Enabled(workers[w].job) THEN Goto(w, "enabled", ValidationTimeout)
                                  ELSE Decide(w, "canceled")
    /\ UNCHANGED <<jobs, subscribers, chatLock, handling, second, ghosts, faults, updates>>

\* Variant with a mistake: no validation before the send.
ClaimUnchecked(w) == TRUE

\* Variant with a mistake: no margin for the send.
ClaimCurrentToTheEnd(w) == Owns(w) /\ JobOf(w).claimed_until > 0

ClaimCurrent(w) == Owns(w) /\ JobOf(w).claimed_until > SafetyWindow

\* ensureNotificationJobClaimCurrent: the moment the database evaluates the query.  The
\* answer still has the rest of the call's timeout to arrive.  A worker paused earlier runs
\* again by now, but late: from here on its timeouts count anew, its first lease does not.
EnsureNotificationJobClaimCurrent(w) ==
    /\ workers[w].pc = "enabled" /\ ~workers[w].canceled
    /\ IF ClaimCurrent(w)
       THEN workers' = [workers EXCEPT ![w].pc = "validated", ![w].stalled = FALSE,
                                       ![w].late = workers[w].late \/ workers[w].stalled]
       ELSE Goto(w, "releasing", MarkTimeout)
    /\ UNCHANGED <<jobs, subscribers, chatLock, handling, second, ghosts, faults, updates>>

\* bot.Send starts.
BeginSend(w) ==
    /\ workers[w].pc = "validated"
    /\ Goto(w, "sending", SendTimeout)
    /\ UNCHANGED <<jobs, subscribers, chatLock, handling, second, ghosts, faults, updates>>

Record(log, w) == [log EXCEPT ![workers[w].job] = @ \cup {workers[w].attempts}]

\* bot.Send returns a message: Telegram accepted it.
SendAccepted(w) ==
    /\ workers[w].pc = "sending"
    /\ accepted' = Record(accepted, w)
    /\ Goto(w, "finalizing", FinalizationBudget)
    /\ UNCHANGED <<jobs, subscribers, chatLock, handling, second, disturbed, unserialized, faults, updates>>

\* bot.Send returns an error Telegram marks as permanent.
SendRejected(w) ==
    /\ workers[w].pc = "sending"
    /\ Decide(w, "permanent")
    /\ UNCHANGED <<jobs, subscribers, chatLock, handling, second, ghosts, faults, updates>>

\* Variant with a mistake: an error is taken for success.
SendErrorIgnored(w, reached) ==
    /\ workers[w].pc = "sending"
    /\ Goto(w, "finalizing", FinalizationBudget)
    /\ IF reached THEN accepted' = Record(accepted, w) ELSE UNCHANGED accepted
    /\ UNCHANGED <<jobs, subscribers, chatLock, handling, second, disturbed, unserialized, faults, updates>>

\* bot.Send fails otherwise; the message may still have been accepted and only the
\* answer lost, which the worker cannot tell.
SendFailed(w, reached) ==
    /\ workers[w].pc = "sending"
    /\ Decide(w, RetryOrFail(w))
    /\ IF reached
       THEN accepted' = Record(accepted, w) /\ disturbed' = Record(disturbed, w)
       ELSE UNCHANGED <<accepted, disturbed>>
    /\ UNCHANGED <<jobs, subscribers, chatLock, handling, second, unserialized, faults, updates>>

\* The subscribers UPDATE of each mark*; a price alert's job leaves the row alone.
SubscriberAfter(j, outcome) ==
    LET s == subscribers[jobs[j].chat] IN
    IF jobs[j].kind = "price_alert" THEN s
    ELSE CASE outcome = "sent" ->
                  [s EXCEPT !.last_sent = jobs[j].scheduled_at, !.cron_claimed_until = -1,
                            !.delivery_suspended_until = 0]
           [] outcome = "permanent" ->
                  [s EXCEPT !.is_subscribed = FALSE, !.cron_claimed_until = -1,
                            !.delivery_suspended_until = 0]
           [] outcome = "failed" ->
                  [s EXCEPT !.cron_claimed_until = -1, !.delivery_suspended_until = FailureCooldown]
           [] OTHER -> [s EXCEPT !.cron_claimed_until = -1]

StatusAfter(outcome) == CASE outcome = "retry" -> "pending"
                          [] outcome = "permanent" -> "failed"
                          [] OTHER -> outcome

\* telegramRetryDelay: the backoff, lengthened by the retry_after of a Telegram error, which
\* has no cap in the code.  Every retry may be lengthened here, also one no send led to.
RetryDelays(attempts) == {RetryDelay(attempts)} \cup (RetryDelay(attempts)..MaxRetryAfter)

\* The transaction of a mark*: both rows, or neither when the claim is not current.
WriteOutcome(w, outcome) ==
    LET j == workers[w].job IN
    IF Owns(w)
    THEN /\ \E delay \in IF outcome = "retry" THEN RetryDelays(workers[w].attempts)
                                             ELSE {jobs[j].next_attempt_at} :
              jobs' = [jobs EXCEPT ![j] = [Closed(j, StatusAfter(outcome)) EXCEPT !.next_attempt_at = delay]]
         /\ subscribers' = [subscribers EXCEPT ![jobs[j].chat] = SubscriberAfter(j, outcome)]
    ELSE UNCHANGED <<jobs, subscribers>>

\* markNotificationJobRetry, markNotificationJobFailed, markNotificationJobCanceled.
MarkNotificationJob(w) ==
    /\ workers[w].pc = "marking"
    /\ WriteOutcome(w, workers[w].outcome)
    /\ Goto(w, "releasing", MarkTimeout)
    /\ UNCHANGED <<chatLock, handling, second, ghosts, faults, updates>>

\* The mark's transaction rolls back; the code only logs it.
MarkError(w) ==
    /\ workers[w].pc = "marking"
    /\ Fault
    /\ Goto(w, "releasing", MarkTimeout)
    /\ UNCHANGED <<jobs, subscribers, chatLock, handling, second, ghosts, updates>>

\* finalize: markNotificationJobSentOnce commits or finds the claim gone; either ends the loop.
FinalizeSent(w) ==
    /\ workers[w].pc = "finalizing"
    /\ WriteOutcome(w, "sent")
    /\ Goto(w, "releasing", MarkTimeout)
    /\ UNCHANGED <<chatLock, handling, second, ghosts, faults, updates>>

\* A try that reports an error: rolled back, or committed with the answer lost.
FinalizeError(w, committed) ==
    /\ workers[w].pc = "finalizing"
    /\ workers[w].finals + 1 < MaxFinalizations
    /\ workers' = [workers EXCEPT ![w].finals = @ + 1]
    /\ IF committed THEN Owns(w) /\ WriteOutcome(w, "sent") ELSE UNCHANGED <<jobs, subscribers>>
    /\ UNCHANGED <<chatLock, handling, second, ghosts, faults, updates>>

\* The last try fails, or the budget runs out between two tries.
FinalizeGiveUp(w) ==
    /\ workers[w].pc = "finalizing"
    /\ workers[w].finals + 1 = MaxFinalizations \/ workers[w].left = 0
    /\ Fault
    /\ disturbed' = Record(disturbed, w)
    /\ Goto(w, "releasing", MarkTimeout)
    /\ UNCHANGED <<jobs, subscribers, chatLock, handling, second, accepted, unserialized, updates>>

\* The deferred releaseTelegramChatAdvisoryLock and the end of processNotificationJob; a
\* session whose unlock fails is discarded, which frees the lock as well.  A worker whose
\* context is canceled returns from its loop and its replacement starts idle.
ReleaseTelegramChatLock(w) ==
    /\ workers[w].pc = "releasing"
    /\ chatLock' = IF HoldsLock(w) THEN [chatLock EXCEPT ![ChatOf(w)] = "free"] ELSE chatLock
    /\ workers' = [workers EXCEPT ![w] = IdleWorker]
    /\ UNCHANGED <<jobs, subscribers, handling, second, ghosts, faults, updates>>

-----------------------------------------------------------------------------
(* Faults *)

\* The process dies; its lock session lingers until the server notices.  A send in
\* flight may or may not have been accepted.
Crash(w, reached) ==
    /\ workers[w].pc # "idle"
    /\ reached => workers[w].pc = "sending"
    /\ Fault
    /\ chatLock' = IF HoldsLock(w) THEN [chatLock EXCEPT ![ChatOf(w)] = "orphan"] ELSE chatLock
    /\ accepted' = IF reached THEN Record(accepted, w) ELSE accepted
    /\ disturbed' = Record(disturbed, w)
    /\ workers' = [workers EXCEPT ![w] = IdleWorker]
    /\ UNCHANGED <<jobs, subscribers, handling, second, unserialized, updates>>

ReapSession(c) ==
    /\ chatLock[c] = "orphan"
    /\ chatLock' = [chatLock EXCEPT ![c] = "free"]
    /\ UNCHANGED <<jobs, subscribers, workers, handling, second, ghosts, faults, updates>>

\* The session that holds the lock is lost while its worker carries on unaware.
LoseLockSession(w) ==
    /\ workers[w].pc # "idle" /\ HoldsLock(w)
    /\ Fault
    /\ chatLock' = [chatLock EXCEPT ![ChatOf(w)] = "free"]
    /\ disturbed' = Record(disturbed, w)
    /\ UNCHANGED <<jobs, subscribers, workers, handling, second, accepted, unserialized, updates>>

\* The worker is paused: from here on its timeouts do not bound the time it takes.
Stall(w) ==
    /\ workers[w].pc # "idle" /\ ~workers[w].stalled
    /\ Fault
    /\ workers' = [workers EXCEPT ![w].stalled = TRUE]
    /\ UNCHANGED <<jobs, subscribers, chatLock, handling, second, ghosts, updates>>

\* Graceful shutdown cancels the worker's context.
CancelContext(w) ==
    /\ workers[w].pc # "idle" /\ ~workers[w].canceled
    /\ Fault
    /\ workers' = [workers EXCEPT ![w].canceled = TRUE]
    /\ UNCHANGED <<jobs, subscribers, chatLock, handling, second, ghosts, updates>>

-----------------------------------------------------------------------------
(* The inbox worker that handles a user's update of the chat: it holds the    *)
(* chat lock around a transaction on another connection.                      *)

HandlerBegin(c) ==
    /\ c \notin handling /\ chatLock[c] = "free"
    /\ updates < MaxUpdates /\ updates' = updates + 1
    /\ handling' = handling \cup {c}
    /\ chatLock' = [chatLock EXCEPT ![c] = "handler"]
    /\ UNCHANGED <<jobs, subscribers, workers, second, ghosts, faults>>

LoseHandlerSession(c) ==
    /\ chatLock[c] = "handler"
    /\ Fault
    /\ chatLock' = [chatLock EXCEPT ![c] = "free"]
    /\ UNCHANGED <<jobs, subscribers, workers, handling, second, ghosts, updates>>

\* Commit and unlock, common to every handled update.
HandlerEnd(c) ==
    /\ c \in handling
    /\ handling' = handling \ {c}
    /\ chatLock' = IF chatLock[c] = "handler" THEN [chatLock EXCEPT ![c] = "free"] ELSE chatLock
    /\ unserialized' = IF chatLock[c] = "handler" THEN unserialized ELSE unserialized \cup {c}
    /\ UNCHANGED <<workers, second, accepted, disturbed, faults, updates>>

\* The subscribe branch: existing interval and last_sent are kept.
Subscribe(c) ==
    /\ HandlerEnd(c)
    /\ subscribers' = [subscribers EXCEPT ![c].is_subscribed = TRUE,
           ![c].last_sent = IF @ = -1 THEN Least(2, MaxInterval) ELSE @,
           ![c].delivery_suspended_until = 0]
    /\ UNCHANGED jobs

\* The setlang_ callback: creates the row of a chat that has none, not subscribed.
SetLanguage(c) ==
    /\ HandlerEnd(c)
    /\ subscribers' = [subscribers EXCEPT ![c].last_sent = IF @ = -1 THEN Least(2, MaxInterval) ELSE @]
    /\ UNCHANGED jobs

\* Variant with a mistake: cron_claimed_until stays.
UnsubscribeLeavingClaim(c) ==
    /\ HandlerEnd(c)
    /\ subscribers' = [subscribers EXCEPT ![c].is_subscribed = FALSE, ![c].delivery_suspended_until = 0]
    /\ jobs' = [j \in JobIds |-> IF j \in OpenScheduled(c) THEN Closed(j, "canceled") ELSE jobs[j]]

\* unsubscribe: the row is deactivated and the chat's open scheduled jobs are canceled.
Unsubscribe(c) ==
    /\ HandlerEnd(c)
    /\ subscribers' = [subscribers EXCEPT ![c].is_subscribed = FALSE,
           ![c].cron_claimed_until = -1, ![c].delivery_suspended_until = 0]
    /\ jobs' = [j \in JobIds |-> IF j \in OpenScheduled(c) THEN Closed(j, "canceled") ELSE jobs[j]]

\* The int_ callback: only an active subscriber's row is updated.
SetInterval(c, minutes) ==
    /\ HandlerEnd(c)
    /\ subscribers' = IF subscribers[c].is_subscribed
                      THEN [subscribers EXCEPT ![c].interval_minutes = minutes, ![c].last_sent = 0]
                      ELSE subscribers
    /\ UNCHANGED jobs

\* cancelPriceAlert of an alert with an open job: the alert and the job are canceled.
CancelPriceAlert(c, j) ==
    /\ HandlerEnd(c)
    /\ IsOpen(j) /\ jobs[j].kind = "price_alert" /\ jobs[j].chat = c
    /\ jobs' = [jobs EXCEPT ![j] = [Closed(j, "canceled") EXCEPT !.alert = "canceled"]]
    /\ UNCHANGED subscribers

\* An update that touches neither the row nor an alert, or whose transaction rolls back.
HandleOther(c) ==
    /\ HandlerEnd(c)
    /\ UNCHANGED <<jobs, subscribers>>

-----------------------------------------------------------------------------
(* Retention and time *)

\* cleanupNotificationJobHistory: terminal rows old enough go, open ones never.  Ids are
\* never reused, so a slot is free again only when no worker still refers to it.
CleanupNotificationJobHistory(j) ==
    /\ jobs[j].status \in TerminalStatus
    /\ \A w \in Workers : workers[w].job # j
    /\ jobs' = [jobs EXCEPT ![j] = AbsentJob]
    /\ accepted' = [accepted EXCEPT ![j] = {}]
    /\ disturbed' = [disturbed EXCEPT ![j] = {}]
    /\ UNCHANGED <<subscribers, chatLock, workers, handling, second, unserialized, faults, updates>>

\* A minute boundary ages a truncated timestamp that is set, up to the longest interval.
AgeMinutes(m) == IF second + 1 = Minute /\ m >= 0 /\ m < MaxInterval THEN m + 1 ELSE m

\* One tick of time: no running call outlives its timeout, unless its worker is paused.
Tick ==
    /\ \A w \in Workers : workers[w].pc \in Timed /\ ~workers[w].stalled => workers[w].left > 0
    /\ second' = (second + 1) % Minute
    /\ jobs' = [j \in JobIds |-> [jobs[j] EXCEPT
           !.claimed_until = Down(@, -1), !.next_attempt_at = Down(@, 0),
           !.scheduled_at = IF jobs[j].status = "absent" THEN @ ELSE AgeMinutes(@)]]
    /\ subscribers' = [c \in Chats |-> [subscribers[c] EXCEPT
           !.last_sent = AgeMinutes(@), !.cron_claimed_until = Down(@, -1),
           !.delivery_suspended_until = Down(@, 0)]]
    /\ workers' = [w \in Workers |-> [workers[w] EXCEPT !.left = Down(@, 0)]]
    /\ UNCHANGED <<chatLock, handling, ghosts, faults, updates>>

-----------------------------------------------------------------------------

\* What an alert worker does without the environment's help.
WorkerStep(w) ==
    \/ ProcessCanceled(w) \/ AcquireTelegramChatLock(w) \/ DeferNotificationJob(w)
    \/ CheckNotificationEnabled(w) \/ EnsureNotificationJobClaimCurrent(w) \/ BeginSend(w)
    \/ SendAccepted(w) \/ SendRejected(w) \/ \E reached \in BOOLEAN : SendFailed(w, reached)
    \/ MarkNotificationJob(w) \/ FinalizeSent(w)
    \/ \E committed \in BOOLEAN : FinalizeError(w, committed)
    \/ ReleaseTelegramChatLock(w)

WorkerFault(w) ==
    \/ MarkError(w) \/ FinalizeGiveUp(w) \/ LoseLockSession(w) \/ Stall(w) \/ CancelContext(w)
    \/ \E reached \in BOOLEAN : Crash(w, reached)

HandlerCommit(c) ==
    \/ Subscribe(c) \/ Unsubscribe(c) \/ SetLanguage(c) \/ HandleOther(c)
    \/ \E minutes \in Intervals : SetInterval(c, minutes)
    \/ \E j \in JobIds : CancelPriceAlert(c, j)

Next ==
    \/ CreateCronNotificationJobs
    \/ \E j \in JobIds : CleanupNotificationJobHistory(j)
    \/ \E j \in JobIds, c \in Chats : TriggerPriceAlert(j, c)
    \/ \E w \in Workers, j \in JobIds : ClaimPendingNotificationJob(w, j)
    \/ \E w \in Workers : WorkerStep(w) \/ WorkerFault(w)
    \/ \E c \in Chats : HandlerBegin(c) \/ LoseHandlerSession(c) \/ HandlerCommit(c) \/ ReapSession(c)
    \/ Tick

Spec == Init /\ [][Next]_vars

\* The workers' loops run, calls end by their timeouts, sessions of dead processes are
\* closed by the server, handlers finish, time passes.  A claim needs a poll (every two
\* seconds) to meet a moment at which the chat is free, which it does when such moments
\* come again and again.
Fairness ==
    /\ WF_vars(Tick)
    /\ \A w \in Workers : WF_vars(WorkerStep(w))
    /\ \A j \in JobIds : SF_vars(\E w \in Workers : ClaimPendingNotificationJob(w, j))
    /\ \A c \in Chats : WF_vars(HandlerCommit(c)) /\ WF_vars(ReapSession(c))

FairSpec == Spec /\ Fairness

-----------------------------------------------------------------------------
(* Properties *)

JobType == [status : {"absent"} \cup OpenStatus \cup TerminalStatus,
            kind : {"scheduled", "price_alert"}, chat : Chats,
            alert : {"none", "triggered", "canceled"},
            attempts : Nat, claim_token : Nat, claimed_until : -1..ClaimWindow,
            next_attempt_at : Nat, scheduled_at : 0..MaxInterval]

SubscriberType == [is_subscribed : BOOLEAN, interval_minutes : Intervals,
                   last_sent : -1..MaxInterval, cron_claimed_until : -1..CronClaimWindow,
                   delivery_suspended_until : 0..FailureCooldown]

WorkerType == [pc : {"idle"} \cup Timed, job : JobIds \cup {0}, attempts : Nat, left : Nat,
               finals : Nat, outcome : {"none", "retry", "failed", "permanent", "canceled"},
               canceled : BOOLEAN, stalled : BOOLEAN, late : BOOLEAN]

\* Every variable keeps its type.
TypeOK ==
    /\ jobs \in [JobIds -> JobType]
    /\ subscribers \in [Chats -> SubscriberType]
    /\ chatLock \in [Chats -> Workers \cup {"free", "handler", "orphan"}]
    /\ workers \in [Workers -> WorkerType]
    /\ handling \subseteq Chats
    /\ second \in 0..(Minute - 1)
    /\ accepted \in [JobIds -> SUBSET Nat]
    /\ disturbed \in [JobIds -> SUBSET Nat]
    /\ unserialized \subseteq Chats
    /\ faults \in 0..MaxFaults
    /\ updates \in 0..MaxUpdates

\* A message Telegram accepted is never sent again, unless the claim that sent it was
\* disturbed: the answer was lost, its process died, all tries to record it failed or
\* its lock session was lost.  In particular a paused worker, an expired lease or a
\* concurrent reclaim alone never duplicates a delivery: an undisturbed accepted claim
\* stays the job's last one, and the job never becomes pending or failed after it.
ResentOnlyIfDisturbed ==
    \A j \in JobIds : \A a \in accepted[j] \ disturbed[j] :
        jobs[j].attempts = a /\ jobs[j].status \in {"sending", "sent", "canceled"}

\* Two workers send the same job at the same time only if one of them was paused after its
\* claim was validated and has lost its lock session as well: the chat lock and the lease
\* margin of ensureNotificationJobClaimCurrent each exclude it on their own, however late
\* the worker came to its validation.
OneSenderPerJob ==
    \A v, w \in Workers :
        /\ v # w /\ workers[v].pc = "sending" /\ workers[w].pc = "sending"
        /\ workers[v].job = workers[w].job
        => \E u \in {v, w} : workers[u].stalled /\ ~HoldsLock(u)

\* The lease of a worker that was never paused does not expire before the worker has recorded
\* its outcome, so its job is not taken from it, even without the chat lock.
LeaseCoversWork ==
    \A w \in Workers :
        /\ workers[w].pc \notin {"idle", "releasing"}
        /\ ~workers[w].stalled /\ ~workers[w].late
        /\ Owns(w)
        => JobOf(w).claimed_until >= 0

\* While a worker that holds the chat lock is sending, its job is still its own and still
\* wanted: nobody unsubscribed the chat or canceled the alert between the check and the
\* send, as long as the handlers of the chat kept their lock too.
SendsOnlyWanted ==
    \A w \in Workers :
        workers[w].pc = "sending" /\ HoldsLock(w) /\ ChatOf(w) \notin unserialized
        => Owns(w) /\ Enabled(workers[w].job)

\* A chat never has two open scheduled jobs: the due query of cron, and not the unique
\* index behind it, keeps the second one out.
OneOpenScheduledJob ==
    \A c \in Chats : \A i, j \in OpenScheduled(c) : i = j

\* cron_claimed_until is never left set without an open scheduled job: no way a job can
\* end leaves its chat barred from cron.
NoOrphanCronClaim ==
    \A c \in Chats : subscribers[c].cron_claimed_until >= 0 => OpenScheduled(c) # {}

Phase(j) == CASE IsOpen(j) -> "open"
              [] jobs[j].status \in TerminalStatus -> jobs[j].status
              [] OTHER -> "none"

Delivery == INSTANCE DurableDelivery WITH
    Jobs <- JobIds, phase <- [j \in JobIds |-> Phase(j)], doubted <- disturbed

\* The outbox implements DurableDelivery: jobs end once and for good, sent only if accepted
\* and failed only if no copy was certain, and no fault but a doubt about the first copy
\* makes a second one.
ImplementsDelivery == Delivery!Spec

\* A finished job is never reopened or rewritten, whatever stale worker reports late;
\* only retention removes it.
TerminalIsFinal ==
    [][\A j \in JobIds : jobs[j].status \in TerminalStatus
         => jobs'[j].status \in {jobs[j].status, "absent"}]_vars

\* Cron schedules a chat again no earlier than its interval after the schedule time of
\* any job of the chat that was delivered, in spite of late finalizations that set
\* last_sent back to the job's schedule time.
ScheduleKeepsInterval ==
    [][\A i, j \in JobIds :
          /\ jobs[j].status = "absent" /\ jobs'[j].status = "pending" /\ jobs'[j].kind = "scheduled"
          /\ jobs[i].status = "sent" /\ jobs[i].kind = "scheduled" /\ jobs[i].chat = jobs'[j].chat
          => jobs[i].scheduled_at >= subscribers[jobs[i].chat].interval_minutes]_vars

\* Every job is eventually finished, once faults and user updates are finitely many.
EveryJobFinishes ==
    \A j \in JobIds : IsOpen(j) ~> ~IsOpen(j)
=============================================================================
