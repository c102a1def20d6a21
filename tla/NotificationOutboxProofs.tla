---------------------- MODULE NotificationOutboxProofs ----------------------
(***************************************************************************)
(* The safety of the notification outbox for every number of chats, jobs,  *)
(* workers, faults and every choice of windows that keeps the assumptions. *)
(***************************************************************************)
EXTENDS NotificationOutbox, TLAPS

-----------------------------------------------------------------------------
(* The inductive invariant *)

Busy(w) == workers[w].pc # "idle"

\* A worker at work refers to an existing row and to one of its claims, and it marks only
\* an outcome it has decided on.
ClaimsExist ==
    \A w \in Workers : Busy(w) =>
        /\ workers[w].job \in JobIds
        /\ JobOf(w).status # "absent"
        /\ workers[w].attempts >= 1
        /\ workers[w].attempts <= JobOf(w).attempts
        /\ workers[w].pc = "marking" => workers[w].outcome # "none"

\* No two workers carry out the same claim.
ClaimsDistinct ==
    \A v, w \in Workers :
        v # w /\ Busy(v) /\ Busy(w) /\ workers[v].job = workers[w].job
        => workers[v].attempts # workers[w].attempts

\* The claim token belongs to the last claim.
TokenCurrent ==
    \A j \in JobIds : jobs[j].status = "sending" => jobs[j].claim_token = jobs[j].attempts

\* A worker holds only the lock of its job's chat.
LockOfOwnChat ==
    \A c \in Chats, w \in Workers :
        chatLock[c] = w => Busy(w) /\ workers[w].pc # "claimed" /\ ChatOf(w) = c

\* Between lock and unlock the lock is held, unless its session was lost.
CriticalLocked ==
    \A w \in Workers : workers[w].pc \in Critical =>
        HoldsLock(w) \/ workers[w].attempts \in disturbed[workers[w].job]

\* Nobody but the worker of the last claim, or a user, ends that claim.
LastClaimOpen ==
    \A w \in Workers :
        /\ workers[w].pc \in {"claimed", "marking"} \cup Critical
        /\ workers[w].attempts = JobOf(w).attempts
        => \/ JobOf(w).status \in {"sending", "canceled"}
           \/ workers[w].pc = "finalizing" /\ JobOf(w).status = "sent"

\* A validated claim stays the last one as long as the lock is held.
ValidatedIsLast ==
    \A w \in Workers :
        workers[w].pc \in {"validated", "sending", "finalizing"} /\ HoldsLock(w)
        => workers[w].attempts = JobOf(w).attempts

\* An undisturbed accepted claim is the job's last one, and it is recorded or its worker
\* is about to record it.
AcceptedIsLast ==
    \A j \in JobIds : \A a \in accepted[j] \ disturbed[j] :
        /\ a = jobs[j].attempts
        /\ \/ jobs[j].status \in {"sent", "canceled"}
           \/ \E w \in Workers : /\ workers[w].pc = "finalizing"
                                 /\ workers[w].job = j /\ workers[w].attempts = a

\* The time a worker may still take after its current call, up to its outcome.
Last == IF MarkTimeout > FinalizationBudget THEN MarkTimeout ELSE FinalizationBudget
Rest(pc) == CASE pc = "claimed" -> CheckTimeout + ValidationTimeout + SendTimeout + Last
              [] pc = "locked" -> ValidationTimeout + SendTimeout + Last
              [] pc \in {"enabled", "validated"} -> SendTimeout + Last
              [] pc = "sending" -> Last
              [] OTHER -> 0

\* The lease of a worker that was never paused covers the work it has left.
LeaseCovers ==
    \A w \in Workers :
        /\ workers[w].pc \in {"claimed", "marking"} \cup Critical
        /\ ~workers[w].stalled /\ ~workers[w].late
        => /\ workers[w].attempts = JobOf(w).attempts
           /\ JobOf(w).status = "sending"
              => JobOf(w).claimed_until >= workers[w].left + Rest(workers[w].pc)

\* From its validation on, the lease of a worker not paused since covers the send.
LeaseCoversSend ==
    \A w \in Workers :
        /\ workers[w].pc = "enabled" => workers[w].left <= ValidationTimeout
        /\ workers[w].pc \in {"validated", "sending"} /\ ~workers[w].stalled
           => /\ workers[w].attempts = JobOf(w).attempts
              /\ JobOf(w).status = "sending"
                 => JobOf(w).claimed_until >= workers[w].left +
                        (IF workers[w].pc = "validated" THEN SendTimeout ELSE 0)

IInv ==
    /\ TypeOK /\ ClaimsExist /\ ClaimsDistinct /\ TokenCurrent /\ LockOfOwnChat
    /\ CriticalLocked /\ LastClaimOpen /\ ValidatedIsLast /\ AcceptedIsLast
    /\ LeaseCovers /\ LeaseCoversSend

-----------------------------------------------------------------------------
(* Types *)

\* The row of an unused slot has the type of a row.
LEMMA AbsentJobType == AbsentJob \in JobType
<1>1. (CHOOSE c \in Chats : TRUE) \in Chats
  BY ChatsAssumption
<1> QED
  BY <1>1, WindowsAssumption DEF AbsentJob, JobType, OpenStatus, TerminalStatus

\* The retry delays a mark may choose are natural numbers.
LEMMA RetryDelaysType == \A n \in Nat : RetryDelays(n) \subseteq Nat
<1> SUFFICES ASSUME NEW n \in Nat, NEW d \in RetryDelays(n) PROVE d \in Nat
  OBVIOUS
<1>1. Least(IF n < 1 THEN 1 ELSE n, MaxBackoff) \in Nat /\ Minute \in Nat
  BY WindowsAssumption DEF Least
<1>2. \A a, b \in Nat : a * b \in Nat
  OBVIOUS
<1>3. RetryDelay(n) \in Nat
  BY <1>1, <1>2 DEF RetryDelay
<1> QED
  BY <1>3, WindowsAssumption DEF RetryDelays

\* Each window is a natural number.
LEMMA WindowTypes ==
    /\ ClaimWindow \in Nat /\ SafetyWindow \in Nat /\ LockTimeout \in Nat /\ CheckTimeout \in Nat
    /\ ValidationTimeout \in Nat /\ SendTimeout \in Nat /\ MarkTimeout \in Nat
    /\ FinalizationBudget \in Nat /\ CronClaimWindow \in Nat /\ FailureCooldown \in Nat
    /\ MaxFaults \in Nat /\ MaxUpdates \in Nat
    /\ Minute \in Nat \ {0} /\ MaxInterval \in Nat \ {0} /\ DefaultInterval \in Intervals
  BY WindowsAssumption DEF Intervals

\* A row of notification_jobs stays one when a column gets a value of its type.
LEMMA JobColumns ==
    ASSUME NEW row \in JobType
    PROVE  /\ \A x \in OpenStatus \cup TerminalStatus : [row EXCEPT !.status = x] \in JobType
           /\ \A x \in {"scheduled", "price_alert"} : [row EXCEPT !.kind = x] \in JobType
           /\ \A x \in Chats : [row EXCEPT !.chat = x] \in JobType
           /\ \A x \in {"none", "triggered", "canceled"} : [row EXCEPT !.alert = x] \in JobType
           /\ \A x \in Nat : [row EXCEPT !.attempts = x] \in JobType
           /\ \A x \in Nat : [row EXCEPT !.claim_token = x] \in JobType
           /\ \A x \in -1..ClaimWindow : [row EXCEPT !.claimed_until = x] \in JobType
           /\ \A x \in Nat : [row EXCEPT !.next_attempt_at = x] \in JobType
           /\ \A x \in 0..MaxInterval : [row EXCEPT !.scheduled_at = x] \in JobType
  BY DEF JobType

\* A row of subscribers stays one when a column gets a value of its type.
LEMMA SubscriberColumns ==
    ASSUME NEW row \in SubscriberType
    PROVE  /\ \A x \in BOOLEAN : [row EXCEPT !.is_subscribed = x] \in SubscriberType
           /\ \A x \in Intervals : [row EXCEPT !.interval_minutes = x] \in SubscriberType
           /\ \A x \in -1..MaxInterval : [row EXCEPT !.last_sent = x] \in SubscriberType
           /\ \A x \in -1..CronClaimWindow : [row EXCEPT !.cron_claimed_until = x] \in SubscriberType
           /\ \A x \in 0..FailureCooldown : [row EXCEPT !.delivery_suspended_until = x] \in SubscriberType
  BY DEF SubscriberType

\* A worker's state stays one when a field gets a value of its type.
LEMMA WorkerFields ==
    ASSUME NEW state \in WorkerType
    PROVE  /\ \A x \in {"idle"} \cup Timed : [state EXCEPT !.pc = x] \in WorkerType
           /\ \A x \in JobIds : [state EXCEPT !.job = x] \in WorkerType
           /\ \A x \in Nat : [state EXCEPT !.attempts = x] \in WorkerType
           /\ \A x \in Nat : [state EXCEPT !.left = x] \in WorkerType
           /\ \A x \in Nat : [state EXCEPT !.finals = x] \in WorkerType
           /\ \A x \in {"none", "retry", "failed", "permanent", "canceled"} :
                 [state EXCEPT !.outcome = x] \in WorkerType
           /\ \A x \in BOOLEAN : [state EXCEPT !.canceled = x] \in WorkerType
           /\ \A x \in BOOLEAN : [state EXCEPT !.stalled = x] \in WorkerType
           /\ \A x \in BOOLEAN : [state EXCEPT !.late = x] \in WorkerType
  BY DEF WorkerType

\* The columns' values that end a claim have the columns' types.
LEMMA ClosedType ==
    ASSUME NEW j, jobs[j] \in JobType, NEW status \in OpenStatus \cup TerminalStatus
    PROVE  Closed(j, status) \in JobType
<1>1. 0 \in Nat /\ -1 \in -1..ClaimWindow
  BY WindowTypes
<1> QED
  BY <1>1, JobColumns DEF Closed

\* A mark's transaction keeps the types of both tables, whichever outcome it writes.
LEMMA WriteOutcomeType ==
    ASSUME TypeOK, NEW w \in Workers, workers[w].job \in JobIds,
           NEW outcome \in {"sent", "retry", "failed", "permanent", "canceled"},
           WriteOutcome(w, outcome)
    PROVE  /\ jobs' \in [JobIds -> JobType]
           /\ subscribers' \in [Chats -> SubscriberType]
<1> DEFINE j == workers[w].job
<1>1. jobs[j] \in JobType /\ subscribers[jobs[j].chat] \in SubscriberType /\ jobs[j].chat \in Chats
  BY DEF TypeOK, JobType
<1>2. CASE Owns(w)
  <2>1. PICK delay \in IF outcome = "retry" THEN RetryDelays(workers[w].attempts)
                                           ELSE {jobs[j].next_attempt_at} :
            jobs' = [jobs EXCEPT ![j] =
                        [Closed(j, StatusAfter(outcome)) EXCEPT !.next_attempt_at = delay]]
    BY <1>2 DEF WriteOutcome
  <2>2. delay \in Nat
    BY <1>1, <2>1, RetryDelaysType DEF TypeOK, WorkerType, JobType
  <2>3. [Closed(j, StatusAfter(outcome)) EXCEPT !.next_attempt_at = delay] \in JobType
    <3>1. StatusAfter(outcome) \in OpenStatus \cup TerminalStatus
      BY DEF StatusAfter, OpenStatus, TerminalStatus
    <3>2. Closed(j, StatusAfter(outcome)) \in JobType
      BY <1>1, <3>1, ClosedType
    <3> QED
      BY <2>2, <3>2, JobColumns
  <2>4. SubscriberAfter(j, outcome) \in SubscriberType
    <3>1. /\ jobs[j].scheduled_at \in -1..MaxInterval /\ -1 \in -1..CronClaimWindow
          /\ 0 \in 0..FailureCooldown /\ FailureCooldown \in 0..FailureCooldown /\ FALSE \in BOOLEAN
      BY <1>1, WindowTypes DEF JobType
    <3> QED
      BY <1>1, <3>1, SubscriberColumns DEF SubscriberAfter
  <2> QED
    BY <1>1, <1>2, <2>1, <2>3, <2>4 DEF WriteOutcome, TypeOK
<1>3. CASE ~Owns(w)
  BY <1>3 DEF WriteOutcome, TypeOK
<1> QED
  BY <1>2, <1>3

\* A worker that goes on to its next call keeps its type.
LEMMA GotoType ==
    ASSUME TypeOK, NEW w \in Workers, NEW pc \in Timed, NEW left \in Nat, Goto(w, pc, left)
    PROVE  workers' \in [Workers -> WorkerType]
  BY WorkerFields DEF TypeOK, Goto

\* A worker that has decided on an outcome keeps its type.
LEMMA DecideType ==
    ASSUME TypeOK, NEW w \in Workers, NEW outcome \in {"retry", "failed", "permanent", "canceled"},
           Decide(w, outcome)
    PROVE  workers' \in [Workers -> WorkerType]
  BY WorkerFields, WindowTypes DEF TypeOK, Decide, Timed

\* An idle worker has the type of a worker.
LEMMA IdleType == IdleWorker \in WorkerType
  BY DEF IdleWorker, WorkerType

\* A log of claims stays one when a worker's claim is recorded.
LEMMA RecordType ==
    ASSUME NEW log \in [JobIds -> SUBSET Nat], NEW w \in Workers, workers[w] \in WorkerType
    PROVE  Record(log, w) \in [JobIds -> SUBSET Nat]
  BY DEF Record, WorkerType

\* Handling of an update keeps the types of the lock and of its bookkeeping.
LEMMA HandlerEndType ==
    ASSUME TypeOK, NEW c \in Chats, HandlerEnd(c),
           jobs' \in [JobIds -> JobType], subscribers' \in [Chats -> SubscriberType]
    PROVE  TypeOK'
  BY DEF TypeOK, HandlerEnd

\* A remainder is smaller than its divisor.
LEMMA RemainderRange ==
    ASSUME NEW a \in Nat, NEW b \in Nat, b > 0
    PROVE  a % b \in 0..(b - 1)
  OBVIOUS

\* Minutes age, and times run down, within their types.
LEMMA AgingTypes ==
    /\ \A m \in -1..MaxInterval : AgeMinutes(m) \in -1..MaxInterval
    /\ \A m \in 0..MaxInterval : AgeMinutes(m) \in 0..MaxInterval
    /\ \A t \in -1..ClaimWindow : Down(t, -1) \in -1..ClaimWindow
    /\ \A t \in -1..CronClaimWindow : Down(t, -1) \in -1..CronClaimWindow
    /\ \A t \in 0..FailureCooldown : Down(t, 0) \in 0..FailureCooldown
    /\ \A t \in Nat : Down(t, 0) \in Nat
  BY WindowTypes DEF AgeMinutes, Down

\* A tick leaves a row of notification_jobs one.
LEMMA TickedJob ==
    ASSUME NEW row \in JobType
    PROVE  [row EXCEPT !.claimed_until = Down(@, -1), !.next_attempt_at = Down(@, 0),
                !.scheduled_at = IF row.status = "absent" THEN @ ELSE AgeMinutes(@)] \in JobType
<1> DEFINE until == Down(row.claimed_until, -1)
           next == Down(row.next_attempt_at, 0)
           age == IF row.status = "absent" THEN row.scheduled_at ELSE AgeMinutes(row.scheduled_at)
<1>1. until \in -1..ClaimWindow /\ next \in Nat /\ age \in 0..MaxInterval
  BY AgingTypes DEF JobType
<1> HIDE DEF until, next, age
<1>2. [row EXCEPT !.claimed_until = until, !.next_attempt_at = next, !.scheduled_at = age] \in JobType
  BY <1>1, JobColumns
<1> QED
  BY <1>2 DEF until, next, age, JobType

\* A tick leaves a row of subscribers one.
LEMMA TickedSubscriber ==
    ASSUME NEW row \in SubscriberType
    PROVE  [row EXCEPT !.last_sent = AgeMinutes(@), !.cron_claimed_until = Down(@, -1),
                !.delivery_suspended_until = Down(@, 0)] \in SubscriberType
<1> DEFINE age == AgeMinutes(row.last_sent)
           until == Down(row.cron_claimed_until, -1)
           suspended == Down(row.delivery_suspended_until, 0)
<1>1. age \in -1..MaxInterval /\ until \in -1..CronClaimWindow /\ suspended \in 0..FailureCooldown
  BY AgingTypes DEF SubscriberType
<1> HIDE DEF age, until, suspended
<1>2. [row EXCEPT !.last_sent = age, !.cron_claimed_until = until,
                  !.delivery_suspended_until = suspended] \in SubscriberType
  BY <1>1, SubscriberColumns
<1> QED
  BY <1>2 DEF age, until, suspended, SubscriberType

\* A tick leaves a worker's state one.
LEMMA TickedWorker ==
    ASSUME NEW state \in WorkerType
    PROVE  [state EXCEPT !.left = Down(@, 0)] \in WorkerType
  BY AgingTypes, WorkerFields DEF WorkerType

\* The position within the minute wraps around.
LEMMA TickedSecond ==
    ASSUME second \in 0..(Minute - 1)
    PROVE  (second + 1) % Minute \in 0..(Minute - 1)
<1>1. second + 1 \in Nat /\ Minute \in Nat /\ Minute > 0
  BY WindowTypes
<1> QED
  BY <1>1, RemainderRange

\* What createCronNotificationJobs does with the batch it took.
CronBatch(rows, chat) ==
    /\ \A i, j \in rows : chat[i] = chat[j] => i = j
    /\ jobs' = [j \in JobIds |-> IF j \in rows THEN NewJob("scheduled", chat[j]) ELSE jobs[j]]
    /\ subscribers' = [c \in Chats |->
           IF \E j \in rows : chat[j] = c
           THEN [subscribers[c] EXCEPT !.cron_claimed_until = CronClaimWindow]
           ELSE subscribers[c]]
    /\ UNCHANGED <<chatLock, workers, handling, second, ghosts, faults, updates>>

\* A step of createCronNotificationJobs takes such a batch.
LEMMA CronBatchTaken ==
    ASSUME CreateCronNotificationJobs
    PROVE  \E rows \in SUBSET {j \in JobIds : jobs[j].status = "absent"} :
               \E chat \in [rows -> {c \in Chats : Due(c)}] : CronBatch(rows, chat)
  BY Zenon DEF CreateCronNotificationJobs, CronBatch

\* Every step keeps the types.
LEMMA TypeStep == ASSUME TypeOK, ClaimsExist, Next PROVE TypeOK'
<1> USE DEF TypeOK
<1>a. \A w \in Workers : /\ workers[w].pc # "idle" => workers[w].job \in JobIds
                         /\ workers[w].pc = "marking" => workers[w].outcome # "none"
  BY DEF ClaimsExist, Busy
<1>b. \A w \in Workers : workers[w] \in WorkerType
  OBVIOUS
<1>c. \A j \in JobIds : jobs[j] \in JobType /\ jobs[j].chat \in Chats
  BY DEF JobType
<1>1. CASE CreateCronNotificationJobs
  <2>0. PICK rows \in SUBSET {j \in JobIds : jobs[j].status = "absent"} :
             \E chat \in [rows -> {c \in Chats : Due(c)}] : CronBatch(rows, chat)
    BY <1>1, CronBatchTaken
  <2>1. PICK chat \in [rows -> {c \in Chats : Due(c)}] : CronBatch(rows, chat)
    BY <2>0
  <2>2. \A c \in Chats : NewJob("scheduled", c) \in JobType
    BY AbsentJobType, JobColumns DEF NewJob, OpenStatus
  <2>3. CronClaimWindow \in -1..CronClaimWindow
    BY WindowTypes
  <2>4. \A c \in Chats : [subscribers[c] EXCEPT !.cron_claimed_until = CronClaimWindow] \in SubscriberType
    BY <2>3, SubscriberColumns
  <2> QED
    BY <2>1, <2>2, <2>4 DEF CronBatch, ghosts
<1>2. ASSUME NEW j \in JobIds, CleanupNotificationJobHistory(j) PROVE TypeOK'
  BY <1>2, AbsentJobType DEF CleanupNotificationJobHistory
<1>3. ASSUME NEW j \in JobIds, NEW c \in Chats, TriggerPriceAlert(j, c) PROVE TypeOK'
  <2>1. NewJob("price_alert", c) \in JobType
    BY AbsentJobType, JobColumns DEF NewJob, OpenStatus
  <2>2. updates' \in 0..MaxUpdates
    BY <1>3, WindowTypes DEF TriggerPriceAlert
  <2> QED
    BY <1>3, <2>1, <2>2 DEF TriggerPriceAlert, ghosts
<1>4. ASSUME NEW w \in Workers, NEW j \in JobIds, ClaimPendingNotificationJob(w, j) PROVE TypeOK'
  <2>1. jobs[j].attempts \in Nat /\ jobs[j].attempts + 1 \in Nat /\ ClaimWindow \in -1..ClaimWindow
        /\ LockTimeout \in Nat
    BY WindowTypes DEF JobType
  <2>2. jobs' \in [JobIds -> JobType]
    <3>1. [jobs[j] EXCEPT !.status = "sending", !.attempts = @ + 1,
                          !.claim_token = jobs[j].attempts + 1,
                          !.claimed_until = ClaimWindow] \in JobType
      BY <2>1, JobColumns DEF OpenStatus
    <3> QED
      BY <1>4, <3>1 DEF ClaimPendingNotificationJob, Claimed
  <2>3. workers' \in [Workers -> WorkerType]
    <3>1. [IdleWorker EXCEPT !.pc = "claimed", !.job = j, !.attempts = jobs[j].attempts + 1,
                             !.left = LockTimeout] \in WorkerType
      BY <2>1, IdleType, WorkerFields DEF Timed
    <3> QED
      BY <1>4, <3>1 DEF ClaimPendingNotificationJob
  <2> QED
    BY <1>4, <2>2, <2>3 DEF ClaimPendingNotificationJob, ghosts
<1>5. ASSUME NEW w \in Workers, WorkerStep(w) PROVE TypeOK'
  <2> USE WindowTypes
  <2>1. CASE ProcessCanceled(w)
    BY <2>1, DecideType DEF ProcessCanceled, ghosts
  <2>2. CASE AcquireTelegramChatLock(w)
    <3>1. workers' \in [Workers -> WorkerType]
      BY <2>2, GotoType DEF AcquireTelegramChatLock, Timed, Critical
    <3> QED
      BY <2>2, <3>1 DEF AcquireTelegramChatLock, ghosts
  <2>3. CASE DeferNotificationJob(w)
    BY <2>3, DecideType DEF DeferNotificationJob, RetryOrFail, ghosts
  <2>4. CASE CheckNotificationEnabled(w)
    <3>1. workers' \in [Workers -> WorkerType]
      BY <2>4, GotoType, DecideType DEF CheckNotificationEnabled, Timed, Critical
    <3> QED
      BY <2>4, <3>1 DEF CheckNotificationEnabled, ghosts
  <2>5. CASE EnsureNotificationJobClaimCurrent(w)
    <3>1. workers' \in [Workers -> WorkerType]
      <4>1. workers[w].late \/ workers[w].stalled \in BOOLEAN
        BY <1>b DEF WorkerType
      <4>2. [workers[w] EXCEPT !.pc = "validated", !.stalled = FALSE,
                               !.late = workers[w].late \/ workers[w].stalled] \in WorkerType
        BY <4>1, <1>b, WorkerFields DEF Timed, Critical
      <4> QED
        BY <2>5, <4>2, GotoType DEF EnsureNotificationJobClaimCurrent, Timed
    <3> QED
      BY <2>5, <3>1 DEF EnsureNotificationJobClaimCurrent, ghosts
  <2>6. CASE BeginSend(w)
    BY <2>6, GotoType DEF BeginSend, Timed, Critical, ghosts
  <2>7. CASE SendAccepted(w)
    BY <2>7, <1>b, GotoType, RecordType DEF SendAccepted, Timed, Critical
  <2>8. CASE SendRejected(w)
    BY <2>8, DecideType DEF SendRejected, ghosts
  <2>9. ASSUME NEW reached \in BOOLEAN, SendFailed(w, reached) PROVE TypeOK'
    BY <2>9, <1>b, DecideType, RecordType DEF SendFailed, RetryOrFail
  <2>10. CASE MarkNotificationJob(w)
    <3>1. workers' \in [Workers -> WorkerType]
      BY <2>10, GotoType DEF MarkNotificationJob, Timed
    <3>2. /\ jobs' \in [JobIds -> JobType]
          /\ subscribers' \in [Chats -> SubscriberType]
      BY <2>10, <1>a, <1>b, WriteOutcomeType DEF MarkNotificationJob, WorkerType
    <3> QED
      BY <2>10, <3>1, <3>2 DEF MarkNotificationJob, ghosts
  <2>11. CASE FinalizeSent(w)
    <3>1. workers' \in [Workers -> WorkerType]
      BY <2>11, GotoType DEF FinalizeSent, Timed
    <3>2. /\ jobs' \in [JobIds -> JobType]
          /\ subscribers' \in [Chats -> SubscriberType]
      BY <2>11, <1>a, WriteOutcomeType DEF FinalizeSent
    <3> QED
      BY <2>11, <3>1, <3>2 DEF FinalizeSent, ghosts
  <2>12. ASSUME NEW committed \in BOOLEAN, FinalizeError(w, committed) PROVE TypeOK'
    <3>1. workers' \in [Workers -> WorkerType]
      <4>1. workers[w].finals + 1 \in Nat
        BY <1>b DEF WorkerType
      <4> QED
        BY <2>12, <4>1, <1>b, WorkerFields DEF FinalizeError
    <3>2. /\ jobs' \in [JobIds -> JobType]
          /\ subscribers' \in [Chats -> SubscriberType]
      BY <2>12, <1>a, WriteOutcomeType DEF FinalizeError
    <3> QED
      BY <2>12, <3>1, <3>2 DEF FinalizeError, ghosts
  <2>13. CASE ReleaseTelegramChatLock(w)
    BY <2>13, IdleType DEF ReleaseTelegramChatLock, ghosts
  <2> QED
    BY <1>5, <2>1, <2>2, <2>3, <2>4, <2>5, <2>6, <2>7, <2>8, <2>9, <2>10, <2>11, <2>12, <2>13
    DEF WorkerStep
<1>6. ASSUME NEW w \in Workers, WorkerFault(w) PROVE TypeOK'
  <2> USE WindowTypes
  <2>0. ASSUME Fault PROVE faults' \in 0..MaxFaults
    BY <2>0 DEF Fault
  <2>1. CASE MarkError(w)
    BY <2>1, <2>0, GotoType DEF MarkError, Timed, ghosts
  <2>2. CASE FinalizeGiveUp(w)
    <3>1. workers' \in [Workers -> WorkerType]
      BY <2>2, GotoType DEF FinalizeGiveUp, Timed
    <3> QED
      BY <2>2, <2>0, <3>1, <1>b, RecordType DEF FinalizeGiveUp
  <2>3. CASE LoseLockSession(w)
    BY <2>3, <2>0, <1>b, RecordType DEF LoseLockSession
  <2>4. CASE Stall(w)
    BY <2>4, <2>0, <1>b, WorkerFields DEF Stall, ghosts
  <2>5. CASE CancelContext(w)
    BY <2>5, <2>0, <1>b, WorkerFields DEF CancelContext, ghosts
  <2>6. ASSUME NEW reached \in BOOLEAN, Crash(w, reached) PROVE TypeOK'
    BY <2>6, <2>0, <1>b, IdleType, RecordType DEF Crash
  <2> QED
    BY <1>6, <2>1, <2>2, <2>3, <2>4, <2>5, <2>6 DEF WorkerFault
<1>7. ASSUME NEW c \in Chats, HandlerBegin(c) PROVE TypeOK'
  BY <1>7, WindowTypes DEF HandlerBegin, ghosts
<1>8. ASSUME NEW c \in Chats, LoseHandlerSession(c) PROVE TypeOK'
  BY <1>8, WindowTypes DEF LoseHandlerSession, Fault, ghosts
<1>9. ASSUME NEW c \in Chats, HandlerCommit(c) PROVE TypeOK'
  <2>a. /\ Least(2, MaxInterval) \in -1..MaxInterval /\ 0 \in -1..MaxInterval
        /\ -1 \in -1..CronClaimWindow /\ 0 \in 0..FailureCooldown
        /\ TRUE \in BOOLEAN /\ FALSE \in BOOLEAN
    BY WindowTypes DEF Least
  <2>b. subscribers[c] \in SubscriberType /\ subscribers[c].last_sent \in -1..MaxInterval
    BY DEF SubscriberType
  <2>1. CASE Subscribe(c)
    <3>1. [subscribers[c] EXCEPT !.is_subscribed = TRUE,
               !.last_sent = IF @ = -1 THEN Least(2, MaxInterval) ELSE @,
               !.delivery_suspended_until = 0] \in SubscriberType
      BY <2>a, <2>b, SubscriberColumns
    <3> QED
      BY <2>1, <3>1, HandlerEndType DEF Subscribe
  <2>2. CASE SetLanguage(c)
    <3>1. [subscribers[c] EXCEPT !.last_sent = IF @ = -1 THEN Least(2, MaxInterval) ELSE @]
              \in SubscriberType
      BY <2>a, <2>b, SubscriberColumns
    <3> QED
      BY <2>2, <3>1, HandlerEndType DEF SetLanguage
  <2>3. CASE Unsubscribe(c)
    <3>1. [subscribers[c] EXCEPT !.is_subscribed = FALSE, !.cron_claimed_until = -1,
               !.delivery_suspended_until = 0] \in SubscriberType
      BY <2>a, <2>b, SubscriberColumns
    <3>2. \A j \in JobIds : Closed(j, "canceled") \in JobType
      BY <1>c, ClosedType DEF TerminalStatus
    <3> QED
      BY <2>3, <3>1, <3>2, HandlerEndType DEF Unsubscribe
  <2>4. CASE HandleOther(c)
    BY <2>4, HandlerEndType DEF HandleOther
  <2>5. ASSUME NEW minutes \in Intervals, SetInterval(c, minutes) PROVE TypeOK'
    <3>1. [subscribers[c] EXCEPT !.interval_minutes = minutes, !.last_sent = 0] \in SubscriberType
      BY <2>a, <2>b, SubscriberColumns
    <3> QED
      BY <2>5, <3>1, HandlerEndType DEF SetInterval
  <2>6. ASSUME NEW j \in JobIds, CancelPriceAlert(c, j) PROVE TypeOK'
    <3>1. Closed(j, "canceled") \in JobType
      BY <1>c, ClosedType DEF TerminalStatus
    <3>2. [Closed(j, "canceled") EXCEPT !.alert = "canceled"] \in JobType
      BY <3>1, JobColumns
    <3> QED
      BY <2>6, <3>2, HandlerEndType DEF CancelPriceAlert
  <2> QED
    BY <1>9, <2>1, <2>2, <2>3, <2>4, <2>5, <2>6 DEF HandlerCommit
<1>10. ASSUME NEW c \in Chats, ReapSession(c) PROVE TypeOK'
  BY <1>10 DEF ReapSession, ghosts
<1>11. CASE Tick
  <2>1. jobs' \in [JobIds -> JobType]
    BY <1>11, <1>c, TickedJob DEF Tick
  <2>2. subscribers' \in [Chats -> SubscriberType]
    BY <1>11, TickedSubscriber DEF Tick
  <2>3. workers' \in [Workers -> WorkerType]
    BY <1>11, <1>b, TickedWorker DEF Tick
  <2>4. second' \in 0..(Minute - 1)
    BY <1>11, TickedSecond DEF Tick
  <2> QED
    BY <1>11, <2>1, <2>2, <2>3, <2>4 DEF Tick, ghosts
<1> QED
  BY <1>1, <1>2, <1>3, <1>4, <1>5, <1>6, <1>7, <1>8, <1>9, <1>10, <1>11 DEF Next

-----------------------------------------------------------------------------
(* What the steps do to the parts of the state the invariant speaks of *)

\* Only worker w moves, and it stays with its claim.
Moves(w, pc) ==
    /\ workers'[w].pc = pc
    /\ workers'[w].job = workers[w].job
    /\ workers'[w].attempts = workers[w].attempts
    /\ \A v \in Workers \ {w} : workers'[v] = workers[v]

\* Goto moves the worker and restarts its timeout.
LEMMA GotoMoves ==
    ASSUME TypeOK, NEW w \in Workers, NEW pc, NEW left, Goto(w, pc, left)
    PROVE  /\ Moves(w, pc)
           /\ workers'[w].left = left
           /\ workers'[w].outcome = workers[w].outcome
           /\ workers'[w].stalled = workers[w].stalled
           /\ workers'[w].late = workers[w].late
  BY DEF TypeOK, WorkerType, Goto, Moves

\* Decide moves the worker to its mark.
LEMMA DecideMoves ==
    ASSUME TypeOK, NEW w \in Workers, NEW outcome, Decide(w, outcome)
    PROVE  /\ Moves(w, "marking")
           /\ workers'[w].left = MarkTimeout
           /\ workers'[w].outcome = outcome
           /\ workers'[w].stalled = workers[w].stalled
           /\ workers'[w].late = workers[w].late
  BY DEF TypeOK, WorkerType, Decide, Moves

-----------------------------------------------------------------------------
(* The invariant is inductive *)

Fences == /\ ClaimsExist /\ ClaimsDistinct /\ TokenCurrent /\ LockOfOwnChat
          /\ CriticalLocked /\ LastClaimOpen /\ ValidatedIsLast /\ AcceptedIsLast
          /\ LeaseCovers /\ LeaseCoversSend

\* What a validated claim must still have of its lease, beyond the current timeout.
SendRest(pc) == IF pc = "validated" THEN SendTimeout ELSE 0

Working == {"claimed", "marking"} \cup Critical
Validated == {"validated", "sending", "finalizing"}

\* Numbers the arithmetic of leases needs.
LEMMA Numbers ==
    ASSUME TypeOK
    PROVE  /\ \A w \in Workers : workers[w].left \in Nat /\ workers[w].attempts \in Nat
           /\ \A j \in JobIds : jobs[j].claimed_until \in Int /\ jobs[j].attempts \in Nat
           /\ \A pc : Rest(pc) \in Nat /\ SendRest(pc) \in Nat
<1>1. \A w \in Workers : workers[w].left \in Nat /\ workers[w].attempts \in Nat
  BY DEF TypeOK, WorkerType
<1>2. \A j \in JobIds : jobs[j].claimed_until \in Int /\ jobs[j].attempts \in Nat
  BY WindowTypes DEF TypeOK, JobType
<1>3. \A pc : Rest(pc) \in Nat /\ SendRest(pc) \in Nat
  BY WindowTypes DEF Rest, Last, SendRest
<1> QED
  BY <1>1, <1>2, <1>3

\* A step of worker w that leaves rows and locks alone: it goes forward, stays inside the
\* lock only if it is inside, is validated only if its claim is current, and takes from
\* its lease no more than it had set aside.
QuietMove(w, pc) ==
    /\ Moves(w, pc) /\ Busy(w) /\ pc \in Timed
    /\ UNCHANGED <<jobs, chatLock>>
    /\ pc = "marking" => workers'[w].outcome # "none"
    /\ pc = "claimed" => workers[w].pc = "claimed"
    /\ pc \in Critical => workers[w].pc \in Critical
    /\ workers[w].pc = "releasing" => pc = "releasing"
    /\ workers[w].pc = "finalizing" => pc \in {"finalizing", "releasing"}
    /\ pc = "finalizing" => workers[w].pc \in {"sending", "finalizing"}
    /\ pc \in Validated => workers[w].pc \in Validated \/ Owns(w)
    /\ \A j \in JobIds : disturbed[j] \subseteq disturbed'[j]
    /\ \A j \in JobIds : \A a \in accepted'[j] \ disturbed'[j] :
           \/ a \in accepted[j]
           \/ pc = "finalizing" /\ j = workers[w].job /\ a = workers[w].attempts
    /\ workers[w].pc = "finalizing" /\ pc # "finalizing" =>
           \/ workers[w].attempts \in disturbed'[workers[w].job]
           \/ JobOf(w).status \in {"sent", "canceled"}
           \/ workers[w].attempts # JobOf(w).attempts
    /\ pc # "releasing" /\ ~workers'[w].stalled /\ ~workers'[w].late =>
           /\ ~workers[w].stalled /\ ~workers[w].late
           /\ workers'[w].left + Rest(pc) <= workers[w].left + Rest(workers[w].pc)
    /\ pc = "enabled" => workers'[w].left <= ValidationTimeout
    /\ pc \in {"validated", "sending"} /\ ~workers'[w].stalled =>
           \/ /\ workers[w].pc \in {"validated", "sending"} /\ ~workers[w].stalled
              /\ workers'[w].left + SendRest(pc) <= workers[w].left + SendRest(workers[w].pc)
           \/ Owns(w) /\ JobOf(w).claimed_until >= workers'[w].left + SendRest(pc)

\* Such a step keeps the fences.
LEMMA QuietMoveKeeps ==
    ASSUME TypeOK, TypeOK', Fences, NEW w \in Workers, NEW pc, QuietMove(w, pc)
    PROVE  Fences'
<1> USE DEF Fences, QuietMove, Moves, JobOf
<1>a. workers[w].pc \in Timed /\ pc # "idle" /\ "idle" \notin Timed
  BY DEF TypeOK, WorkerType, Busy, Timed, Critical
<1>b. pc \in Working => workers[w].pc \in Working
  BY <1>a DEF Working, Timed
<1>1. ClaimsExist'
  BY DEF ClaimsExist, Busy
<1>2. ClaimsDistinct'
  BY DEF ClaimsDistinct, Busy
<1>3. TokenCurrent'
  BY DEF TokenCurrent
<1>4. LockOfOwnChat'
  BY <1>a DEF LockOfOwnChat, Busy, ChatOf
<1>5. CriticalLocked'
  BY DEF CriticalLocked, ClaimsExist, Busy, ChatOf, HoldsLock, Critical
<1>6. LastClaimOpen'
  <2> SUFFICES ASSUME NEW v \in Workers, workers'[v].pc \in Working,
                      workers'[v].attempts = jobs'[workers'[v].job].attempts
               PROVE  \/ jobs'[workers'[v].job].status \in {"sending", "canceled"}
                      \/ workers'[v].pc = "finalizing" /\ jobs'[workers'[v].job].status = "sent"
    BY DEF LastClaimOpen, Working
  <2>1. CASE v = w
    BY <2>1, <1>b DEF LastClaimOpen, Working, Critical
  <2>2. CASE v # w
    BY <2>2 DEF LastClaimOpen, Working
  <2> QED
    BY <2>1, <2>2
<1>7. ValidatedIsLast'
  BY DEF ValidatedIsLast, Validated, Owns, HoldsLock, ChatOf
<1>8. AcceptedIsLast'
  <2> SUFFICES ASSUME NEW j \in JobIds, NEW a \in accepted'[j] \ disturbed'[j]
               PROVE  /\ a = jobs'[j].attempts
                      /\ \/ jobs'[j].status \in {"sent", "canceled"}
                         \/ \E v \in Workers : /\ workers'[v].pc = "finalizing"
                                               /\ workers'[v].job = j /\ workers'[v].attempts = a
    BY DEF AcceptedIsLast
  <2>1. CASE a \in accepted[j]
    <3>1. a \in accepted[j] \ disturbed[j]
      BY <2>1
    <3>2. /\ a = jobs[j].attempts
          /\ \/ jobs[j].status \in {"sent", "canceled"}
             \/ \E v \in Workers : /\ workers[v].pc = "finalizing"
                                   /\ workers[v].job = j /\ workers[v].attempts = a
      BY <3>1 DEF AcceptedIsLast
    <3> QED
      BY <3>2
  <2>2. CASE pc = "finalizing" /\ j = workers[w].job /\ a = workers[w].attempts
    <3>1. workers[w].pc \in {"sending", "finalizing"} /\ a \notin disturbed[j]
      BY <2>2
    <3>2. HoldsLock(w)
      BY <2>2, <3>1 DEF CriticalLocked, Critical
    <3>3. a = jobs[j].attempts
      BY <2>2, <3>1, <3>2 DEF ValidatedIsLast
    <3> QED
      BY <2>2, <3>3
  <2> QED
    BY <2>1, <2>2
<1>9. LeaseCovers'
  <2> USE Numbers
  <2> SUFFICES ASSUME NEW v \in Workers, workers'[v].pc \in Working,
                      ~workers'[v].stalled, ~workers'[v].late
               PROVE  /\ workers'[v].attempts = jobs'[workers'[v].job].attempts
                      /\ jobs'[workers'[v].job].status = "sending"
                         => jobs'[workers'[v].job].claimed_until >= workers'[v].left + Rest(workers'[v].pc)
    BY DEF LeaseCovers, Working
  <2>1. CASE v = w
    <3>1. workers[w].pc \in Working /\ ~workers[w].stalled /\ ~workers[w].late /\ workers[w].job \in JobIds
      BY <2>1, <1>a, <1>b DEF ClaimsExist, Working, Critical
    <3>2. workers'[w].left + Rest(pc) <= workers[w].left + Rest(workers[w].pc)
      BY <2>1 DEF Working, Critical
    <3>3. /\ workers[w].attempts = jobs[workers[w].job].attempts
          /\ jobs[workers[w].job].status = "sending"
             => jobs[workers[w].job].claimed_until >= workers[w].left + Rest(workers[w].pc)
      BY <3>1 DEF LeaseCovers, Working
    <3>4. workers'[w].left \in Nat
      BY DEF TypeOK, WorkerType
    <3> QED
      BY <2>1, <3>1, <3>2, <3>3, <3>4
  <2>2. CASE v # w
    BY <2>2 DEF LeaseCovers, Working
  <2> QED
    BY <2>1, <2>2
<1>10. LeaseCoversSend'
  <2> USE Numbers
  <2>1. ASSUME NEW v \in Workers, workers'[v].pc = "enabled"
        PROVE  workers'[v].left <= ValidationTimeout
    BY <2>1 DEF LeaseCoversSend
  <2>2. ASSUME NEW v \in Workers, workers'[v].pc \in {"validated", "sending"}, ~workers'[v].stalled
        PROVE  /\ workers'[v].attempts = jobs'[workers'[v].job].attempts
               /\ jobs'[workers'[v].job].status = "sending"
                  => jobs'[workers'[v].job].claimed_until >= workers'[v].left + SendRest(workers'[v].pc)
    <3>1. CASE v = w
      <4>0. workers'[w].left \in Nat /\ workers[w].job \in JobIds
        BY DEF TypeOK, WorkerType, ClaimsExist
      <4>1. CASE Owns(w) /\ JobOf(w).claimed_until >= workers'[w].left + SendRest(pc)
        BY <3>1, <4>1 DEF Owns
      <4>2. CASE /\ workers[w].pc \in {"validated", "sending"} /\ ~workers[w].stalled
                 /\ workers'[w].left + SendRest(pc) <= workers[w].left + SendRest(workers[w].pc)
        <5>1. /\ workers[w].attempts = jobs[workers[w].job].attempts
              /\ jobs[workers[w].job].status = "sending"
                 => jobs[workers[w].job].claimed_until >= workers[w].left + SendRest(workers[w].pc)
          BY <4>2 DEF LeaseCoversSend, SendRest
        <5> QED
          BY <3>1, <4>0, <4>2, <5>1
      <4> QED
        BY <2>2, <3>1, <4>1, <4>2
    <3>2. CASE v # w
      BY <2>2, <3>2 DEF LeaseCoversSend, SendRest
    <3> QED
      BY <3>1, <3>2
  <2> QED
    BY <2>1, <2>2 DEF LeaseCoversSend, SendRest
<1> QED
  BY <1>1, <1>2, <1>3, <1>4, <1>5, <1>6, <1>7, <1>8, <1>9, <1>10

\* What a step of a producer, a handler or retention may do to one row: nothing, insert
\* it, cancel it, or delete it when no worker refers to it.
RowStep(j) ==
    \/ /\ jobs'[j] = jobs[j]
       /\ UNCHANGED <<accepted[j], disturbed[j]>>
    \/ /\ jobs[j].status = "absent" /\ jobs'[j].status = "pending"
       /\ UNCHANGED <<accepted[j], disturbed[j]>>
    \/ /\ jobs'[j].status = "canceled"
       /\ jobs'[j].attempts = jobs[j].attempts /\ jobs'[j].chat = jobs[j].chat
       /\ UNCHANGED <<accepted[j], disturbed[j]>>
    \/ /\ \A w \in Workers : workers[w].job # j
       /\ jobs'[j].status = "absent" /\ accepted'[j] = {}

\* A step that leaves the workers and their locks alone.
RowSteps ==
    /\ workers' = workers
    /\ \A c \in Chats, w \in Workers : (chatLock'[c] = w) <=> (chatLock[c] = w)
    /\ \A j \in JobIds : RowStep(j)

\* Such a step keeps the fences.
LEMMA RowStepsKeep == ASSUME TypeOK, Fences, RowSteps PROVE Fences'
<1> USE DEF Fences, JobOf
<1>0. workers' = workers
  BY DEF RowSteps
<1>a. ASSUME NEW w \in Workers, Busy(w)
      PROVE  LET j == workers[w].job IN
             /\ j \in JobIds
             /\ jobs'[j].attempts = jobs[j].attempts /\ jobs'[j].chat = jobs[j].chat
             /\ jobs'[j] = jobs[j] \/ jobs'[j].status = "canceled"
             /\ UNCHANGED <<accepted[j], disturbed[j]>>
  BY <1>a DEF RowSteps, RowStep, ClaimsExist
<1>b. ASSUME NEW w \in Workers, Busy(w) PROVE HoldsLock(w)' <=> HoldsLock(w)
  <2>1. jobs[workers[w].job].chat \in Chats
    BY <1>a, <1>b DEF TypeOK, JobType
  <2> QED
    BY <1>0, <1>a, <1>b, <2>1 DEF RowSteps, HoldsLock, ChatOf
<1>1. ClaimsExist'
  BY <1>0, <1>a DEF ClaimsExist, Busy
<1>2. ClaimsDistinct'
  BY <1>0 DEF ClaimsDistinct, Busy
<1>3. TokenCurrent'
  BY DEF TokenCurrent, RowSteps, RowStep
<1>4. LockOfOwnChat'
  BY <1>0, <1>a DEF LockOfOwnChat, RowSteps, ChatOf, Busy
<1>5. CriticalLocked'
  BY <1>0, <1>a, <1>b DEF CriticalLocked, Busy, Critical
<1>6. LastClaimOpen'
  BY <1>0, <1>a DEF LastClaimOpen, Busy, Critical
<1>7. ValidatedIsLast'
  BY <1>0, <1>a, <1>b DEF ValidatedIsLast, Busy
<1>8. AcceptedIsLast'
  <2> SUFFICES ASSUME NEW j \in JobIds, NEW a \in accepted'[j] \ disturbed'[j]
               PROVE  /\ a = jobs'[j].attempts
                      /\ \/ jobs'[j].status \in {"sent", "canceled"}
                         \/ \E v \in Workers : /\ workers[v].pc = "finalizing"
                                               /\ workers[v].job = j /\ workers[v].attempts = a
    BY <1>0 DEF AcceptedIsLast
  <2>1. RowStep(j) /\ accepted'[j] # {}
    BY DEF RowSteps
  <2>2. accepted'[j] = accepted[j] /\ disturbed'[j] = disturbed[j]
    BY <2>1 DEF RowStep
  <2>3. /\ a = jobs[j].attempts
        /\ \/ jobs[j].status \in {"sent", "canceled"}
           \/ \E v \in Workers : /\ workers[v].pc = "finalizing"
                                 /\ workers[v].job = j /\ workers[v].attempts = a
    BY <2>2 DEF AcceptedIsLast
  <2>4. jobs[j].status # "absent"
    BY <2>3 DEF ClaimsExist, Busy
  <2> QED
    BY <2>1, <2>3, <2>4 DEF RowStep
<1>9. LeaseCovers'
  BY <1>0, <1>a DEF LeaseCovers, Busy, Critical
<1>10. LeaseCoversSend'
  BY <1>0, <1>a DEF LeaseCoversSend, Busy
<1> QED
  BY <1>1, <1>2, <1>3, <1>4, <1>5, <1>6, <1>7, <1>8, <1>9, <1>10

\* Worker w stops, which is a doubt unless its outcome is settled, and its lock goes to
\* nobody else.
Stops(w) ==
    /\ workers'[w] = IdleWorker
    /\ \A v \in Workers \ {w} : workers'[v] = workers[v]
    /\ jobs' = jobs
    /\ \A c \in Chats : /\ chatLock[c] # w => chatLock'[c] = chatLock[c]
                        /\ chatLock[c] = w => chatLock'[c] \notin Workers
    /\ \A j \in JobIds : disturbed[j] \subseteq disturbed'[j]
    /\ \A j \in JobIds : accepted'[j] \ disturbed'[j] \subseteq accepted[j]
    /\ workers[w].pc = "finalizing" => workers[w].attempts \in disturbed'[workers[w].job]

\* A worker that stops keeps the fences.
LEMMA StopsKeeps ==
    ASSUME TypeOK, Fences, NEW w \in Workers, Stops(w)
    PROVE  Fences'
<1> USE DEF Fences, JobOf, Stops
<1>a. workers'[w].pc = "idle"
  BY DEF IdleWorker
<1>b. ASSUME NEW v \in Workers, v # w, Busy(v) PROVE HoldsLock(v)' <=> HoldsLock(v)
  <2>1. jobs[workers[v].job].chat \in Chats
    BY <1>b DEF TypeOK, JobType, ClaimsExist
  <2> QED
    BY <1>b, <2>1 DEF HoldsLock, ChatOf
<1>1. ClaimsExist'
  BY <1>a DEF ClaimsExist, Busy
<1>2. ClaimsDistinct'
  BY <1>a DEF ClaimsDistinct, Busy
<1>3. TokenCurrent'
  BY DEF TokenCurrent
<1>4. LockOfOwnChat'
  BY <1>a DEF LockOfOwnChat, ChatOf, Busy
<1>5. CriticalLocked'
  BY <1>a, <1>b DEF CriticalLocked, Busy, Critical, ClaimsExist
<1>6. LastClaimOpen'
  BY <1>a DEF LastClaimOpen, Critical
<1>7. ValidatedIsLast'
  BY <1>a, <1>b DEF ValidatedIsLast, Busy
<1>8. AcceptedIsLast'
  <2> SUFFICES ASSUME NEW j \in JobIds, NEW a \in accepted'[j] \ disturbed'[j]
               PROVE  /\ a = jobs[j].attempts
                      /\ \/ jobs[j].status \in {"sent", "canceled"}
                         \/ \E v \in Workers : /\ workers'[v].pc = "finalizing"
                                               /\ workers'[v].job = j /\ workers'[v].attempts = a
    BY DEF AcceptedIsLast
  <2>1. a \in accepted[j] \ disturbed[j]
    OBVIOUS
  <2>2. /\ a = jobs[j].attempts
        /\ \/ jobs[j].status \in {"sent", "canceled"}
           \/ \E v \in Workers : /\ workers[v].pc = "finalizing"
                                 /\ workers[v].job = j /\ workers[v].attempts = a
    BY <2>1 DEF AcceptedIsLast
  <2> QED
    BY <2>2
<1>9. LeaseCovers'
  BY <1>a DEF LeaseCovers, Critical
<1>10. LeaseCoversSend'
  BY <1>a DEF LeaseCoversSend
<1> QED
  BY <1>1, <1>2, <1>3, <1>4, <1>5, <1>6, <1>7, <1>8, <1>9, <1>10

\* Taking the free lock of the job's chat keeps the fences.
LEMMA AcquireKeeps ==
    ASSUME TypeOK, Fences, NEW w \in Workers, AcquireTelegramChatLock(w)
    PROVE  Fences'
<1> DEFINE c == ChatOf(w)
<1>a. Moves(w, "locked") /\ workers'[w].left = CheckTimeout
      /\ workers'[w].stalled = workers[w].stalled /\ workers'[w].late = workers[w].late
  BY GotoMoves DEF AcquireTelegramChatLock
<1>b. workers[w].pc = "claimed" /\ UNCHANGED <<jobs, accepted, disturbed>>
  BY DEF AcquireTelegramChatLock, ghosts
<1>c. workers[w].job \in JobIds /\ jobs[workers[w].job].chat \in Chats
  BY <1>b DEF Fences, ClaimsExist, Busy, TypeOK, JobType
<1>d. chatLock[c] = "free" /\ chatLock'[c] = w
      /\ \A d \in Chats : d # c => chatLock'[d] = chatLock[d]
  BY <1>c DEF AcquireTelegramChatLock, TypeOK, ChatOf, JobOf
<1>e. ASSUME NEW v \in Workers, v # w, Busy(v) PROVE HoldsLock(v)' <=> HoldsLock(v)
  <2>1. jobs[workers[v].job].chat \in Chats /\ v # "free" /\ workers'[v] = workers[v]
    BY <1>a, <1>e, WorkersAssumption DEF TypeOK, JobType, Fences, ClaimsExist, Moves
  <2> QED
    BY <1>b, <1>d, <1>e, <2>1 DEF HoldsLock, ChatOf, JobOf
<1>f. HoldsLock(w)'
  BY <1>a, <1>b, <1>d DEF HoldsLock, ChatOf, JobOf, Moves
<1> HIDE DEF c
<1> USE DEF Fences, JobOf, Moves
<1>1. ClaimsExist'
  BY <1>a, <1>b DEF ClaimsExist, Busy
<1>2. ClaimsDistinct'
  BY <1>a, <1>b DEF ClaimsDistinct, Busy
<1>3. TokenCurrent'
  BY <1>b DEF TokenCurrent
<1>4. LockOfOwnChat'
  BY <1>a, <1>b, <1>d DEF LockOfOwnChat, ChatOf, Busy, c
<1>5. CriticalLocked'
  BY <1>a, <1>b, <1>e, <1>f DEF CriticalLocked, Busy, Critical
<1>6. LastClaimOpen'
  BY <1>a, <1>b DEF LastClaimOpen, Critical
<1>7. ValidatedIsLast'
  BY <1>a, <1>b, <1>e DEF ValidatedIsLast, Busy
<1>8. AcceptedIsLast'
  BY <1>a, <1>b DEF AcceptedIsLast
<1>9. LeaseCovers'
  <2>1. LockTimeout \in Nat /\ Rest("locked") + CheckTimeout = Rest("claimed") /\ CheckTimeout \in Nat
    BY WindowTypes DEF Rest, Last
  <2>2. ASSUME ~workers[w].stalled, ~workers[w].late
        PROVE  /\ workers[w].attempts = jobs[workers[w].job].attempts
               /\ jobs[workers[w].job].status = "sending"
                  => jobs[workers[w].job].claimed_until >= workers[w].left + Rest("claimed")
    BY <2>2, <1>b DEF LeaseCovers
  <2>3. workers[w].left \in Nat /\ jobs[workers[w].job].claimed_until \in Int /\ Rest("locked") \in Nat
    BY <1>c, Numbers
  <2>4. ASSUME ~workers[w].stalled, ~workers[w].late
        PROVE  jobs[workers[w].job].status = "sending"
               => jobs[workers[w].job].claimed_until >= CheckTimeout + Rest("locked")
    BY <2>1, <2>2, <2>3, <2>4
  <2> QED
    BY <1>a, <1>b, <2>2, <2>4 DEF LeaseCovers, Critical
<1>10. LeaseCoversSend'
  BY <1>a, <1>b DEF LeaseCoversSend
<1> QED
  BY <1>1, <1>2, <1>3, <1>4, <1>5, <1>6, <1>7, <1>8, <1>9, <1>10

\* Losing the lock's session keeps the fences: the claim is in doubt from then on.
LEMMA LoseLockKeeps ==
    ASSUME TypeOK, Fences, NEW w \in Workers, LoseLockSession(w)
    PROVE  Fences'
<1>a. /\ UNCHANGED <<jobs, workers, accepted>> /\ Busy(w) /\ chatLock[ChatOf(w)] = w
      /\ chatLock' = [chatLock EXCEPT ![ChatOf(w)] = "free"]
      /\ disturbed' = Record(disturbed, w)
  BY DEF LoseLockSession, Busy, HoldsLock
<1>b. workers[w].job \in JobIds /\ ChatOf(w) \in Chats
  BY <1>a DEF Fences, ClaimsExist, TypeOK, JobType, ChatOf, JobOf
<1>c. /\ workers[w].attempts \in disturbed'[workers[w].job]
      /\ \A j \in JobIds : disturbed[j] \subseteq disturbed'[j]
  BY <1>a, <1>b DEF Record, TypeOK
<1>d. ASSUME NEW v \in Workers, v # w, Busy(v) PROVE HoldsLock(v)' <=> HoldsLock(v)
  <2>1. ChatOf(v) \in Chats /\ v # "free"
    BY <1>d, WorkersAssumption DEF Fences, ClaimsExist, TypeOK, JobType, ChatOf, JobOf
  <2> QED
    BY <1>a, <1>b, <1>d, <2>1 DEF HoldsLock, ChatOf, JobOf, TypeOK
<1>e. \A v \in Workers, d \in Chats : chatLock'[d] = v => chatLock[d] = v
  BY <1>a, <1>b, WorkersAssumption DEF TypeOK
<1>f. HoldsLock(w)' => HoldsLock(w)
  BY <1>a DEF HoldsLock
<1> USE DEF Fences, JobOf
<1>1. ClaimsExist' /\ ClaimsDistinct' /\ TokenCurrent' /\ LastClaimOpen'
  BY <1>a DEF ClaimsExist, ClaimsDistinct, TokenCurrent, LastClaimOpen, Busy
<1>2. LockOfOwnChat'
  BY <1>a, <1>e DEF LockOfOwnChat, ChatOf, Busy
<1>3. CriticalLocked'
  BY <1>a, <1>c, <1>d DEF CriticalLocked, Busy, Critical, ClaimsExist
<1>4. ValidatedIsLast'
  BY <1>a, <1>d, <1>f DEF ValidatedIsLast, Busy
<1>5. AcceptedIsLast'
  BY <1>a, <1>c DEF AcceptedIsLast
<1>6. LeaseCovers' /\ LeaseCoversSend'
  BY <1>a DEF LeaseCovers, LeaseCoversSend
<1> QED
  BY <1>1, <1>2, <1>3, <1>4, <1>5, <1>6

\* Worker w writes its outcome with a current claim, and goes on.
Writes(w, status, pc) ==
    LET j == workers[w].job IN
    /\ Owns(w) /\ Moves(w, pc)
    /\ jobs'[j].status = status /\ jobs'[j].attempts = jobs[j].attempts /\ jobs'[j].chat = jobs[j].chat
    /\ \A i \in JobIds \ {j} : jobs'[i] = jobs[i]
    /\ UNCHANGED <<chatLock, accepted, disturbed>>
    /\ \/ /\ workers[w].pc = "marking" /\ pc = "releasing"
          /\ status \in {"pending", "failed", "canceled"}
       \/ /\ workers[w].pc = "finalizing" /\ pc \in {"releasing", "finalizing"}
          /\ status = "sent"

\* Writing an outcome keeps the fences.
LEMMA WritesKeeps ==
    ASSUME TypeOK, Fences, NEW w \in Workers, NEW status, NEW pc, Writes(w, status, pc)
    PROVE  Fences'
<1> DEFINE j == workers[w].job
<1>a. Busy(w) /\ j \in JobIds /\ workers[w].attempts = jobs[j].attempts /\ jobs[j].status = "sending"
  BY DEF Writes, Fences, ClaimsExist, Busy, Owns, JobOf
<1>b. ASSUME NEW v \in Workers, v # w, Busy(v)
      PROVE  /\ workers[v].job \in JobIds /\ workers'[v] = workers[v]
             /\ workers[v].job = j => workers[v].attempts # jobs[j].attempts
             /\ workers[v].job # j => jobs'[workers[v].job] = jobs[workers[v].job]
             /\ jobs'[workers[v].job].attempts = jobs[workers[v].job].attempts
             /\ jobs'[workers[v].job].chat = jobs[workers[v].job].chat
             /\ HoldsLock(v)' <=> HoldsLock(v)
  <2>1. workers[v].job \in JobIds /\ workers'[v] = workers[v]
        /\ (workers[v].job = j => workers[v].attempts # jobs[j].attempts)
    BY <1>a, <1>b DEF Fences, ClaimsExist, ClaimsDistinct, Writes, Moves, JobOf
  <2> QED
    BY <2>1 DEF Writes, HoldsLock, ChatOf, JobOf
<1>c. HoldsLock(w)' <=> HoldsLock(w)
  BY DEF Writes, Moves, HoldsLock, ChatOf, JobOf
<1>d. /\ Moves(w, pc) /\ pc \in {"releasing", "finalizing"} /\ status # "sending" /\ status # "absent"
      /\ jobs'[j].status = status /\ jobs'[j].attempts = jobs[j].attempts
      /\ UNCHANGED <<chatLock, accepted, disturbed>>
      /\ (pc = "finalizing" => workers[w].pc = "finalizing" /\ status = "sent")
      /\ \A i \in JobIds \ {j} : jobs'[i] = jobs[i]
      /\ \A v \in Workers \ {w} : workers'[v] = workers[v]
      /\ workers'[w].pc = pc /\ workers'[w].job = j /\ workers'[w].attempts = workers[w].attempts
  BY DEF Writes, Moves
<1> HIDE DEF j
<1> USE DEF Fences, JobOf
<1>1. ClaimsExist'
  <2> SUFFICES ASSUME NEW v \in Workers, workers'[v].pc # "idle"
               PROVE  /\ workers'[v].job \in JobIds
                      /\ jobs'[workers'[v].job].status # "absent"
                      /\ workers'[v].attempts >= 1
                      /\ workers'[v].attempts <= jobs'[workers'[v].job].attempts
                      /\ workers'[v].pc = "marking" => workers'[v].outcome # "none"
    BY DEF ClaimsExist, Busy
  <2>1. CASE v = w
    BY <2>1, <1>a, <1>d DEF ClaimsExist, Busy, j
  <2>2. CASE v # w
    BY <2>2, <1>b, <1>d DEF ClaimsExist, Busy
  <2> QED
    BY <2>1, <2>2
<1>2. ClaimsDistinct'
  BY <1>a, <1>d DEF ClaimsDistinct, Busy, j
<1>3. TokenCurrent'
  BY <1>d DEF TokenCurrent
<1>4. LockOfOwnChat'
  <2>1. \A v \in Workers : Busy(v) => Busy(v)' /\ ChatOf(v)' = ChatOf(v)
    BY <1>a, <1>b, <1>d DEF Busy, ChatOf, Writes, j
  <2>2. \A v \in Workers : workers[v].pc # "claimed" => workers'[v].pc # "claimed"
    BY <1>d
  <2> QED
    BY <1>d, <2>1, <2>2 DEF LockOfOwnChat
<1>5. CriticalLocked'
  BY <1>a, <1>b, <1>c, <1>d DEF CriticalLocked, Busy, Critical, j
<1>6. LastClaimOpen'
  BY <1>a, <1>b, <1>d DEF LastClaimOpen, Busy, Critical
<1>7. ValidatedIsLast'
  BY <1>a, <1>b, <1>d DEF ValidatedIsLast, Busy
<1>8. AcceptedIsLast'
  <2> SUFFICES ASSUME NEW i \in JobIds, NEW a \in accepted[i] \ disturbed[i]
               PROVE  /\ a = jobs'[i].attempts
                      /\ \/ jobs'[i].status \in {"sent", "canceled"}
                         \/ \E v \in Workers : /\ workers'[v].pc = "finalizing"
                                               /\ workers'[v].job = i /\ workers'[v].attempts = a
    BY <1>d DEF AcceptedIsLast
  <2>1. /\ a = jobs[i].attempts
        /\ \/ jobs[i].status \in {"sent", "canceled"}
           \/ \E v \in Workers : /\ workers[v].pc = "finalizing"
                                 /\ workers[v].job = i /\ workers[v].attempts = a
    BY DEF AcceptedIsLast
  <2>2. CASE i = j
    <3>1. PICK v \in Workers : /\ workers[v].pc = "finalizing"
                               /\ workers[v].job = j /\ workers[v].attempts = a
      BY <1>a, <2>1, <2>2
    <3>2. v = w
      BY <1>a, <1>b, <2>1, <2>2, <3>1 DEF Busy
    <3> QED
      BY <1>d, <2>1, <2>2, <3>1, <3>2 DEF Writes
  <2>3. CASE i # j
    <3>1. jobs'[i] = jobs[i]
      BY <1>d, <2>3
    <3> QED
      BY <1>d, <2>1, <2>3, <3>1 DEF j
  <2> QED
    BY <2>2, <2>3
<1>9. LeaseCovers'
  BY <1>a, <1>b, <1>d DEF LeaseCovers, Busy, Critical
<1>10. LeaseCoversSend'
  BY <1>a, <1>b, <1>d DEF LeaseCoversSend, Busy
<1> QED
  BY <1>1, <1>2, <1>3, <1>4, <1>5, <1>6, <1>7, <1>8, <1>9, <1>10

\* A claim keeps the fences: what it takes is nobody's, or the lease of a worker that was
\* paused or has lost its lock.
LEMMA ClaimKeeps ==
    ASSUME TypeOK, Fences, NEW w \in Workers, NEW j \in JobIds, ClaimPendingNotificationJob(w, j)
    PROVE  Fences'
<1> DEFINE n == jobs[j].attempts + 1
<1>a. /\ workers[w].pc = "idle"
      /\ jobs[j].status = "pending" \/ (jobs[j].status = "sending" /\ jobs[j].claimed_until = -1)
      /\ chatLock[jobs[j].chat] = "free"
      /\ UNCHANGED <<chatLock, accepted, disturbed>>
  BY DEF ClaimPendingNotificationJob, Claimable, IsOpen, OpenStatus, ghosts
<1>b. /\ jobs'[j].status = "sending" /\ jobs'[j].attempts = n /\ jobs'[j].claim_token = n
      /\ jobs'[j].claimed_until = ClaimWindow /\ jobs'[j].chat = jobs[j].chat
      /\ \A i \in JobIds \ {j} : jobs'[i] = jobs[i]
  BY DEF ClaimPendingNotificationJob, TypeOK, JobType, Claimed
<1>c. /\ workers'[w].pc = "claimed" /\ workers'[w].job = j /\ workers'[w].attempts = n
      /\ workers'[w].left = LockTimeout /\ ~workers'[w].stalled
      /\ \A v \in Workers \ {w} : workers'[v] = workers[v]
  BY DEF ClaimPendingNotificationJob, TypeOK, IdleWorker
<1>d. jobs[j].attempts \in Nat /\ n \in Nat /\ n >= 1 /\ n > jobs[j].attempts
  BY Numbers
<1> HIDE DEF n
<1> USE DEF Fences, JobOf
<1>e. ASSUME NEW v \in Workers, v # w, Busy(v)
      PROVE  /\ workers'[v] = workers[v] /\ workers[v].job \in JobIds
             /\ workers[v].attempts <= jobs[workers[v].job].attempts /\ workers[v].attempts \in Nat
             /\ workers[v].attempts # n \/ workers[v].job # j
             /\ HoldsLock(v)' <=> HoldsLock(v)
             /\ workers[v].job = j => ~HoldsLock(v)
             /\ workers[v].job # j => jobs'[workers[v].job] = jobs[workers[v].job]
  <2>1. /\ workers'[v] = workers[v] /\ workers[v].job \in JobIds
        /\ workers[v].attempts <= jobs[workers[v].job].attempts /\ workers[v].attempts \in Nat
    BY <1>c, <1>e, Numbers DEF ClaimsExist
  <2>2. jobs'[workers[v].job].chat = jobs[workers[v].job].chat
    BY <1>b, <2>1
  <2>3. HoldsLock(v)' <=> HoldsLock(v)
    BY <1>a, <2>1, <2>2 DEF HoldsLock, ChatOf
  <2>4. workers[v].job = j => ~HoldsLock(v)
    BY <1>a, WorkersAssumption DEF HoldsLock, ChatOf
  <2> QED
    BY <1>b, <1>d, <2>1, <2>3, <2>4
<1>f. ASSUME NEW v \in Workers, v # w, workers[v].pc \in Working, workers[v].job = j,
             workers[v].attempts = jobs[j].attempts
      PROVE  jobs[j].status = "sending" /\ jobs[j].claimed_until = -1
  BY <1>a, <1>f DEF LastClaimOpen, Working
<1>1. ClaimsExist'
  <2> SUFFICES ASSUME NEW v \in Workers, workers'[v].pc # "idle"
               PROVE  /\ workers'[v].job \in JobIds
                      /\ jobs'[workers'[v].job].status # "absent"
                      /\ workers'[v].attempts >= 1
                      /\ workers'[v].attempts <= jobs'[workers'[v].job].attempts
                      /\ workers'[v].pc = "marking" => workers'[v].outcome # "none"
    BY DEF ClaimsExist, Busy
  <2>1. CASE v = w
    BY <2>1, <1>b, <1>c, <1>d
  <2>2. CASE v # w
    BY <2>2, <1>b, <1>c, <1>d, <1>e DEF ClaimsExist, Busy
  <2> QED
    BY <2>1, <2>2
<1>2. ClaimsDistinct'
  <2> SUFFICES ASSUME NEW u \in Workers, NEW v \in Workers, u # v, Busy(u)', Busy(v)',
                      workers'[u].job = workers'[v].job
               PROVE  workers'[u].attempts # workers'[v].attempts
    BY DEF ClaimsDistinct
  <2>1. CASE u = w \/ v = w
    BY <2>1, <1>c, <1>e DEF Busy
  <2>2. CASE u # w /\ v # w
    BY <2>2, <1>c DEF ClaimsDistinct, Busy
  <2> QED
    BY <2>1, <2>2
<1>3. TokenCurrent'
  BY <1>b DEF TokenCurrent
<1>4. LockOfOwnChat'
  <2> SUFFICES ASSUME NEW c \in Chats, NEW v \in Workers, chatLock[c] = v
               PROVE  Busy(v)' /\ workers'[v].pc # "claimed" /\ ChatOf(v)' = c
    BY <1>a DEF LockOfOwnChat
  <2>1. Busy(v) /\ workers[v].pc # "claimed" /\ ChatOf(v) = c
    BY DEF LockOfOwnChat
  <2>2. v # w
    BY <1>a, <2>1 DEF Busy
  <2> QED
    BY <1>b, <1>e, <2>1, <2>2 DEF Busy, ChatOf
<1>5. CriticalLocked'
  <2> SUFFICES ASSUME NEW v \in Workers, workers'[v].pc \in Critical
               PROVE  HoldsLock(v)' \/ workers'[v].attempts \in disturbed'[workers'[v].job]
    BY DEF CriticalLocked
  <2>1. v # w
    BY <1>c DEF Critical
  <2> QED
    BY <1>a, <1>c, <1>e, <2>1 DEF CriticalLocked, Busy, Critical
<1>6. LastClaimOpen'
  <2> SUFFICES ASSUME NEW v \in Workers, workers'[v].pc \in Working,
                      workers'[v].attempts = jobs'[workers'[v].job].attempts
               PROVE  \/ jobs'[workers'[v].job].status \in {"sending", "canceled"}
                      \/ workers'[v].pc = "finalizing" /\ jobs'[workers'[v].job].status = "sent"
    BY DEF LastClaimOpen, Working
  <2>1. CASE workers'[v].job = j
    BY <2>1, <1>b
  <2>2. CASE workers'[v].job # j
    BY <2>2, <1>c, <1>e DEF LastClaimOpen, Working, Busy, Critical
  <2> QED
    BY <2>1, <2>2
<1>7. ValidatedIsLast'
  <2> SUFFICES ASSUME NEW v \in Workers, workers'[v].pc \in Validated, HoldsLock(v)'
               PROVE  workers'[v].attempts = jobs'[workers'[v].job].attempts
    BY DEF ValidatedIsLast, Validated
  <2>1. v # w
    BY <1>c DEF Validated
  <2> QED
    BY <1>c, <1>e, <2>1 DEF ValidatedIsLast, Validated, Busy
<1>8. AcceptedIsLast'
  <2> SUFFICES ASSUME NEW i \in JobIds, NEW a \in accepted[i] \ disturbed[i]
               PROVE  /\ a = jobs'[i].attempts
                      /\ \/ jobs'[i].status \in {"sent", "canceled"}
                         \/ \E v \in Workers : /\ workers'[v].pc = "finalizing"
                                               /\ workers'[v].job = i /\ workers'[v].attempts = a
    BY <1>a DEF AcceptedIsLast
  <2>1. /\ a = jobs[i].attempts
        /\ \/ jobs[i].status \in {"sent", "canceled"}
           \/ \E v \in Workers : /\ workers[v].pc = "finalizing"
                                 /\ workers[v].job = i /\ workers[v].attempts = a
    BY DEF AcceptedIsLast
  <2>2. ASSUME NEW v \in Workers, workers[v].pc = "finalizing", workers[v].job = i, workers[v].attempts = a
        PROVE  v # w /\ HoldsLock(v)
    BY <2>2, <1>a DEF CriticalLocked, Critical
  <2>3. i # j
    BY <2>1, <2>2, <1>a, <1>e DEF Busy
  <2>4. jobs'[i] = jobs[i]
    BY <2>3, <1>b
  <2> QED
    BY <2>1, <2>2, <2>4, <1>c
<1>9. LeaseCovers'
  <2> SUFFICES ASSUME NEW v \in Workers, workers'[v].pc \in Working,
                      ~workers'[v].stalled, ~workers'[v].late
               PROVE  /\ workers'[v].attempts = jobs'[workers'[v].job].attempts
                      /\ jobs'[workers'[v].job].status = "sending"
                         => jobs'[workers'[v].job].claimed_until >= workers'[v].left + Rest(workers'[v].pc)
    BY DEF LeaseCovers, Working
  <2>1. CASE v = w
    <3>1. LockTimeout + Rest("claimed") <= ClaimWindow
      BY WindowTypes, ClaimWindowAssumption DEF Rest, Last
    <3> QED
      BY <2>1, <3>1, <1>b, <1>c
  <2>2. CASE v # w
    <3>1. workers'[v] = workers[v] /\ Busy(v) /\ workers[v].pc \in Working
      BY <2>2, <1>c DEF Busy, Working, Critical
    <3>2. /\ workers[v].attempts = jobs[workers[v].job].attempts
          /\ jobs[workers[v].job].status = "sending"
             => jobs[workers[v].job].claimed_until >= workers[v].left + Rest(workers[v].pc)
      BY <3>1 DEF LeaseCovers, Working
    <3>3. workers[v].job # j
      BY <2>2, <3>1, <3>2, <1>f, Numbers
    <3> QED
      BY <2>2, <3>1, <3>2, <3>3, <1>e
  <2> QED
    BY <2>1, <2>2
<1>10. LeaseCoversSend'
  <2>1. ASSUME NEW v \in Workers, workers'[v].pc = "enabled"
        PROVE  workers'[v].left <= ValidationTimeout
    BY <2>1, <1>c DEF LeaseCoversSend
  <2>2. ASSUME NEW v \in Workers, workers'[v].pc \in {"validated", "sending"}, ~workers'[v].stalled
        PROVE  /\ workers'[v].attempts = jobs'[workers'[v].job].attempts
               /\ jobs'[workers'[v].job].status = "sending"
                  => jobs'[workers'[v].job].claimed_until >= workers'[v].left + SendRest(workers'[v].pc)
    <3>1. v # w /\ workers'[v] = workers[v] /\ Busy(v) /\ workers[v].pc \in Working
      BY <2>2, <1>c DEF Busy, Working, Critical
    <3>2. /\ workers[v].attempts = jobs[workers[v].job].attempts
          /\ jobs[workers[v].job].status = "sending"
             => jobs[workers[v].job].claimed_until >= workers[v].left + SendRest(workers[v].pc)
      BY <2>2, <3>1 DEF LeaseCoversSend, SendRest
    <3>3. workers[v].job # j
      BY <3>1, <3>2, <1>f, Numbers
    <3> QED
      BY <3>1, <3>2, <3>3, <1>e
  <2> QED
    BY <2>1, <2>2 DEF LeaseCoversSend, SendRest
<1> QED
  BY <1>1, <1>2, <1>3, <1>4, <1>5, <1>6, <1>7, <1>8, <1>9, <1>10

\* A tick keeps the fences: a lease runs down no faster than the timeouts it covers.
LEMMA TickKeeps == ASSUME TypeOK, Fences, Tick PROVE Fences'
<1> USE DEF Fences, JobOf
<1>a. UNCHANGED <<chatLock, accepted, disturbed>>
  BY DEF Tick, ghosts
<1>b. \A j \in JobIds :
          /\ jobs'[j].status = jobs[j].status /\ jobs'[j].attempts = jobs[j].attempts
          /\ jobs'[j].chat = jobs[j].chat /\ jobs'[j].claim_token = jobs[j].claim_token
          /\ jobs'[j].claimed_until = Down(jobs[j].claimed_until, -1)
  BY DEF Tick, TypeOK, JobType
<1>c. \A w \in Workers :
          /\ workers'[w].pc = workers[w].pc /\ workers'[w].job = workers[w].job
          /\ workers'[w].attempts = workers[w].attempts /\ workers'[w].outcome = workers[w].outcome
          /\ workers'[w].stalled = workers[w].stalled /\ workers'[w].late = workers[w].late
          /\ workers'[w].left = Down(workers[w].left, 0)
  BY DEF Tick, TypeOK, WorkerType
<1>d. \A w \in Workers : Busy(w) => workers[w].job \in JobIds
  BY DEF ClaimsExist
<1>e. \A w \in Workers : Busy(w) => (HoldsLock(w)' <=> HoldsLock(w))
  BY <1>a, <1>b, <1>c, <1>d DEF HoldsLock, ChatOf
<1>f. \A w \in Workers : workers[w].pc \in Working /\ ~workers[w].stalled => workers[w].left > 0
  BY DEF Tick, Working, Timed
<1>g. \A until \in Int, left, rest \in Nat :
          until >= left + rest /\ left > 0 => Down(until, -1) >= Down(left, 0) + rest
  BY DEF Down
<1>1. ClaimsExist'
  BY <1>b, <1>c DEF ClaimsExist, Busy
<1>2. ClaimsDistinct'
  BY <1>c DEF ClaimsDistinct, Busy
<1>3. TokenCurrent'
  BY <1>b DEF TokenCurrent
<1>4. LockOfOwnChat'
  BY <1>a, <1>b, <1>c, <1>d DEF LockOfOwnChat, ChatOf, Busy
<1>5. CriticalLocked'
  BY <1>a, <1>c, <1>e DEF CriticalLocked, Busy, Critical
<1>6. LastClaimOpen'
  BY <1>b, <1>c, <1>d DEF LastClaimOpen, Busy, Critical
<1>7. ValidatedIsLast'
  BY <1>b, <1>c, <1>d, <1>e DEF ValidatedIsLast, Busy
<1>8. AcceptedIsLast'
  BY <1>a, <1>b, <1>c DEF AcceptedIsLast
<1>9. LeaseCovers'
  <2> SUFFICES ASSUME NEW v \in Workers, workers[v].pc \in Working,
                      ~workers[v].stalled, ~workers[v].late
               PROVE  LET j == workers[v].job IN
                      /\ workers[v].attempts = jobs[j].attempts
                      /\ jobs[j].status = "sending"
                         => jobs'[j].claimed_until >= workers'[v].left + Rest(workers[v].pc)
    BY <1>b, <1>c, <1>d DEF LeaseCovers, Working, Busy, Critical
  <2>1. /\ workers[v].attempts = jobs[workers[v].job].attempts
        /\ jobs[workers[v].job].status = "sending"
           => jobs[workers[v].job].claimed_until >= workers[v].left + Rest(workers[v].pc)
    BY DEF LeaseCovers, Working
  <2>2. workers[v].job \in JobIds
    BY <1>d DEF Busy, Working, Critical
  <2> QED
    BY <1>b, <1>c, <1>f, <1>g, <2>1, <2>2, Numbers
<1>10. LeaseCoversSend'
  <2>1. ASSUME NEW v \in Workers, workers[v].pc = "enabled"
        PROVE  workers'[v].left <= ValidationTimeout
    BY <2>1, <1>c, Numbers, WindowTypes DEF LeaseCoversSend, Down
  <2>2. ASSUME NEW v \in Workers, workers[v].pc \in {"validated", "sending"}, ~workers[v].stalled
        PROVE  LET j == workers[v].job IN
               /\ workers[v].attempts = jobs[j].attempts
               /\ jobs[j].status = "sending"
                  => jobs'[j].claimed_until >= workers'[v].left + SendRest(workers[v].pc)
    <3>1. /\ workers[v].attempts = jobs[workers[v].job].attempts
          /\ jobs[workers[v].job].status = "sending"
             => jobs[workers[v].job].claimed_until >= workers[v].left + SendRest(workers[v].pc)
      BY <2>2 DEF LeaseCoversSend, SendRest
    <3>2. workers[v].job \in JobIds /\ workers[v].left > 0
      BY <2>2, <1>d, <1>f DEF Busy, Working, Critical
    <3> QED
      BY <1>b, <1>c, <1>g, <3>1, <3>2, Numbers
  <2> QED
    BY <2>1, <2>2, <1>b, <1>c, <1>d DEF LeaseCoversSend, SendRest, Busy
<1> QED
  BY <1>1, <1>2, <1>3, <1>4, <1>5, <1>6, <1>7, <1>8, <1>9, <1>10

\* The effect of a mark's transaction on its row when the claim is current.
LEMMA WriteOutcomeEffect ==
    ASSUME TypeOK, NEW w \in Workers, workers[w].job \in JobIds, NEW outcome,
           Owns(w), WriteOutcome(w, outcome)
    PROVE  LET j == workers[w].job IN
           /\ jobs'[j].status = StatusAfter(outcome)
           /\ jobs'[j].attempts = jobs[j].attempts /\ jobs'[j].chat = jobs[j].chat
           /\ jobs'[j].kind = jobs[j].kind
           /\ \A i \in JobIds \ {j} : jobs'[i] = jobs[i]
<1> DEFINE j == workers[w].job
<1>1. PICK delay : jobs' = [jobs EXCEPT ![j] =
                       [Closed(j, StatusAfter(outcome)) EXCEPT !.next_attempt_at = delay]]
  BY DEF WriteOutcome
<1>2. jobs[j] \in JobType
  BY DEF TypeOK
<1> QED
  BY <1>1, <1>2 DEF TypeOK, Closed, JobType

\* A step of an alert worker keeps the fences.
LEMMA WorkerStepKeeps ==
    ASSUME TypeOK, TypeOK', Fences, NEW w \in Workers, WorkerStep(w)
    PROVE  Fences'
<1> USE WindowTypes
<1>a. \A pc : QuietMove(w, pc) => Fences'
  BY QuietMoveKeeps
<1>b. /\ workers[w].left \in Nat /\ Rest("marking") = 0 /\ SafetyWindow \in Nat
      /\ \A pc : Rest(pc) \in Nat /\ SendRest(pc) \in Nat
  BY Numbers DEF Rest
<1>c. Busy(w) => workers[w].job \in JobIds
  BY DEF Fences, ClaimsExist
<1>1. CASE ProcessCanceled(w)
  <2>1. MarkTimeout <= workers[w].left + Rest("claimed")
    BY <1>b DEF Rest, Last
  <2>2. QuietMove(w, "marking")
    BY <1>1, <1>b, <2>1, DecideMoves
    DEF ProcessCanceled, QuietMove, Busy, Timed, Critical, Validated, ghosts
  <2> QED
    BY <1>a, <2>2
<1>2. CASE AcquireTelegramChatLock(w)
  BY <1>2, AcquireKeeps
<1>3. CASE DeferNotificationJob(w)
  <2>1. \A pc \in {"claimed", "locked", "enabled", "validated"} : MarkTimeout <= workers[w].left + Rest(pc)
    BY <1>b DEF Rest, Last
  <2>2. QuietMove(w, "marking")
    BY <1>3, <1>b, <2>1, DecideMoves
    DEF DeferNotificationJob, RetryOrFail, QuietMove, Busy, Timed, Critical, Validated, ghosts
  <2> QED
    BY <1>a, <2>2
<1>4. CASE CheckNotificationEnabled(w)
  <2>1. /\ MarkTimeout <= workers[w].left + Rest("locked")
        /\ ValidationTimeout + Rest("enabled") <= workers[w].left + Rest("locked")
    BY <1>b DEF Rest, Last
  <2>2. CASE Enabled(workers[w].job)
    <3>1. Goto(w, "enabled", ValidationTimeout)
      BY <1>4, <2>2 DEF CheckNotificationEnabled
    <3>2. QuietMove(w, "enabled")
      BY <1>4, <1>b, <2>1, <3>1, GotoMoves
      DEF CheckNotificationEnabled, QuietMove, Busy, Timed, Critical, Validated, ghosts
    <3> QED
      BY <1>a, <3>2
  <2>3. CASE ~Enabled(workers[w].job)
    <3>1. Decide(w, "canceled")
      BY <1>4, <2>3 DEF CheckNotificationEnabled
    <3>2. QuietMove(w, "marking")
      BY <1>4, <1>b, <2>1, <3>1, DecideMoves
      DEF CheckNotificationEnabled, QuietMove, Busy, Timed, Critical, Validated, ghosts
    <3> QED
      BY <1>a, <3>2
  <2> QED
    BY <2>2, <2>3
<1>5. CASE EnsureNotificationJobClaimCurrent(w)
  <2>0. workers[w].pc = "enabled" /\ UNCHANGED <<jobs, chatLock, accepted, disturbed>>
    BY <1>5 DEF EnsureNotificationJobClaimCurrent, ghosts
  <2>1. CASE ClaimCurrent(w)
    <3>1. Moves(w, "validated") /\ workers'[w].left = workers[w].left
      BY <1>5, <2>1 DEF EnsureNotificationJobClaimCurrent, Moves, TypeOK, WorkerType
    <3>a. ~workers'[w].late => ~workers[w].stalled /\ ~workers[w].late
      <4>1. workers'[w].late = (workers[w].late \/ workers[w].stalled)
        BY <1>5, <2>1 DEF EnsureNotificationJobClaimCurrent, TypeOK, WorkerType
      <4> QED
        BY <4>1, Zenon
    <3>2. JobOf(w).claimed_until >= workers[w].left + SendRest("validated")
      <4>1. workers[w].left <= ValidationTimeout
        BY <2>0 DEF Fences, LeaseCoversSend
      <4>2. JobOf(w).claimed_until > SafetyWindow /\ JobOf(w).claimed_until \in Int
        BY <2>0, <2>1, <1>c, Numbers DEF ClaimCurrent, JobOf, Busy
      <4> QED
        BY <1>b, <4>1, <4>2, SafetyWindowAssumption DEF SendRest
    <3>3. Rest("validated") = Rest("enabled")
      BY DEF Rest
    <3>4. QuietMove(w, "validated")
      BY <2>0, <2>1, <1>b, <3>1, <3>a, <3>2, <3>3
      DEF ClaimCurrent, QuietMove, Busy, Timed, Critical, Validated
    <3> QED
      BY <1>a, <3>4
  <2>2. CASE ~ClaimCurrent(w)
    <3>1. Goto(w, "releasing", MarkTimeout)
      BY <1>5, <2>2 DEF EnsureNotificationJobClaimCurrent
    <3>2. QuietMove(w, "releasing")
      BY <2>0, <3>1, GotoMoves DEF QuietMove, Busy, Timed, Critical, Validated
    <3> QED
      BY <1>a, <3>2
  <2> QED
    BY <2>1, <2>2
<1>6. CASE BeginSend(w)
  <2>1. /\ SendTimeout + Rest("sending") <= workers[w].left + Rest("validated")
        /\ SendTimeout + SendRest("sending") <= workers[w].left + SendRest("validated")
    BY <1>b DEF Rest, Last, SendRest
  <2>2. Goto(w, "sending", SendTimeout) /\ workers[w].pc = "validated"
        /\ UNCHANGED <<jobs, chatLock, accepted, disturbed>>
    BY <1>6 DEF BeginSend, ghosts
  <2>3. QuietMove(w, "sending")
    BY <1>b, <2>1, <2>2, GotoMoves DEF QuietMove, Busy, Timed, Critical, Validated
  <2> QED
    BY <1>a, <2>3
<1>7. CASE SendAccepted(w)
  <2>1. FinalizationBudget + Rest("finalizing") <= workers[w].left + Rest("sending")
    BY <1>b DEF Rest, Last
  <2>2. Goto(w, "finalizing", FinalizationBudget) /\ workers[w].pc = "sending"
        /\ UNCHANGED <<jobs, chatLock, disturbed>> /\ accepted' = Record(accepted, w)
    BY <1>7 DEF SendAccepted
  <2>3. \A j \in JobIds : \A a \in accepted'[j] :
            a \in accepted[j] \/ (j = workers[w].job /\ a = workers[w].attempts)
    BY <2>2 DEF Record, TypeOK
  <2>4. QuietMove(w, "finalizing")
    BY <1>b, <2>1, <2>2, <2>3, GotoMoves DEF QuietMove, Busy, Timed, Critical, Validated
  <2> QED
    BY <1>a, <2>4
<1>8. CASE SendRejected(w)
  <2>1. MarkTimeout <= workers[w].left + Rest("sending")
    BY <1>b DEF Rest, Last
  <2>2. QuietMove(w, "marking")
    BY <1>8, <1>b, <2>1, DecideMoves
    DEF SendRejected, QuietMove, Busy, Timed, Critical, Validated, ghosts
  <2> QED
    BY <1>a, <2>2
<1>9. ASSUME NEW reached \in BOOLEAN, SendFailed(w, reached) PROVE Fences'
  <2>1. MarkTimeout <= workers[w].left + Rest("sending")
    BY <1>b DEF Rest, Last
  <2>2. workers[w].pc = "sending" /\ Decide(w, RetryOrFail(w)) /\ UNCHANGED <<jobs, chatLock>>
    BY <1>9 DEF SendFailed
  <2>3. /\ \A j \in JobIds : disturbed[j] \subseteq disturbed'[j]
        /\ \A j \in JobIds : \A a \in accepted'[j] \ disturbed'[j] : a \in accepted[j]
    <3>1. CASE reached
      BY <1>9, <2>2, <3>1, <1>c DEF SendFailed, Record, TypeOK, Busy
    <3>2. CASE ~reached
      BY <1>9, <3>2 DEF SendFailed
    <3> QED
      BY <3>1, <3>2
  <2>4. QuietMove(w, "marking")
    BY <1>b, <2>1, <2>2, <2>3, DecideMoves
    DEF RetryOrFail, QuietMove, Busy, Timed, Critical, Validated
  <2> QED
    BY <1>a, <2>4
<1>10. CASE MarkNotificationJob(w)
  <2>1. /\ workers[w].pc = "marking" /\ WriteOutcome(w, workers[w].outcome)
        /\ Goto(w, "releasing", MarkTimeout) /\ UNCHANGED <<chatLock, accepted, disturbed>>
    BY <1>10 DEF MarkNotificationJob, ghosts
  <2>2. workers[w].outcome \in {"retry", "failed", "permanent", "canceled"}
    BY <2>1 DEF Fences, ClaimsExist, Busy, TypeOK, WorkerType
  <2>3. CASE Owns(w)
    <3>1. StatusAfter(workers[w].outcome) \in {"pending", "failed", "canceled"}
      BY <2>2 DEF StatusAfter
    <3>2. Writes(w, StatusAfter(workers[w].outcome), "releasing")
      BY <2>1, <2>3, <3>1, <1>c, GotoMoves, WriteOutcomeEffect DEF Writes, Busy
    <3> QED
      BY <3>2, WritesKeeps
  <2>4. CASE ~Owns(w)
    <3>1. QuietMove(w, "releasing")
      BY <2>1, <2>4, GotoMoves DEF WriteOutcome, QuietMove, Busy, Timed, Critical, Validated
    <3> QED
      BY <3>1, <1>a
  <2> QED
    BY <2>3, <2>4
<1>11. CASE FinalizeSent(w)
  <2>1. /\ workers[w].pc = "finalizing" /\ WriteOutcome(w, "sent")
        /\ Goto(w, "releasing", MarkTimeout) /\ UNCHANGED <<chatLock, accepted, disturbed>>
    BY <1>11 DEF FinalizeSent, ghosts
  <2>2. CASE Owns(w)
    <3>1. Writes(w, "sent", "releasing")
      BY <2>1, <2>2, <1>c, GotoMoves, WriteOutcomeEffect DEF Writes, Busy, StatusAfter
    <3> QED
      BY <3>1, WritesKeeps
  <2>3. CASE ~Owns(w)
    <3>1. JobOf(w).status \in {"sent", "canceled"} \/ workers[w].attempts # JobOf(w).attempts
      BY <2>1, <2>3, <1>c DEF Fences, LastClaimOpen, TokenCurrent, Owns, JobOf, Busy, Critical
    <3>2. QuietMove(w, "releasing")
      BY <2>1, <2>3, <3>1, GotoMoves DEF WriteOutcome, QuietMove, Busy, Timed, Critical, Validated
    <3> QED
      BY <3>2, <1>a
  <2> QED
    BY <2>2, <2>3
<1>12. ASSUME NEW committed \in BOOLEAN, FinalizeError(w, committed) PROVE Fences'
  <2>1. /\ workers[w].pc = "finalizing" /\ UNCHANGED <<chatLock, accepted, disturbed>>
    BY <1>12 DEF FinalizeError, ghosts
  <2>2. /\ Moves(w, "finalizing") /\ workers'[w].left = workers[w].left
        /\ workers'[w].stalled = workers[w].stalled /\ workers'[w].late = workers[w].late
    BY <1>12, <2>1 DEF FinalizeError, Moves, TypeOK, WorkerType
  <2>3. CASE committed
    <3>1. Owns(w) /\ WriteOutcome(w, "sent")
      BY <1>12, <2>3 DEF FinalizeError
    <3>2. Writes(w, "sent", "finalizing")
      BY <2>1, <2>2, <3>1, <1>c, WriteOutcomeEffect DEF Writes, Busy, StatusAfter
    <3> QED
      BY <3>2, WritesKeeps
  <2>4. CASE ~committed
    <3>1. UNCHANGED jobs
      BY <1>12, <2>4 DEF FinalizeError
    <3>2. QuietMove(w, "finalizing")
      BY <2>1, <2>2, <3>1, <1>b DEF QuietMove, Busy, Timed, Critical, Validated
    <3> QED
      BY <3>2, <1>a
  <2> QED
    BY <2>3, <2>4
<1>13. CASE ReleaseTelegramChatLock(w)
  <2>1. /\ workers[w].pc = "releasing" /\ UNCHANGED <<jobs, accepted, disturbed>>
        /\ workers' = [workers EXCEPT ![w] = IdleWorker]
        /\ chatLock' = IF HoldsLock(w) THEN [chatLock EXCEPT ![ChatOf(w)] = "free"] ELSE chatLock
    BY <1>13 DEF ReleaseTelegramChatLock, ghosts
  <2>2. \A c \in Chats : /\ chatLock[c] # w => chatLock'[c] = chatLock[c]
                         /\ chatLock[c] = w => chatLock'[c] \notin Workers
    BY <2>1, WorkersAssumption DEF Fences, LockOfOwnChat, HoldsLock, TypeOK
  <2>3. Stops(w)
    BY <2>1, <2>2 DEF Stops, TypeOK
  <2> QED
    BY <2>3, StopsKeeps
<1> QED
  BY <1>1, <1>2, <1>3, <1>4, <1>5, <1>6, <1>7, <1>8, <1>9, <1>10, <1>11, <1>12, <1>13 DEF WorkerStep

\* A fault of an alert worker keeps the fences.
LEMMA WorkerFaultKeeps ==
    ASSUME TypeOK, TypeOK', Fences, NEW w \in Workers, WorkerFault(w)
    PROVE  Fences'
<1>a. \A pc : QuietMove(w, pc) => Fences'
  BY QuietMoveKeeps
<1>b. Busy(w) => workers[w].job \in JobIds
  BY DEF Fences, ClaimsExist
<1>1. CASE MarkError(w)
  <2>1. QuietMove(w, "releasing")
    BY <1>1, GotoMoves DEF MarkError, QuietMove, Busy, Timed, Critical, Validated, ghosts
  <2> QED
    BY <2>1, <1>a
<1>2. CASE FinalizeGiveUp(w)
  <2>1. /\ workers[w].pc = "finalizing" /\ Goto(w, "releasing", MarkTimeout)
        /\ UNCHANGED <<jobs, chatLock, accepted>> /\ disturbed' = Record(disturbed, w)
    BY <1>2 DEF FinalizeGiveUp
  <2>2. /\ \A j \in JobIds : disturbed[j] \subseteq disturbed'[j]
        /\ workers[w].attempts \in disturbed'[workers[w].job]
    BY <2>1, <1>b DEF Record, TypeOK, Busy
  <2>3. QuietMove(w, "releasing")
    BY <2>1, <2>2, GotoMoves DEF QuietMove, Busy, Timed, Critical, Validated
  <2> QED
    BY <2>3, <1>a
<1>3. CASE LoseLockSession(w)
  BY <1>3, LoseLockKeeps
<1>4. CASE Stall(w)
  <2>1. /\ Busy(w) /\ UNCHANGED <<jobs, chatLock, accepted, disturbed>>
        /\ Moves(w, workers[w].pc) /\ workers'[w].stalled
        /\ workers'[w].left = workers[w].left /\ workers'[w].outcome = workers[w].outcome
    BY <1>4 DEF Stall, Busy, ghosts, Moves, TypeOK, WorkerType
  <2>2. /\ workers[w].pc \in Timed
        /\ workers[w].pc = "marking" => workers[w].outcome # "none"
        /\ workers[w].pc = "enabled" => workers[w].left <= ValidationTimeout
    BY <2>1 DEF Busy, TypeOK, WorkerType, Fences, ClaimsExist, LeaseCoversSend
  <2>3. QuietMove(w, workers[w].pc)
    BY <2>1, <2>2 DEF QuietMove, Validated
  <2> QED
    BY <2>3, <1>a
<1>5. CASE CancelContext(w)
  <2>1. /\ Busy(w) /\ UNCHANGED <<jobs, chatLock, accepted, disturbed>>
        /\ Moves(w, workers[w].pc) /\ workers'[w].left = workers[w].left
        /\ workers'[w].outcome = workers[w].outcome
        /\ workers'[w].stalled = workers[w].stalled /\ workers'[w].late = workers[w].late
    BY <1>5 DEF CancelContext, Busy, ghosts, Moves, TypeOK, WorkerType
  <2>2. /\ workers[w].pc \in Timed
        /\ workers[w].pc = "marking" => workers[w].outcome # "none"
        /\ workers[w].pc = "enabled" => workers[w].left <= ValidationTimeout
    BY <2>1 DEF Busy, TypeOK, WorkerType, Fences, ClaimsExist, LeaseCoversSend
  <2>3. \A pc : /\ workers[w].left + Rest(pc) <= workers[w].left + Rest(pc)
                /\ workers[w].left + SendRest(pc) <= workers[w].left + SendRest(pc)
    BY Numbers
  <2>4. QuietMove(w, workers[w].pc)
    BY <2>1, <2>2, <2>3 DEF QuietMove, Validated
  <2> QED
    BY <2>4, <1>a
<1>6. ASSUME NEW reached \in BOOLEAN, Crash(w, reached) PROVE Fences'
  <2>1. /\ Busy(w) /\ UNCHANGED jobs /\ workers' = [workers EXCEPT ![w] = IdleWorker]
        /\ chatLock' = IF HoldsLock(w) THEN [chatLock EXCEPT ![ChatOf(w)] = "orphan"] ELSE chatLock
        /\ accepted' \in {accepted, Record(accepted, w)} /\ disturbed' = Record(disturbed, w)
    BY <1>6 DEF Crash, Busy
  <2>2. \A c \in Chats : /\ chatLock[c] # w => chatLock'[c] = chatLock[c]
                         /\ chatLock[c] = w => chatLock'[c] \notin Workers
    BY <2>1, WorkersAssumption DEF Fences, LockOfOwnChat, HoldsLock, TypeOK
  <2>3. /\ \A j \in JobIds : disturbed[j] \subseteq disturbed'[j]
        /\ \A j \in JobIds : accepted'[j] \ disturbed'[j] \subseteq accepted[j]
        /\ workers[w].attempts \in disturbed'[workers[w].job]
    BY <2>1, <1>b DEF Record, TypeOK
  <2>4. Stops(w)
    BY <2>1, <2>2, <2>3 DEF Stops, TypeOK
  <2> QED
    BY <2>4, StopsKeeps
<1> QED
  BY <1>1, <1>2, <1>3, <1>4, <1>5, <1>6 DEF WorkerFault

\* A handled update keeps the workers' locks.
LEMMA HandlerEndLocks ==
    ASSUME TypeOK, NEW c \in Chats, HandlerEnd(c)
    PROVE  /\ workers' = workers /\ UNCHANGED <<accepted, disturbed>>
           /\ \A d \in Chats, w \in Workers : (chatLock'[d] = w) <=> (chatLock[d] = w)
  BY WorkersAssumption DEF HandlerEnd, TypeOK

\* A canceled row is one of the row steps.
LEMMA ClosedRow ==
    ASSUME TypeOK, NEW j \in JobIds
    PROVE  /\ Closed(j, "canceled").status = "canceled"
           /\ Closed(j, "canceled").attempts = jobs[j].attempts
           /\ Closed(j, "canceled").chat = jobs[j].chat
<1>1. jobs[j] \in JobType
  BY DEF TypeOK
<1> QED
  BY <1>1 DEF Closed, JobType

\* The commit of a handled update keeps the fences.
LEMMA HandlerCommitKeeps ==
    ASSUME TypeOK, Fences, NEW c \in Chats, HandlerCommit(c)
    PROVE  Fences'
<1>1. HandlerEnd(c)
  BY DEF HandlerCommit, Subscribe, Unsubscribe, SetLanguage, HandleOther, SetInterval, CancelPriceAlert
<1>2. /\ workers' = workers /\ UNCHANGED <<accepted, disturbed>>
      /\ \A d \in Chats, w \in Workers : (chatLock'[d] = w) <=> (chatLock[d] = w)
  BY <1>1, HandlerEndLocks
<1>3. \A j \in JobIds : RowStep(j)
  <2>1. CASE UNCHANGED jobs
    BY <2>1, <1>2 DEF RowStep
  <2>2. CASE Unsubscribe(c)
    <3> SUFFICES ASSUME NEW j \in JobIds PROVE RowStep(j)
      OBVIOUS
    <3>1. jobs'[j] = jobs[j] \/ jobs'[j] = Closed(j, "canceled")
      BY <2>2 DEF Unsubscribe
    <3> QED
      BY <3>1, <1>2, ClosedRow DEF RowStep
  <2>3. ASSUME NEW i \in JobIds, CancelPriceAlert(c, i) PROVE \A j \in JobIds : RowStep(j)
    <3> DEFINE row == [Closed(i, "canceled") EXCEPT !.alert = "canceled"]
    <3>1. jobs' = [jobs EXCEPT ![i] = row]
      BY <2>3 DEF CancelPriceAlert
    <3>2. row.status = "canceled" /\ row.attempts = jobs[i].attempts /\ row.chat = jobs[i].chat
      <4>1. jobs[i] \in JobType
        BY DEF TypeOK
      <4> QED
        BY <4>1 DEF Closed, JobType
    <3> HIDE DEF row
    <3> QED
      BY <3>1, <3>2, <1>2 DEF RowStep, TypeOK
  <2> QED
    BY <2>1, <2>2, <2>3 DEF HandlerCommit, Subscribe, SetLanguage, HandleOther, SetInterval
<1> QED
  BY <1>2, <1>3, RowStepsKeep DEF RowSteps

\* Every step keeps the fences.
LEMMA FencesStep == ASSUME TypeOK, Fences, Next PROVE Fences'
<1>0. TypeOK'
  BY TypeStep DEF Fences
<1>1. CASE CreateCronNotificationJobs
  <2>0. PICK rows \in SUBSET {j \in JobIds : jobs[j].status = "absent"} :
             \E chat \in [rows -> {c \in Chats : Due(c)}] : CronBatch(rows, chat)
    BY <1>1, CronBatchTaken
  <2>1. PICK chat \in [rows -> {c \in Chats : Due(c)}] : CronBatch(rows, chat)
    BY <2>0
  <2>2. \A d : NewJob("scheduled", d).status = "pending"
    BY DEF NewJob, AbsentJob
  <2>3. RowSteps
    BY <2>1, <2>2 DEF CronBatch, RowSteps, RowStep, ghosts
  <2> QED
    BY <2>3, RowStepsKeep
<1>2. ASSUME NEW j \in JobIds, CleanupNotificationJobHistory(j) PROVE Fences'
  <2>1. AbsentJob.status = "absent"
    BY DEF AbsentJob
  <2>2. RowSteps
    BY <1>2, <2>1 DEF CleanupNotificationJobHistory, RowSteps, RowStep, TypeOK
  <2> QED
    BY <2>2, RowStepsKeep
<1>3. ASSUME NEW j \in JobIds, NEW c \in Chats, TriggerPriceAlert(j, c) PROVE Fences'
  <2>1. NewJob("price_alert", c).status = "pending"
    BY DEF NewJob, AbsentJob
  <2>2. RowSteps
    BY <1>3, <2>1 DEF TriggerPriceAlert, RowSteps, RowStep, TypeOK, ghosts
  <2> QED
    BY <2>2, RowStepsKeep
<1>4. ASSUME NEW w \in Workers, NEW j \in JobIds, ClaimPendingNotificationJob(w, j) PROVE Fences'
  BY <1>4, ClaimKeeps
<1>5. ASSUME NEW w \in Workers, WorkerStep(w) PROVE Fences'
  BY <1>0, <1>5, WorkerStepKeeps
<1>6. ASSUME NEW w \in Workers, WorkerFault(w) PROVE Fences'
  BY <1>0, <1>6, WorkerFaultKeeps
<1>7. ASSUME NEW c \in Chats, HandlerBegin(c) \/ LoseHandlerSession(c) \/ ReapSession(c) PROVE Fences'
  <2>1. RowSteps
    BY <1>7, WorkersAssumption
    DEF HandlerBegin, LoseHandlerSession, ReapSession, RowSteps, RowStep, TypeOK, ghosts
  <2> QED
    BY <2>1, RowStepsKeep
<1>8. ASSUME NEW c \in Chats, HandlerCommit(c) PROVE Fences'
  BY <1>8, HandlerCommitKeeps
<1>9. CASE Tick
  BY <1>9, TickKeeps
<1> QED
  BY <1>1, <1>2, <1>3, <1>4, <1>5, <1>6, <1>7, <1>8, <1>9 DEF Next

\* The invariant holds at the start: no row, no claim, every lock free.
LEMMA InitIInv == Init => IInv
<1> SUFFICES ASSUME Init PROVE IInv
  OBVIOUS
<1> USE DEF Init
<1>1. \A w \in Workers : workers[w].pc = "idle"
  BY DEF IdleWorker
<1>2. \A j \in JobIds : jobs[j].status = "absent" /\ accepted[j] = {}
  BY DEF AbsentJob
<1>3. TypeOK
  <2>1. NewSubscriber \in SubscriberType
    BY WindowTypes DEF NewSubscriber, SubscriberType
  <2> QED
    BY <2>1, AbsentJobType, IdleType, WindowTypes DEF TypeOK
<1>4. ClaimsExist /\ ClaimsDistinct /\ TokenCurrent
  BY <1>1, <1>2 DEF ClaimsExist, ClaimsDistinct, TokenCurrent, Busy
<1>5. LockOfOwnChat
  BY WorkersAssumption DEF LockOfOwnChat
<1>6. CriticalLocked /\ LastClaimOpen /\ ValidatedIsLast /\ LeaseCovers /\ LeaseCoversSend
  BY <1>1 DEF CriticalLocked, LastClaimOpen, ValidatedIsLast, LeaseCovers, LeaseCoversSend, Critical
<1>7. AcceptedIsLast
  BY <1>2 DEF AcceptedIsLast
<1> QED
  BY <1>3, <1>4, <1>5, <1>6, <1>7 DEF IInv

\* A step that changes nothing keeps it.
LEMMA StutterIInv == ASSUME IInv, UNCHANGED vars PROVE IInv'
<1>1. TypeOK'
  BY DEF IInv, TypeOK, vars
<1>2. RowSteps
  BY DEF RowSteps, RowStep, vars
<1>3. Fences'
  BY <1>2, RowStepsKeep DEF IInv, Fences
<1> QED
  BY <1>1, <1>3 DEF IInv, Fences

\* Every behaviour of the outbox keeps the inductive invariant: the lock, the claim number
\* and the lease together fence every claim.
THEOREM FencesHold == Spec => []IInv
<1>1. IInv /\ [Next]_vars => IInv'
  <2> SUFFICES ASSUME IInv, [Next]_vars PROVE IInv'
    OBVIOUS
  <2>1. CASE Next
    BY <2>1, TypeStep, FencesStep DEF IInv, Fences
  <2>2. CASE UNCHANGED vars
    BY <2>2, StutterIInv
  <2> QED
    BY <2>1, <2>2
<1> QED
  BY InitIInv, <1>1, PTL DEF Spec

-----------------------------------------------------------------------------
(* The properties *)

\* The rows of notification_jobs and subscribers, the locks and the workers keep their types.
THEOREM TypeCorrect == Spec => []TypeOK
<1>1. IInv => TypeOK
  BY DEF IInv
<1> QED
  BY <1>1, FencesHold, PTL

\* An accepted message is sent again only after a fault that hid its outcome, whatever the
\* number of workers, faults and pauses (processNotificationJob and the mark* transactions).
THEOREM NoSilentResend == Spec => []ResentOnlyIfDisturbed
<1>1. ASSUME IInv PROVE ResentOnlyIfDisturbed
  <2> SUFFICES ASSUME NEW j \in JobIds, NEW a \in accepted[j] \ disturbed[j]
               PROVE  jobs[j].attempts = a /\ jobs[j].status \in {"sending", "sent", "canceled"}
    BY DEF ResentOnlyIfDisturbed
  <2>1. /\ a = jobs[j].attempts
        /\ \/ jobs[j].status \in {"sent", "canceled"}
           \/ \E w \in Workers : /\ workers[w].pc = "finalizing"
                                 /\ workers[w].job = j /\ workers[w].attempts = a
    BY <1>1 DEF IInv, AcceptedIsLast
  <2> QED
    BY <1>1, <2>1 DEF IInv, LastClaimOpen, JobOf, Critical
<1> QED
  BY <1>1, FencesHold, PTL

\* The lease of a worker that was never paused covers its work up to the mark, for every
\* choice of timeouts within NotificationJobClaimWindow.
THEOREM LeaseSuffices == Spec => []LeaseCoversWork
<1>1. ASSUME IInv PROVE LeaseCoversWork
  <2> SUFFICES ASSUME NEW w \in Workers, workers[w].pc \notin {"idle", "releasing"},
                      ~workers[w].stalled, ~workers[w].late, Owns(w)
               PROVE  JobOf(w).claimed_until >= 0
    BY DEF LeaseCoversWork
  <2>1. workers[w].pc \in Working
    BY <1>1 DEF IInv, TypeOK, WorkerType, Timed, Working
  <2>2. JobOf(w).claimed_until >= workers[w].left + Rest(workers[w].pc)
    BY <1>1, <2>1 DEF IInv, LeaseCovers, Owns, Working
  <2>3. workers[w].job \in JobIds
    BY <1>1 DEF IInv, ClaimsExist, Busy
  <2> QED
    BY <1>1, <2>2, <2>3, Numbers DEF IInv, JobOf
<1> QED
  BY <1>1, FencesHold, PTL

\* Two workers never send one job at the same time, unless one of them was paused after its
\* validation and has lost its lock session as well.
THEOREM OneSender == Spec => []OneSenderPerJob
<1>1. ASSUME IInv PROVE OneSenderPerJob
  <2> SUFFICES ASSUME NEW v \in Workers, NEW w \in Workers, v # w,
                      workers[v].pc = "sending", workers[w].pc = "sending",
                      workers[v].job = workers[w].job,
                      \A u \in {v, w} : HoldsLock(u) \/ ~workers[u].stalled
               PROVE  FALSE
    BY DEF OneSenderPerJob
  <2>1. \A u \in {v, w} : workers[u].attempts = JobOf(u).attempts
    BY <1>1 DEF IInv, ValidatedIsLast, LeaseCoversSend
  <2>2. workers[v].attempts = workers[w].attempts
    BY <2>1 DEF JobOf
  <2> QED
    BY <1>1, <2>2 DEF IInv, ClaimsDistinct, Busy
<1> QED
  BY <1>1, FencesHold, PTL

-----------------------------------------------------------------------------
(* The life of a row *)

\* What a step other than cron's does to a row: a finished one stays as it is until it is
\* deleted, and an open scheduled one was an open scheduled job of the same chat before.
Ages(j) ==
    /\ jobs[j].status \in TerminalStatus => jobs'[j].status \in {jobs[j].status, "absent"}
    /\ jobs'[j].status \in OpenStatus /\ jobs'[j].kind = "scheduled"
       => IsOpen(j) /\ jobs[j].kind = "scheduled" /\ jobs'[j].chat = jobs[j].chat

\* The transaction of a mark* and of the sent finalization writes only an open row.
LEMMA WriteOutcomeAges ==
    ASSUME TypeOK, NEW w \in Workers, workers[w].job \in JobIds, NEW outcome, WriteOutcome(w, outcome)
    PROVE  \A j \in JobIds : Ages(j)
<1>1. CASE Owns(w)
  <2>1. IsOpen(workers[w].job)
    BY <1>1 DEF Owns, JobOf, IsOpen, OpenStatus
  <2>2. ~(jobs[workers[w].job].status \in TerminalStatus)
    BY <2>1 DEF IsOpen, OpenStatus, TerminalStatus
  <2> QED
    BY <1>1, <2>1, <2>2, WriteOutcomeEffect DEF Ages, IsOpen
<1>2. CASE ~Owns(w)
  BY <1>2 DEF WriteOutcome, Ages, IsOpen
<1> QED
  BY <1>1, <1>2

\* A worker writes rows only with a mark's transaction.
LEMMA WorkerWrites ==
    ASSUME TypeOK, ClaimsExist, NEW w \in Workers, WorkerStep(w)
    PROVE  \/ UNCHANGED <<jobs, subscribers>>
           \/ /\ workers[w].job \in JobIds
              /\ \E outcome \in {"sent", "retry", "failed", "permanent", "canceled"} : WriteOutcome(w, outcome)
<1>1. ASSUME NEW committed \in BOOLEAN, FinalizeError(w, committed)
      PROVE  UNCHANGED <<jobs, subscribers>> \/ (workers[w].pc # "idle" /\ WriteOutcome(w, "sent"))
  BY <1>1 DEF FinalizeError
<1>2. ASSUME MarkNotificationJob(w)
      PROVE  /\ workers[w].pc # "idle" /\ WriteOutcome(w, workers[w].outcome)
             /\ workers[w].outcome \in {"sent", "retry", "failed", "permanent", "canceled"}
  BY <1>2 DEF MarkNotificationJob, ClaimsExist, Busy, TypeOK, WorkerType
<1>3. ASSUME FinalizeSent(w) PROVE workers[w].pc # "idle" /\ WriteOutcome(w, "sent")
  BY <1>3 DEF FinalizeSent
<1>4. workers[w].pc # "idle" => workers[w].job \in JobIds
  BY DEF ClaimsExist, Busy
<1> QED
  BY <1>1, <1>2, <1>3, <1>4
  DEF WorkerStep, ProcessCanceled, AcquireTelegramChatLock, DeferNotificationJob,
      CheckNotificationEnabled, EnsureNotificationJobClaimCurrent, BeginSend, SendAccepted,
      SendRejected, SendFailed, ReleaseTelegramChatLock

\* Every step but cron's ages the rows.
LEMMA StepAges ==
    ASSUME TypeOK, ClaimsExist, Next, ~CreateCronNotificationJobs
    PROVE  \A j \in JobIds : Ages(j)
<1>a. jobs' = jobs => \A j \in JobIds : Ages(j)
  BY DEF Ages, IsOpen
<1>2. ASSUME NEW i \in JobIds, CleanupNotificationJobHistory(i) PROVE \A j \in JobIds : Ages(j)
  BY <1>2 DEF CleanupNotificationJobHistory, Ages, IsOpen, TypeOK, AbsentJob, OpenStatus
<1>3. ASSUME NEW i \in JobIds, NEW c \in Chats, TriggerPriceAlert(i, c) PROVE \A j \in JobIds : Ages(j)
  <2>1. NewJob("price_alert", c).kind = "price_alert"
    BY DEF NewJob, AbsentJob
  <2> QED
    BY <1>3, <2>1 DEF TriggerPriceAlert, Ages, IsOpen, TypeOK, TerminalStatus
<1>4. ASSUME NEW w \in Workers, NEW i \in JobIds, ClaimPendingNotificationJob(w, i)
      PROVE \A j \in JobIds : Ages(j)
  <2>1. IsOpen(i) /\ ~(jobs[i].status \in TerminalStatus)
    BY <1>4 DEF ClaimPendingNotificationJob, Claimable, IsOpen, OpenStatus, TerminalStatus
  <2>2. jobs[i] \in JobType
    BY DEF TypeOK
  <2>3. /\ \A j \in JobIds \ {i} : jobs'[j] = jobs[j]
        /\ jobs'[i].kind = jobs[i].kind /\ jobs'[i].chat = jobs[i].chat
    BY <1>4, <2>2 DEF ClaimPendingNotificationJob, TypeOK, JobType, Claimed
  <2> QED
    BY <2>1, <2>3 DEF Ages, IsOpen
<1>5. ASSUME NEW w \in Workers, WorkerStep(w) PROVE \A j \in JobIds : Ages(j)
  <2>1. \/ jobs' = jobs
        \/ workers[w].job \in JobIds /\ \E outcome : WriteOutcome(w, outcome)
    BY <1>5, WorkerWrites
  <2> QED
    BY <2>1, <1>a, WriteOutcomeAges
<1>6. ASSUME NEW w \in Workers, WorkerFault(w) PROVE \A j \in JobIds : Ages(j)
  BY <1>6, <1>a
  DEF WorkerFault, MarkError, FinalizeGiveUp, LoseLockSession, Stall, CancelContext, Crash
<1>7. ASSUME NEW c \in Chats, HandlerBegin(c) \/ LoseHandlerSession(c) \/ ReapSession(c)
      PROVE  \A j \in JobIds : Ages(j)
  BY <1>7, <1>a DEF HandlerBegin, LoseHandlerSession, ReapSession
<1>8. ASSUME NEW c \in Chats, HandlerCommit(c) PROVE \A j \in JobIds : Ages(j)
  <2>1. CASE Unsubscribe(c)
    <3> SUFFICES ASSUME NEW j \in JobIds PROVE Ages(j)
      OBVIOUS
    <3>1. jobs'[j] = jobs[j] \/ (IsOpen(j) /\ jobs'[j] = Closed(j, "canceled"))
      BY <2>1 DEF Unsubscribe, OpenScheduled
    <3> QED
      BY <3>1, ClosedRow DEF Ages, IsOpen, OpenStatus, TerminalStatus
  <2>2. ASSUME NEW i \in JobIds, CancelPriceAlert(c, i) PROVE \A j \in JobIds : Ages(j)
    <3> DEFINE row == [Closed(i, "canceled") EXCEPT !.alert = "canceled"]
    <3>1. jobs' = [jobs EXCEPT ![i] = row] /\ IsOpen(i)
      BY <2>2 DEF CancelPriceAlert
    <3>2. row.status = "canceled"
      <4>1. jobs[i] \in JobType
        BY DEF TypeOK
      <4> QED
        BY <4>1 DEF Closed, JobType
    <3> HIDE DEF row
    <3> QED
      BY <3>1, <3>2 DEF Ages, IsOpen, OpenStatus, TerminalStatus, TypeOK
  <2> QED
    BY <1>8, <1>a, <2>1, <2>2 DEF HandlerCommit, Subscribe, SetLanguage, HandleOther, SetInterval
<1>9. CASE Tick
  <2> SUFFICES ASSUME NEW j \in JobIds PROVE Ages(j)
    OBVIOUS
  <2>1. jobs[j] \in JobType
    BY DEF TypeOK
  <2>2. jobs'[j].status = jobs[j].status /\ jobs'[j].kind = jobs[j].kind /\ jobs'[j].chat = jobs[j].chat
    BY <1>9, <2>1 DEF Tick, JobType
  <2> QED
    BY <2>2 DEF Ages, IsOpen
<1> QED
  BY <1>2, <1>3, <1>4, <1>5, <1>6, <1>7, <1>8, <1>9 DEF Next

\* Cron fills unused rows only, each with an open scheduled job of its own chat, and only for
\* chats that have none.
LEMMA CronRows ==
    ASSUME TypeOK, CreateCronNotificationJobs
    PROVE  /\ \A j \in JobIds : jobs'[j] = jobs[j] \/ jobs[j].status = "absent"
           /\ \A i, j \in JobIds :
                  /\ jobs'[i] # jobs[i] /\ i # j
                  => \/ jobs'[j] # jobs[j] /\ jobs'[i].chat # jobs'[j].chat
                     \/ jobs'[j] = jobs[j] /\ j \notin OpenScheduled(jobs'[i].chat)
<1>0. PICK rows \in SUBSET {j \in JobIds : jobs[j].status = "absent"} :
           \E chat \in [rows -> {c \in Chats : Due(c)}] : CronBatch(rows, chat)
  BY CronBatchTaken
<1>1. PICK chat \in [rows -> {c \in Chats : Due(c)}] : CronBatch(rows, chat)
  BY <1>0
<1>2. \A j \in JobIds : IF j \in rows THEN jobs'[j] = NewJob("scheduled", chat[j])
                                      ELSE jobs'[j] = jobs[j]
  BY <1>1 DEF CronBatch
<1>3. \A c : NewJob("scheduled", c).chat = c /\ NewJob("scheduled", c).status = "pending"
  BY DEF NewJob, AbsentJob
<1>4. \A j \in rows : jobs[j].status = "absent" /\ jobs'[j] # jobs[j]
  BY <1>2, <1>3
<1>5. \A j \in rows : OpenScheduled(chat[j]) = {}
  BY <1>1 DEF Due
<1>6. \A i, j \in rows : i # j => chat[i] # chat[j]
  BY <1>1 DEF CronBatch
<1> QED
  BY <1>2, <1>3, <1>4, <1>5, <1>6

\* A finished job is never reopened or rewritten: no stale worker, late finalization or
\* handler gets past the status condition of its UPDATE.
THEOREM FinishedStaysFinished == Spec => TerminalIsFinal
<1>1. IInv /\ [Next]_vars =>
          [\A j \in JobIds : jobs[j].status \in TerminalStatus
              => jobs'[j].status \in {jobs[j].status, "absent"}]_vars
  <2> SUFFICES ASSUME IInv, Next, NEW j \in JobIds, jobs[j].status \in TerminalStatus
               PROVE  jobs'[j].status \in {jobs[j].status, "absent"}
    OBVIOUS
  <2>1. CASE CreateCronNotificationJobs
    BY <2>1, CronRows DEF IInv, TerminalStatus
  <2>2. CASE ~CreateCronNotificationJobs
    BY <2>2, StepAges DEF IInv, Ages
  <2> QED
    BY <2>1, <2>2
<1> QED
  BY <1>1, FencesHold, PTL DEF Spec, TerminalIsFinal

\* No step makes a second open scheduled job of a chat: createCronNotificationJobs leaves out
\* the chats that have one, and every other step only ages rows.
LEMMA OneOpenScheduledKept ==
    ASSUME IInv, OneOpenScheduledJob, Next
    PROVE  OneOpenScheduledJob'
<1> SUFFICES ASSUME NEW i \in JobIds, NEW j \in JobIds,
                    jobs'[i].status \in OpenStatus, jobs'[j].status \in OpenStatus,
                    jobs'[i].kind = "scheduled", jobs'[j].kind = "scheduled",
                    jobs'[i].chat = jobs'[j].chat, jobs'[i].chat \in Chats, i # j
             PROVE  FALSE
  BY DEF OneOpenScheduledJob, OpenScheduled, IsOpen
<1>1. CASE CreateCronNotificationJobs
  <2>1. jobs'[i] = jobs[i] /\ jobs'[j] = jobs[j]
    BY <1>1, CronRows DEF IInv, OpenScheduled, IsOpen
  <2> QED
    BY <2>1 DEF OneOpenScheduledJob, OpenScheduled, IsOpen
<1>2. CASE ~CreateCronNotificationJobs
  <2>1. Ages(i) /\ Ages(j)
    BY <1>2, StepAges DEF IInv
  <2> QED
    BY <2>1 DEF Ages, OneOpenScheduledJob, OpenScheduled, IsOpen
<1> QED
  BY <1>1, <1>2

\* A chat never has two open scheduled jobs, for any number of overlapping cron runs and any
\* batch (createCronNotificationJobs).
THEOREM OneOpenScheduled == Spec => []OneOpenScheduledJob
<1>1. Init => OneOpenScheduledJob
  BY DEF Init, OneOpenScheduledJob, OpenScheduled, IsOpen, AbsentJob, OpenStatus
<1>2. IInv /\ OneOpenScheduledJob /\ [Next]_vars => OneOpenScheduledJob'
  <2> SUFFICES ASSUME IInv, OneOpenScheduledJob, UNCHANGED vars PROVE OneOpenScheduledJob'
    BY OneOpenScheduledKept
  <2> QED
    BY DEF vars, OneOpenScheduledJob, OpenScheduled, IsOpen
<1> QED
  BY <1>1, <1>2, FencesHold, PTL DEF Spec

-----------------------------------------------------------------------------
(* From the check to the send *)

\* A worker that has found its notification wanted and holds the lock of a chat whose
\* handlers kept theirs.
Guarded(w) ==
    /\ workers[w].pc \in {"enabled", "validated", "sending"}
    /\ HoldsLock(w)
    /\ ChatOf(w) \notin unserialized

\* What such a worker still owns is still wanted, and from its validation on it owns it.
WantedWhileOwned == \A w \in Workers : Guarded(w) /\ Owns(w) => Enabled(workers[w].job)
OwnedOnceValid == \A w \in Workers : Guarded(w) /\ workers[w].pc # "enabled" => Owns(w)

WInv == OneOpenScheduledJob /\ WantedWhileOwned /\ OwnedOnceValid

\* A step that leaves the rows alone keeps this, when whoever is guarded after it has just
\* found its notification wanted or was guarded before.
LEMMA CalmKeeps ==
    ASSUME WInv, UNCHANGED <<jobs, subscribers>>,
           \A w \in Workers : Guarded(w)' =>
               /\ workers'[w].job = workers[w].job /\ workers'[w].attempts = workers[w].attempts
               /\ Guarded(w) \/ Enabled(workers[w].job)
               /\ workers'[w].pc # "enabled" => Owns(w)
    PROVE  WInv'
<1>1. OneOpenScheduledJob'
  BY DEF WInv, OneOpenScheduledJob, OpenScheduled, IsOpen
<1>2. ASSUME NEW w \in Workers, Guarded(w)', Owns(w)' PROVE Enabled(workers[w].job)'
  <2>1. Owns(w)
    BY <1>2 DEF Owns, JobOf
  <2> QED
    BY <1>2, <2>1 DEF WInv, WantedWhileOwned, Enabled
<1>3. ASSUME NEW w \in Workers, Guarded(w)', workers'[w].pc # "enabled" PROVE Owns(w)'
  BY <1>3 DEF Owns, JobOf
<1> QED
  BY <1>1, <1>2, <1>3 DEF WInv, WantedWhileOwned, OwnedOnceValid

\* So does a step that leaves the claims alone, when it takes from no guarded worker what the
\* worker owns and unsettles nothing a guarded worker still owns.
LEMMA RowsKeep ==
    ASSUME WInv, OneOpenScheduledJob',
           \A w \in Workers : Guarded(w)' =>
               /\ Guarded(w)
               /\ workers'[w].pc = workers[w].pc /\ workers'[w].job = workers[w].job
               /\ Owns(w)' => Owns(w)
               /\ Owns(w) /\ workers[w].pc # "enabled" => Owns(w)'
               /\ Owns(w)' /\ Enabled(workers[w].job) => Enabled(workers[w].job)'
    PROVE  WInv'
<1>1. ASSUME NEW w \in Workers, Guarded(w)', Owns(w)' PROVE Enabled(workers[w].job)'
  BY <1>1 DEF WInv, WantedWhileOwned
<1>2. ASSUME NEW w \in Workers, Guarded(w)', workers'[w].pc # "enabled" PROVE Owns(w)'
  BY <1>2 DEF WInv, OwnedOnceValid
<1> QED
  BY <1>1, <1>2 DEF WInv, WantedWhileOwned, OwnedOnceValid

\* What a guarded worker sees when neither its claim nor its row nor its chat's row changes.
LEMMA SameView ==
    ASSUME NEW w \in Workers, workers'[w] = workers[w],
           \/ jobs'[workers[w].job] = jobs[workers[w].job]
           \/ /\ jobs'[workers[w].job].status = jobs[workers[w].job].status
              /\ jobs'[workers[w].job].claim_token = jobs[workers[w].job].claim_token
              /\ jobs'[workers[w].job].attempts = jobs[workers[w].job].attempts
              /\ jobs'[workers[w].job].kind = jobs[workers[w].job].kind
              /\ jobs'[workers[w].job].alert = jobs[workers[w].job].alert
              /\ jobs'[workers[w].job].chat = jobs[workers[w].job].chat,
           JobOf(w).kind = "price_alert"
             \/ subscribers'[ChatOf(w)].is_subscribed = subscribers[ChatOf(w)].is_subscribed
    PROVE  /\ Owns(w)' <=> Owns(w)
           /\ Enabled(workers[w].job) => Enabled(workers[w].job)'
  BY DEF Owns, JobOf, ChatOf, Enabled

\* A step of a worker that leaves the rows alone, and leaves or keeps its guard.
LEMMA QuietKeeps ==
    ASSUME TypeOK, ClaimsExist, WInv, NEW w \in Workers, NEW pc, Moves(w, pc), UNCHANGED <<jobs, subscribers, unserialized>>,
           \A c \in Chats, v \in Workers : chatLock'[c] = v /\ Guarded(v)' => chatLock[c] = v,
           Guarded(w)' => /\ Guarded(w) \/ Enabled(workers[w].job)
                          /\ pc # "enabled" => Owns(w)
    PROVE  WInv'
<1>1. ASSUME NEW v \in Workers \ {w}, Guarded(v)'
      PROVE  /\ workers'[v] = workers[v] /\ Guarded(v)
             /\ workers'[v].pc # "enabled" => Owns(v)
  <2>1. workers'[v] = workers[v]
    BY DEF Moves
  <2>2. ChatOf(v)' = ChatOf(v) /\ chatLock'[ChatOf(v)] = v /\ ChatOf(v) \notin unserialized
    BY <1>1, <2>1 DEF Guarded, HoldsLock, ChatOf, JobOf
  <2>3. chatLock[ChatOf(v)] = v
    <3>1. workers[v].pc # "idle"
      BY <1>1, <2>1 DEF Guarded
    <3>2. ChatOf(v) \in Chats
      BY <3>1 DEF ClaimsExist, Busy, TypeOK, JobType, ChatOf, JobOf
    <3> QED
      BY <1>1, <2>2, <3>2
  <2>4. Guarded(v)
    BY <1>1, <2>1, <2>2, <2>3 DEF Guarded, HoldsLock
  <2> QED
    BY <2>1, <2>4 DEF WInv, OwnedOnceValid
<1> QED
  BY <1>1, CalmKeeps DEF Moves

\* The call or the answer a worker's step ends leaves its guard, keeps it, or takes it with
\* the check that has just succeeded.
LEMMA WorkerQuietWanted ==
    ASSUME TypeOK, ClaimsExist, WInv, NEW w \in Workers,
           \/ ProcessCanceled(w) \/ AcquireTelegramChatLock(w) \/ DeferNotificationJob(w)
           \/ CheckNotificationEnabled(w) \/ EnsureNotificationJobClaimCurrent(w) \/ BeginSend(w)
           \/ SendAccepted(w) \/ SendRejected(w) \/ \E reached \in BOOLEAN : SendFailed(w, reached)
    PROVE  WInv'
<1>1. CASE ProcessCanceled(w)
  BY <1>1, DecideMoves, QuietKeeps DEF ProcessCanceled, ghosts, Guarded, Moves
<1>2. CASE AcquireTelegramChatLock(w)
  <2>1. Moves(w, "locked")
    BY <1>2, GotoMoves DEF AcquireTelegramChatLock
  <2>2. \A c \in Chats, v \in Workers : chatLock'[c] = v /\ Guarded(v)' => chatLock[c] = v
    BY <1>2, <2>1 DEF AcquireTelegramChatLock, TypeOK, Guarded, Moves
  <2>3. ~Guarded(w)'
    BY <2>1 DEF Guarded, Moves
  <2> QED
    BY <1>2, <2>1, <2>2, <2>3, QuietKeeps DEF AcquireTelegramChatLock, ghosts
<1>3. CASE DeferNotificationJob(w)
  <2>1. Moves(w, "marking")
    BY <1>3, DecideMoves DEF DeferNotificationJob
  <2>2. ~Guarded(w)'
    BY <2>1 DEF Guarded, Moves
  <2> QED
    BY <1>3, <2>1, <2>2, QuietKeeps DEF DeferNotificationJob, ghosts
<1>4. CASE CheckNotificationEnabled(w)
  <2>1. CASE Enabled(workers[w].job)
    <3>1. Moves(w, "enabled")
      BY <1>4, <2>1, GotoMoves DEF CheckNotificationEnabled
    <3> QED
      BY <1>4, <2>1, <3>1, QuietKeeps DEF CheckNotificationEnabled, ghosts
  <2>2. CASE ~Enabled(workers[w].job)
    <3>1. Moves(w, "marking")
      BY <1>4, <2>2, DecideMoves DEF CheckNotificationEnabled
    <3>2. ~Guarded(w)'
      BY <3>1 DEF Guarded, Moves
    <3> QED
      BY <1>4, <3>1, <3>2, QuietKeeps DEF CheckNotificationEnabled, ghosts
  <2> QED
    BY <2>1, <2>2
<1>5. CASE EnsureNotificationJobClaimCurrent(w)
  <2>1. CASE ClaimCurrent(w)
    <3>1. Moves(w, "validated")
      BY <1>5, <2>1 DEF EnsureNotificationJobClaimCurrent, Moves, TypeOK, WorkerType
    <3>2. Owns(w)
      BY <2>1 DEF ClaimCurrent
    <3>3. Guarded(w)' => Guarded(w)
      BY <1>5, <3>1 DEF EnsureNotificationJobClaimCurrent, ghosts, Guarded, Moves, HoldsLock, ChatOf, JobOf
    <3> QED
      BY <1>5, <3>1, <3>2, <3>3, QuietKeeps DEF EnsureNotificationJobClaimCurrent, ghosts
  <2>2. CASE ~ClaimCurrent(w)
    <3>1. Moves(w, "releasing")
      BY <1>5, <2>2, GotoMoves DEF EnsureNotificationJobClaimCurrent
    <3>2. ~Guarded(w)'
      BY <3>1 DEF Guarded, Moves
    <3> QED
      BY <1>5, <3>1, <3>2, QuietKeeps DEF EnsureNotificationJobClaimCurrent, ghosts
  <2> QED
    BY <2>1, <2>2
<1>6. CASE BeginSend(w)
  <2>1. Moves(w, "sending")
    BY <1>6, GotoMoves DEF BeginSend
  <2>2. Guarded(w)' => Guarded(w)
    BY <1>6, <2>1 DEF BeginSend, ghosts, Guarded, Moves, HoldsLock, ChatOf, JobOf
  <2>3. Guarded(w) => Owns(w)
    BY <1>6 DEF BeginSend, WInv, OwnedOnceValid
  <2> QED
    BY <1>6, <2>1, <2>2, <2>3, QuietKeeps DEF BeginSend, ghosts
<1>7. CASE SendAccepted(w) \/ SendRejected(w) \/ \E reached \in BOOLEAN : SendFailed(w, reached)
  <2>1. /\ Moves(w, "finalizing") \/ Moves(w, "marking")
        /\ UNCHANGED <<jobs, subscribers, unserialized, chatLock>>
    BY <1>7, GotoMoves, DecideMoves DEF SendAccepted, SendRejected, SendFailed, ghosts
  <2>2. ~Guarded(w)'
    BY <2>1 DEF Guarded, Moves
  <2> QED
    BY <2>1, <2>2, QuietKeeps
<1> QED
  BY <1>1, <1>2, <1>3, <1>4, <1>5, <1>6, <1>7

\* A fault of a worker ends its guard or leaves it as it is.
LEMMA WorkerFaultWanted ==
    ASSUME TypeOK, ClaimsExist, WInv, NEW w \in Workers, WorkerFault(w)
    PROVE  WInv'
<1>1. CASE MarkError(w) \/ FinalizeGiveUp(w)
  <2>1. Moves(w, "releasing") /\ UNCHANGED <<jobs, subscribers, unserialized, chatLock>>
    BY <1>1, GotoMoves DEF MarkError, FinalizeGiveUp, ghosts
  <2>2. ~Guarded(w)'
    BY <2>1 DEF Guarded, Moves
  <2> QED
    BY <2>1, <2>2, QuietKeeps
<1>2. CASE LoseLockSession(w) \/ Stall(w) \/ CancelContext(w)
  <2>1. Moves(w, workers[w].pc) /\ UNCHANGED <<jobs, subscribers, unserialized>>
    BY <1>2 DEF LoseLockSession, Stall, CancelContext, ghosts, Moves, TypeOK, WorkerType
  <2>2. \A c \in Chats, v \in Workers : chatLock'[c] = v => chatLock[c] = v
    BY <1>2, WorkersAssumption DEF LoseLockSession, Stall, CancelContext, TypeOK
  <2>3. Guarded(w)' => Guarded(w)
    <3>1. workers[w].pc # "idle" => ChatOf(w) \in Chats
      BY DEF ClaimsExist, Busy, TypeOK, JobType, ChatOf, JobOf
    <3> QED
      BY <2>1, <2>2, <3>1 DEF Guarded, Moves, HoldsLock, ChatOf, JobOf
  <2>4. Guarded(w) /\ workers[w].pc # "enabled" => Owns(w)
    BY DEF WInv, OwnedOnceValid
  <2> QED
    BY <2>1, <2>2, <2>3, <2>4, QuietKeeps
<1>3. ASSUME NEW reached \in BOOLEAN, Crash(w, reached) PROVE WInv'
  <2>1. /\ workers'[w].pc = "idle" /\ \A v \in Workers \ {w} : workers'[v] = workers[v]
        /\ UNCHANGED <<jobs, subscribers, unserialized>>
    BY <1>3 DEF Crash, TypeOK, IdleWorker
  <2>2. ASSUME NEW v \in Workers, Guarded(v)'
        PROVE  workers'[v] = workers[v] /\ Guarded(v)
    <3>1. workers'[v] = workers[v] /\ workers[v].pc # "idle"
      BY <2>1, <2>2 DEF Guarded
    <3>2. ChatOf(v) \in Chats
      BY <3>1 DEF ClaimsExist, Busy, TypeOK, JobType, ChatOf, JobOf
    <3>3. \A c \in Chats : chatLock'[c] = v => chatLock[c] = v
      BY <1>3, WorkersAssumption DEF Crash, TypeOK
    <3> QED
      BY <2>1, <2>2, <3>1, <3>2, <3>3 DEF Guarded, HoldsLock, ChatOf, JobOf
  <2>3. \A v \in Workers : Guarded(v) /\ workers[v].pc # "enabled" => Owns(v)
    BY DEF WInv, OwnedOnceValid
  <2> QED
    BY <2>1, <2>2, <2>3, CalmKeeps
<1> QED
  BY <1>1, <1>2, <1>3 DEF WorkerFault

\* A guarded worker's guard, claim and rows outlast a mark's transaction of another worker:
\* it closes at most a job of its own, and the subscriber's row only with a scheduled job.
LEMMA WriteOutcomeWanted ==
    ASSUME TypeOK, ClaimsExist, ClaimsDistinct, WInv, OneOpenScheduledJob',
           NEW w \in Workers, workers[w].pc # "idle",
           NEW outcome \in {"sent", "retry", "failed", "permanent", "canceled"},
           WriteOutcome(w, outcome), UNCHANGED <<chatLock, unserialized>>,
           \A v \in Workers \ {w} : workers'[v] = workers[v], ~Guarded(w)'
    PROVE  WInv'
<1> SUFFICES ASSUME NEW v \in Workers, Guarded(v)'
             PROVE  /\ Guarded(v) /\ workers'[v] = workers[v]
                    /\ Owns(v)' => Owns(v)
                    /\ Owns(v) /\ workers[v].pc # "enabled" => Owns(v)'
                    /\ Owns(v)' /\ Enabled(workers[v].job) => Enabled(workers[v].job)'
  BY RowsKeep
<1>1. v # w /\ workers'[v] = workers[v] /\ workers[v].job \in JobIds /\ workers[w].job \in JobIds
  <2>1. v # w
    OBVIOUS
  <2>2. workers[v].pc # "idle"
    BY <2>1 DEF Guarded
  <2> QED
    BY <2>1, <2>2 DEF ClaimsExist, Busy
<1>2. jobs[workers[v].job] \in JobType /\ jobs[workers[w].job] \in JobType
  BY <1>1 DEF TypeOK
<1>3. CASE ~Owns(w)
  <2>1. UNCHANGED <<jobs, subscribers>>
    BY <1>3 DEF WriteOutcome
  <2> QED
    BY <1>1, <2>1, SameView DEF Guarded, HoldsLock, ChatOf, JobOf
<1>4. CASE Owns(w) /\ workers[v].job = workers[w].job
  <2>1. jobs'[workers[w].job].chat = jobs[workers[w].job].chat
    BY <1>1, <1>4, WriteOutcomeEffect
  <2>2. Guarded(v)
    BY <1>1, <1>4, <2>1 DEF Guarded, HoldsLock, ChatOf, JobOf
  <2>3. jobs'[workers[v].job].status # "sending"
    BY <1>1, <1>4, WriteOutcomeEffect DEF StatusAfter
  <2>4. ~Owns(v)'
    BY <1>1, <2>3 DEF Owns, JobOf
  <2>5. ~Owns(v)
    BY <1>1, <1>4, <2>2 DEF Owns, JobOf, ClaimsDistinct, Busy, Guarded
  <2> QED
    BY <1>1, <2>2, <2>4, <2>5
<1>5. CASE Owns(w) /\ workers[v].job # workers[w].job
  <2>1. jobs'[workers[v].job] = jobs[workers[v].job]
    BY <1>1, <1>5, WriteOutcomeEffect
  <2>2. Guarded(v)
    BY <1>1, <2>1 DEF Guarded, HoldsLock, ChatOf, JobOf
  <2>3. Owns(v)' <=> Owns(v)
    BY <1>1, <2>1 DEF Owns, JobOf
  <2>4. ASSUME Owns(v), Enabled(workers[v].job) PROVE Enabled(workers[v].job)'
    <3>1. CASE JobOf(v).kind = "price_alert"
      BY <2>1, <2>4, <3>1 DEF Enabled, JobOf
    <3>2. CASE JobOf(v).kind = "scheduled"
      <4>1. JobOf(w).kind = "price_alert" \/ ChatOf(w) # ChatOf(v)
        <5> SUFFICES ASSUME JobOf(w).kind = "scheduled", ChatOf(w) = ChatOf(v) PROVE FALSE
          BY <1>2 DEF JobType, JobOf
        <5>1. {workers[v].job, workers[w].job} \subseteq OpenScheduled(ChatOf(v))
          BY <1>1, <1>5, <2>4, <3>2 DEF OpenScheduled, IsOpen, Owns, OpenStatus, ChatOf, JobOf
        <5> QED
          BY <1>2, <1>5, <5>1 DEF WInv, OneOpenScheduledJob, JobType, ChatOf, JobOf
      <4>2. subscribers' = [subscribers EXCEPT ![ChatOf(w)] = SubscriberAfter(workers[w].job, outcome)]
        BY <1>5 DEF WriteOutcome, ChatOf, JobOf
      <4>3. JobOf(w).kind = "price_alert" => SubscriberAfter(workers[w].job, outcome) = subscribers[ChatOf(w)]
        BY DEF SubscriberAfter, ChatOf, JobOf
      <4>4. subscribers'[ChatOf(v)] = subscribers[ChatOf(v)]
        BY <1>2, <4>1, <4>2, <4>3 DEF TypeOK, JobType, ChatOf, JobOf
      <4> QED
        BY <2>1, <2>4, <4>4 DEF Enabled, ChatOf, JobOf
    <3> QED
      BY <1>2, <3>1, <3>2 DEF JobType, JobOf
  <2> QED
    BY <1>1, <2>2, <2>3, <2>4
<1> QED
  BY <1>3, <1>4, <1>5

\* The commit of a handled update reaches a guarded worker's chat only if the handler has
\* lost its lock, and then the chat counts as unserialized.
LEMMA HandlerCommitWanted ==
    ASSUME TypeOK, ClaimsExist, WInv, OneOpenScheduledJob', NEW c \in Chats, HandlerCommit(c)
    PROVE  WInv'
<1>0. HandlerEnd(c)
  BY DEF HandlerCommit, Subscribe, Unsubscribe, SetLanguage, HandleOther, SetInterval, CancelPriceAlert
<1>1. /\ workers' = workers
      /\ \A d \in Chats, w \in Workers : chatLock'[d] = w => chatLock[d] = w
      /\ \A w \in Workers : chatLock[c] = w => c \in unserialized'
      /\ unserialized \subseteq unserialized'
  BY <1>0, HandlerEndLocks, WorkersAssumption DEF HandlerEnd
<1>2. \A j \in JobIds : jobs'[j].chat = jobs[j].chat /\ (jobs[j].chat # c => jobs'[j] = jobs[j])
  <2>1. CASE Unsubscribe(c)
    BY <2>1, ClosedRow DEF Unsubscribe, OpenScheduled
  <2>2. ASSUME NEW i \in JobIds, CancelPriceAlert(c, i)
        PROVE  \A j \in JobIds : jobs'[j].chat = jobs[j].chat /\ (jobs[j].chat # c => jobs'[j] = jobs[j])
    <3>1. jobs[i] \in JobType
      BY DEF TypeOK
    <3>2. [Closed(i, "canceled") EXCEPT !.alert = "canceled"].chat = jobs[i].chat
      BY <3>1 DEF Closed, JobType
    <3> QED
      BY <2>2, <3>2 DEF CancelPriceAlert, TypeOK
  <2> QED
    BY <2>1, <2>2 DEF HandlerCommit, Subscribe, SetLanguage, HandleOther, SetInterval
<1>3. \A d \in Chats \ {c} : subscribers'[d] = subscribers[d]
  BY DEF TypeOK, HandlerCommit, Subscribe, Unsubscribe, SetLanguage, HandleOther, SetInterval,
         CancelPriceAlert
<1>4. ASSUME NEW w \in Workers, Guarded(w)'
      PROVE  /\ Guarded(w)
             /\ jobs'[workers[w].job] = jobs[workers[w].job]
             /\ subscribers'[ChatOf(w)] = subscribers[ChatOf(w)]
  <2>1. workers[w].job \in JobIds
    BY <1>1, <1>4 DEF ClaimsExist, Busy, Guarded
  <2>2. ChatOf(w) \in Chats
    BY <2>1 DEF TypeOK, JobType, ChatOf, JobOf
  <2>3. chatLock'[ChatOf(w)] = w /\ ChatOf(w) \notin unserialized'
    BY <1>1, <1>2, <1>4, <2>1 DEF Guarded, HoldsLock, ChatOf, JobOf
  <2>4. chatLock[ChatOf(w)] = w /\ ChatOf(w) # c /\ ChatOf(w) \notin unserialized
    BY <1>1, <2>2, <2>3
  <2> QED
    BY <1>1, <1>2, <1>3, <1>4, <2>1, <2>2, <2>4 DEF Guarded, HoldsLock, ChatOf, JobOf
<1>5. ASSUME NEW w \in Workers, Guarded(w)'
      PROVE  /\ Owns(w)' <=> Owns(w)
             /\ Enabled(workers[w].job) => Enabled(workers[w].job)'
  BY <1>1, <1>4, <1>5 DEF Owns, Enabled, ChatOf, JobOf
<1> QED
  BY <1>1, <1>4, <1>5, RowsKeep

\* A claim takes a job whose chat nobody locks.
LEMMA ClaimWanted ==
    ASSUME TypeOK, ClaimsExist, WInv, OneOpenScheduledJob',
           NEW w \in Workers, NEW j \in JobIds, ClaimPendingNotificationJob(w, j)
    PROVE  WInv'
<1>1. /\ \A v \in Workers \ {w} : workers'[v] = workers[v]
      /\ workers'[w].pc = "claimed"
      /\ \A i \in JobIds \ {j} : jobs'[i] = jobs[i]
      /\ chatLock[jobs[j].chat] = "free"
      /\ UNCHANGED <<subscribers, chatLock, unserialized>>
  BY DEF ClaimPendingNotificationJob, TypeOK, ghosts, IdleWorker
<1>2. jobs'[j].chat = jobs[j].chat
  <2>1. jobs[j] \in JobType
    BY DEF TypeOK
  <2> QED
    BY <2>1 DEF ClaimPendingNotificationJob, TypeOK, Claimed, JobType
<1>3. ASSUME NEW v \in Workers, Guarded(v)'
      PROVE  /\ workers'[v] = workers[v] /\ Guarded(v)
             /\ jobs'[workers[v].job] = jobs[workers[v].job]
  <2>1. workers'[v] = workers[v] /\ workers[v].job \in JobIds
    BY <1>1, <1>3 DEF Guarded, ClaimsExist, Busy
  <2>2. workers[v].job # j
    BY <1>1, <1>2, <1>3, <2>1, WorkersAssumption DEF Guarded, HoldsLock, ChatOf, JobOf
  <2> QED
    BY <1>1, <1>3, <2>1, <2>2 DEF Guarded, HoldsLock, ChatOf, JobOf
<1>4. ASSUME NEW v \in Workers, Guarded(v)'
      PROVE  /\ Owns(v)' <=> Owns(v)
             /\ Enabled(workers[v].job) => Enabled(workers[v].job)'
  BY <1>1, <1>3, <1>4 DEF Owns, Enabled, JobOf
<1> QED
  BY <1>3, <1>4, RowsKeep

\* Producers and retention touch no row a worker refers to.
LEMMA OtherRowsWanted ==
    ASSUME TypeOK, ClaimsExist, WInv, OneOpenScheduledJob',
           UNCHANGED <<workers, chatLock, unserialized>>,
           \A w \in Workers : workers[w].pc # "idle" => jobs'[workers[w].job] = jobs[workers[w].job],
           \A c \in Chats : subscribers'[c].is_subscribed = subscribers[c].is_subscribed
    PROVE  WInv'
<1>1. ASSUME NEW w \in Workers, Guarded(w)'
      PROVE  /\ Guarded(w)
             /\ jobs'[workers[w].job] = jobs[workers[w].job]
             /\ subscribers'[ChatOf(w)].is_subscribed = subscribers[ChatOf(w)].is_subscribed
  <2>1. workers[w].pc # "idle"
    BY <1>1 DEF Guarded
  <2>2. ChatOf(w) \in Chats
    BY <2>1 DEF ClaimsExist, Busy, TypeOK, JobType, ChatOf, JobOf
  <2> QED
    BY <1>1, <2>1, <2>2 DEF Guarded, HoldsLock, ChatOf, JobOf
<1>2. ASSUME NEW w \in Workers, Guarded(w)'
      PROVE  /\ Owns(w)' <=> Owns(w)
             /\ Enabled(workers[w].job) => Enabled(workers[w].job)'
  BY <1>1, <1>2 DEF Owns, Enabled, ChatOf, JobOf
<1> QED
  BY <1>1, <1>2, RowsKeep

\* A tick changes no column this is about.
LEMMA TickWanted ==
    ASSUME TypeOK, ClaimsExist, WInv, OneOpenScheduledJob', Tick
    PROVE  WInv'
<1>1. \A w \in Workers : /\ workers'[w].pc = workers[w].pc /\ workers'[w].job = workers[w].job
                         /\ workers'[w].attempts = workers[w].attempts
  BY DEF Tick, TypeOK, WorkerType
<1>2. ASSUME NEW j \in JobIds
      PROVE  /\ jobs'[j].status = jobs[j].status /\ jobs'[j].claim_token = jobs[j].claim_token
             /\ jobs'[j].attempts = jobs[j].attempts /\ jobs'[j].kind = jobs[j].kind
             /\ jobs'[j].alert = jobs[j].alert /\ jobs'[j].chat = jobs[j].chat
  <2>1. jobs[j] \in JobType
    BY DEF TypeOK
  <2> QED
    BY <2>1 DEF Tick, JobType
<1>3. \A c \in Chats : subscribers'[c].is_subscribed = subscribers[c].is_subscribed
  <2> SUFFICES ASSUME NEW c \in Chats PROVE subscribers'[c].is_subscribed = subscribers[c].is_subscribed
    OBVIOUS
  <2>1. subscribers[c] \in SubscriberType
    BY DEF TypeOK
  <2> QED
    BY <2>1 DEF Tick, SubscriberType
<1>4. UNCHANGED <<chatLock, unserialized>>
  BY DEF Tick, ghosts
<1>5. ASSUME NEW w \in Workers, Guarded(w)'
      PROVE  /\ Guarded(w)
             /\ Owns(w)' <=> Owns(w)
             /\ Enabled(workers[w].job) => Enabled(workers[w].job)'
  <2>1. workers[w].job \in JobIds
    BY <1>1, <1>5 DEF Guarded, ClaimsExist, Busy
  <2>2. jobs[workers[w].job].chat \in Chats
    BY <2>1 DEF TypeOK, JobType
  <2>3. Guarded(w)
    BY <1>1, <1>2, <1>4, <1>5, <2>1 DEF Guarded, HoldsLock, ChatOf, JobOf
  <2>4. Owns(w)' <=> Owns(w)
    BY <1>1, <1>2, <2>1 DEF Owns, JobOf
  <2>5. Enabled(workers[w].job) => Enabled(workers[w].job)'
    BY <1>1, <1>2, <1>3, <2>1, <2>2 DEF Enabled
  <2> QED
    BY <2>3, <2>4, <2>5
<1> QED
  BY <1>1, <1>5, RowsKeep

\* Every step keeps this.
LEMMA WantedStep ==
    ASSUME IInv, WInv, Next
    PROVE  WInv'
<1>0. /\ TypeOK /\ ClaimsExist /\ ClaimsDistinct /\ OneOpenScheduledJob'
      /\ \A w \in Workers : workers[w].pc # "idle"
             => workers[w].job \in JobIds /\ JobOf(w).status # "absent"
  BY OneOpenScheduledKept DEF IInv, WInv, ClaimsExist, Busy
<1>1. CASE CreateCronNotificationJobs
  <2>0. PICK rows \in SUBSET {j \in JobIds : jobs[j].status = "absent"} :
             \E chat \in [rows -> {c \in Chats : Due(c)}] : CronBatch(rows, chat)
    BY <1>1, CronBatchTaken
  <2>1. PICK chat \in [rows -> {c \in Chats : Due(c)}] : CronBatch(rows, chat)
    BY <2>0
  <2>2. \A j \in JobIds \ rows : jobs'[j] = jobs[j]
    BY <2>1 DEF CronBatch
  <2>3. \A w \in Workers : workers[w].pc # "idle" => jobs'[workers[w].job] = jobs[workers[w].job]
    BY <1>0, <2>2 DEF JobOf
  <2>4. \A c \in Chats : subscribers'[c].is_subscribed = subscribers[c].is_subscribed
    <3> SUFFICES ASSUME NEW c \in Chats PROVE subscribers'[c].is_subscribed = subscribers[c].is_subscribed
      OBVIOUS
    <3>1. subscribers[c] \in SubscriberType
      BY <1>0 DEF TypeOK
    <3> QED
      BY <2>1, <3>1 DEF CronBatch, SubscriberType
  <2>5. UNCHANGED <<workers, chatLock, unserialized>>
    BY <2>1 DEF CronBatch, ghosts
  <2> QED
    BY <1>0, <2>3, <2>4, <2>5, OtherRowsWanted
<1>2. ASSUME NEW j \in JobIds, CleanupNotificationJobHistory(j) PROVE WInv'
  <2>1. /\ \A i \in JobIds \ {j} : jobs'[i] = jobs[i]
        /\ \A w \in Workers : workers[w].job # j
        /\ UNCHANGED <<workers, chatLock, unserialized, subscribers>>
    BY <1>0, <1>2 DEF CleanupNotificationJobHistory, TypeOK
  <2> QED
    BY <1>0, <2>1, OtherRowsWanted
<1>3. ASSUME NEW j \in JobIds, NEW c \in Chats, TriggerPriceAlert(j, c) PROVE WInv'
  <2>1. /\ \A i \in JobIds \ {j} : jobs'[i] = jobs[i]
        /\ jobs[j].status = "absent"
        /\ UNCHANGED <<workers, chatLock, unserialized, subscribers>>
    BY <1>0, <1>3 DEF TriggerPriceAlert, TypeOK, ghosts
  <2>2. \A w \in Workers : workers[w].pc # "idle" => jobs'[workers[w].job] = jobs[workers[w].job]
    BY <1>0, <2>1 DEF JobOf
  <2> QED
    BY <1>0, <2>1, <2>2, OtherRowsWanted
<1>4. ASSUME NEW w \in Workers, NEW j \in JobIds, ClaimPendingNotificationJob(w, j) PROVE WInv'
  BY <1>0, <1>4, ClaimWanted
<1>5. ASSUME NEW w \in Workers, WorkerStep(w) PROVE WInv'
  <2>1. CASE MarkNotificationJob(w)
    <3>1. Moves(w, "releasing")
      BY <1>0, <2>1, GotoMoves DEF MarkNotificationJob
    <3>2. ~Guarded(w)' /\ \A v \in Workers \ {w} : workers'[v] = workers[v]
      BY <3>1 DEF Guarded, Moves
    <3>3. workers[w].pc # "idle" /\ workers[w].outcome \in {"sent", "retry", "failed", "permanent", "canceled"}
      BY <1>0, <2>1 DEF MarkNotificationJob, IInv, ClaimsExist, Busy, TypeOK, WorkerType
    <3> QED
      BY <1>0, <2>1, <3>2, <3>3, WriteOutcomeWanted DEF MarkNotificationJob, ghosts
  <2>2. CASE FinalizeSent(w)
    <3>1. Moves(w, "releasing")
      BY <1>0, <2>2, GotoMoves DEF FinalizeSent
    <3>2. ~Guarded(w)' /\ \A v \in Workers \ {w} : workers'[v] = workers[v]
      BY <3>1 DEF Guarded, Moves
    <3> QED
      BY <1>0, <2>2, <3>2, WriteOutcomeWanted DEF FinalizeSent, ghosts
  <2>3. ASSUME NEW committed \in BOOLEAN, FinalizeError(w, committed) PROVE WInv'
    <3>1. Moves(w, "finalizing")
      BY <1>0, <2>3 DEF FinalizeError, Moves, TypeOK, WorkerType
    <3>2. ~Guarded(w)' /\ \A v \in Workers \ {w} : workers'[v] = workers[v]
      BY <3>1 DEF Guarded, Moves
    <3>3. CASE committed
      BY <1>0, <2>3, <3>2, <3>3, WriteOutcomeWanted DEF FinalizeError, ghosts
    <3>4. CASE ~committed
      BY <1>0, <2>3, <3>1, <3>2, <3>4, QuietKeeps DEF FinalizeError, ghosts
    <3> QED
      BY <3>3, <3>4
  <2>4. CASE ReleaseTelegramChatLock(w)
    <3>1. /\ workers'[w].pc = "idle" /\ \A v \in Workers \ {w} : workers'[v] = workers[v]
          /\ UNCHANGED <<jobs, subscribers, unserialized>>
          /\ \A c \in Chats, v \in Workers : chatLock'[c] = v => chatLock[c] = v
      BY <1>0, <2>4, WorkersAssumption DEF ReleaseTelegramChatLock, TypeOK, IdleWorker, ghosts
    <3>2. ASSUME NEW v \in Workers, Guarded(v)'
          PROVE  workers'[v] = workers[v] /\ Guarded(v)
      <4>1. workers'[v] = workers[v] /\ workers[v].pc # "idle"
        BY <3>1, <3>2 DEF Guarded
      <4>2. ChatOf(v) \in Chats
        BY <1>0, <4>1 DEF TypeOK, JobType, ChatOf, JobOf
      <4> QED
        BY <3>1, <3>2, <4>1, <4>2 DEF Guarded, HoldsLock, ChatOf, JobOf
    <3>3. \A v \in Workers : Guarded(v) /\ workers[v].pc # "enabled" => Owns(v)
      BY DEF WInv, OwnedOnceValid
    <3> QED
      BY <3>1, <3>2, <3>3, CalmKeeps
  <2> QED
    BY <1>0, <1>5, <2>1, <2>2, <2>3, <2>4, WorkerQuietWanted DEF WorkerStep
<1>6. ASSUME NEW w \in Workers, WorkerFault(w) PROVE WInv'
  BY <1>0, <1>6, WorkerFaultWanted
<1>7. ASSUME NEW c \in Chats, HandlerBegin(c) \/ LoseHandlerSession(c) \/ ReapSession(c) PROVE WInv'
  <2>1. /\ UNCHANGED <<jobs, subscribers, workers, unserialized>>
        /\ \A d \in Chats, w \in Workers : chatLock'[d] = w => chatLock[d] = w
    BY <1>0, <1>7, WorkersAssumption DEF HandlerBegin, LoseHandlerSession, ReapSession, TypeOK, ghosts
  <2>2. ASSUME NEW w \in Workers, Guarded(w)' PROVE Guarded(w)
    <3>1. ChatOf(w) \in Chats
      BY <1>0, <2>1, <2>2 DEF Guarded, TypeOK, JobType, ChatOf, JobOf
    <3> QED
      BY <2>1, <2>2, <3>1 DEF Guarded, HoldsLock, ChatOf, JobOf
  <2>3. \A w \in Workers : Guarded(w) /\ workers[w].pc # "enabled" => Owns(w)
    BY DEF WInv, OwnedOnceValid
  <2> QED
    BY <2>1, <2>2, <2>3, CalmKeeps
<1>8. ASSUME NEW c \in Chats, HandlerCommit(c) PROVE WInv'
  BY <1>0, <1>8, HandlerCommitWanted
<1>9. CASE Tick
  BY <1>0, <1>9, TickWanted
<1> QED
  BY <1>1, <1>2, <1>3, <1>4, <1>5, <1>6, <1>7, <1>8, <1>9 DEF Next

\* While a worker that holds the chat lock sends, its job is still its own and still wanted,
\* whatever stale workers, takeovers and handlers do meanwhile (notificationEnabled and
\* ensureNotificationJobClaimCurrent under the chat's advisory lock).
THEOREM OnlyWantedIsSent == Spec => []SendsOnlyWanted
<1>1. Init => WInv
  <2>1. Init => \A w \in Workers : workers[w].pc = "idle"
    BY DEF Init, IdleWorker
  <2>2. Init => OneOpenScheduledJob
    BY DEF Init, OneOpenScheduledJob, OpenScheduled, IsOpen, AbsentJob, OpenStatus
  <2> QED
    BY <2>1, <2>2 DEF WInv, WantedWhileOwned, OwnedOnceValid, Guarded
<1>2. IInv /\ WInv /\ [Next]_vars => WInv'
  <2>1. ASSUME WInv, UNCHANGED vars PROVE WInv'
    BY <2>1 DEF vars, WInv, OneOpenScheduledJob, OpenScheduled, IsOpen, WantedWhileOwned,
                OwnedOnceValid, Guarded, Owns, Enabled, HoldsLock, ChatOf, JobOf
  <2> QED
    BY <2>1, WantedStep
<1>3. WInv => SendsOnlyWanted
  BY DEF WInv, WantedWhileOwned, OwnedOnceValid, Guarded, SendsOnlyWanted
<1> QED
  BY <1>1, <1>2, <1>3, FencesHold, PTL DEF Spec

-----------------------------------------------------------------------------
(* The reservation of a chat by cron *)

\* What a step other than cron's does to a reservation: one still set was set before, and the
\* chat's open scheduled jobs stay open.
Backs(c) ==
    subscribers'[c].cron_claimed_until >= 0 =>
        /\ subscribers[c].cron_claimed_until >= 0
        /\ OpenScheduled(c) \subseteq OpenScheduled(c)'

\* A row that stays open, scheduled and its chat's stays among the chat's open scheduled jobs.
LEMMA RowsBack ==
    ASSUME NEW c \in Chats,
           subscribers'[c].cron_claimed_until >= 0 => subscribers[c].cron_claimed_until >= 0,
           subscribers'[c].cron_claimed_until >= 0 =>
               \A j \in JobIds :
                   \/ j \notin OpenScheduled(c)
                   \/ jobs'[j] = jobs[j]
                   \/ /\ jobs'[j].status \in OpenStatus
                      /\ jobs'[j].kind = jobs[j].kind /\ jobs'[j].chat = jobs[j].chat
    PROVE  Backs(c)
  BY DEF Backs, OpenScheduled, IsOpen

\* A mark's transaction that closes or reopens a scheduled job clears the reservation, and one
\* that closes another job leaves it and its job alone.
LEMMA WriteOutcomeBacks ==
    ASSUME TypeOK, NEW w \in Workers, workers[w].job \in JobIds,
           NEW outcome \in {"sent", "retry", "failed", "permanent", "canceled"},
           WriteOutcome(w, outcome), NEW c \in Chats
    PROVE  Backs(c)
<1> DEFINE i == workers[w].job
           d == jobs[i].chat
           after == SubscriberAfter(i, outcome)
<1>1. jobs[i] \in JobType /\ d \in Chats /\ subscribers[d] \in SubscriberType
  BY DEF TypeOK, JobType
<1>2. CASE ~Owns(w)
  <2>1. UNCHANGED <<jobs, subscribers>>
    BY <1>2 DEF WriteOutcome
  <2> QED
    BY <2>1, RowsBack
<1>3. CASE Owns(w)
  <2>1. subscribers' = [subscribers EXCEPT ![d] = after] /\ \A j \in JobIds \ {i} : jobs'[j] = jobs[j]
    BY <1>3, WriteOutcomeEffect DEF WriteOutcome
  <2>2. CASE jobs[i].kind = "price_alert"
    <3>1. subscribers' = subscribers
      BY <1>1, <2>1, <2>2 DEF SubscriberAfter, TypeOK
    <3>2. i \notin OpenScheduled(c)
      BY <2>2 DEF OpenScheduled
    <3> QED
      BY <2>1, <3>1, <3>2, RowsBack
  <2>3. CASE jobs[i].kind = "scheduled"
    <3>1. after.cron_claimed_until = -1
      <4>1. CASE outcome = "sent"
        BY <1>1, <2>3, <4>1 DEF SubscriberAfter, SubscriberType
      <4>2. CASE outcome = "permanent"
        BY <1>1, <2>3, <4>2 DEF SubscriberAfter, SubscriberType
      <4>3. CASE outcome = "failed"
        BY <1>1, <2>3, <4>3 DEF SubscriberAfter, SubscriberType
      <4>4. CASE outcome \in {"retry", "canceled"}
        BY <1>1, <2>3, <4>4 DEF SubscriberAfter, SubscriberType
      <4> QED
        BY <4>1, <4>2, <4>3, <4>4
    <3> HIDE DEF after
    <3>2. CASE c = d
      <4>1. ~(subscribers'[c].cron_claimed_until >= 0)
        BY <1>1, <2>1, <3>1, <3>2 DEF TypeOK
      <4> QED
        BY <4>1 DEF Backs
    <3>3. CASE c # d
      <4>1. subscribers'[c] = subscribers[c]
        BY <1>1, <2>1, <3>3 DEF TypeOK
      <4>2. i \notin OpenScheduled(c)
        BY <3>3 DEF OpenScheduled
      <4> QED
        BY <2>1, <4>1, <4>2, RowsBack
    <3> QED
      BY <3>2, <3>3
  <2> QED
    BY <1>1, <2>2, <2>3 DEF JobType
<1> QED
  BY <1>2, <1>3

\* A handler ends a chat's open scheduled job only together with the reservation.
LEMMA HandlerCommitBacks ==
    ASSUME TypeOK, NEW c \in Chats, HandlerCommit(c), NEW d \in Chats
    PROVE  Backs(d)
<1>0. subscribers[c] \in SubscriberType /\ subscribers[d] \in SubscriberType
  BY DEF TypeOK
<1>1. CASE Unsubscribe(c)
  <2>1. CASE c = d
    <3>1. ~(subscribers'[d].cron_claimed_until >= 0)
      BY <1>0, <1>1, <2>1 DEF Unsubscribe, TypeOK, SubscriberType
    <3> QED
      BY <3>1 DEF Backs
  <2>2. CASE c # d
    <3>1. subscribers'[d] = subscribers[d]
      BY <1>1, <2>2 DEF Unsubscribe, TypeOK
    <3>2. \A j \in JobIds : j \notin OpenScheduled(d) \/ jobs'[j] = jobs[j]
      BY <1>1, <2>2 DEF Unsubscribe, OpenScheduled
    <3> QED
      BY <3>1, <3>2, RowsBack
  <2> QED
    BY <2>1, <2>2
<1>2. ASSUME NEW i \in JobIds, CancelPriceAlert(c, i) PROVE Backs(d)
  <2>1. /\ UNCHANGED subscribers /\ i \notin OpenScheduled(d)
        /\ \A j \in JobIds \ {i} : jobs'[j] = jobs[j]
    BY <1>2 DEF CancelPriceAlert, OpenScheduled, TypeOK
  <2> QED
    BY <2>1, RowsBack
<1>3. CASE Subscribe(c)
  <2>1. UNCHANGED jobs /\ subscribers'[d].cron_claimed_until = subscribers[d].cron_claimed_until
    BY <1>0, <1>3 DEF Subscribe, TypeOK, SubscriberType
  <2> QED
    BY <2>1, RowsBack
<1>4. CASE SetLanguage(c)
  <2>1. UNCHANGED jobs /\ subscribers'[d].cron_claimed_until = subscribers[d].cron_claimed_until
    BY <1>0, <1>4 DEF SetLanguage, TypeOK, SubscriberType
  <2> QED
    BY <2>1, RowsBack
<1>5. ASSUME NEW minutes \in Intervals, SetInterval(c, minutes) PROVE Backs(d)
  <2>1. UNCHANGED jobs /\ subscribers'[d].cron_claimed_until = subscribers[d].cron_claimed_until
    BY <1>0, <1>5 DEF SetInterval, TypeOK, SubscriberType
  <2> QED
    BY <2>1, RowsBack
<1>6. CASE HandleOther(c)
  BY <1>6, RowsBack DEF HandleOther
<1> QED
  BY <1>1, <1>2, <1>3, <1>4, <1>5, <1>6 DEF HandlerCommit

\* Every step but cron's backs the reservations.
LEMMA StepBacks ==
    ASSUME TypeOK, ClaimsExist, Next, ~CreateCronNotificationJobs, NEW c \in Chats
    PROVE  Backs(c)
<1>a. UNCHANGED <<jobs, subscribers>> => Backs(c)
  BY RowsBack
<1>2. ASSUME NEW i \in JobIds, CleanupNotificationJobHistory(i) PROVE Backs(c)
  <2>1. /\ UNCHANGED subscribers /\ i \notin OpenScheduled(c)
        /\ \A j \in JobIds \ {i} : jobs'[j] = jobs[j]
    BY <1>2 DEF CleanupNotificationJobHistory, OpenScheduled, IsOpen, OpenStatus, TerminalStatus, TypeOK
  <2> QED
    BY <2>1, RowsBack
<1>3. ASSUME NEW i \in JobIds, NEW d \in Chats, TriggerPriceAlert(i, d) PROVE Backs(c)
  <2>1. /\ UNCHANGED subscribers /\ i \notin OpenScheduled(c)
        /\ \A j \in JobIds \ {i} : jobs'[j] = jobs[j]
    BY <1>3 DEF TriggerPriceAlert, OpenScheduled, IsOpen, OpenStatus, TypeOK
  <2> QED
    BY <2>1, RowsBack
<1>4. ASSUME NEW w \in Workers, NEW i \in JobIds, ClaimPendingNotificationJob(w, i) PROVE Backs(c)
  <2>1. jobs[i] \in JobType
    BY DEF TypeOK
  <2>2. /\ UNCHANGED subscribers
        /\ \A j \in JobIds \ {i} : jobs'[j] = jobs[j]
        /\ jobs'[i].kind = jobs[i].kind /\ jobs'[i].chat = jobs[i].chat /\ jobs'[i].status \in OpenStatus
    BY <1>4, <2>1 DEF ClaimPendingNotificationJob, TypeOK, JobType, Claimed, OpenStatus
  <2> QED
    BY <2>2, RowsBack
<1>5. ASSUME NEW w \in Workers, WorkerStep(w) PROVE Backs(c)
  <2>1. \/ UNCHANGED <<jobs, subscribers>>
        \/ /\ workers[w].job \in JobIds
           /\ \E outcome \in {"sent", "retry", "failed", "permanent", "canceled"} : WriteOutcome(w, outcome)
    BY <1>5, WorkerWrites
  <2> QED
    BY <2>1, <1>a, WriteOutcomeBacks
<1>6. ASSUME NEW w \in Workers, WorkerFault(w) PROVE Backs(c)
  BY <1>6, <1>a
  DEF WorkerFault, MarkError, FinalizeGiveUp, LoseLockSession, Stall, CancelContext, Crash
<1>7. ASSUME NEW d \in Chats, HandlerBegin(d) \/ LoseHandlerSession(d) \/ ReapSession(d)
      PROVE  Backs(c)
  BY <1>7, <1>a DEF HandlerBegin, LoseHandlerSession, ReapSession
<1>8. ASSUME NEW d \in Chats, HandlerCommit(d) PROVE Backs(c)
  BY <1>8, HandlerCommitBacks
<1>9. CASE Tick
  <2>1. \A j \in JobIds : /\ jobs'[j].status = jobs[j].status /\ jobs'[j].kind = jobs[j].kind
                          /\ jobs'[j].chat = jobs[j].chat
    <3> SUFFICES ASSUME NEW j \in JobIds
                 PROVE  /\ jobs'[j].status = jobs[j].status /\ jobs'[j].kind = jobs[j].kind
                        /\ jobs'[j].chat = jobs[j].chat
      OBVIOUS
    <3>1. jobs[j] \in JobType
      BY DEF TypeOK
    <3> QED
      BY <1>9, <3>1 DEF Tick, JobType
  <2>2. subscribers'[c].cron_claimed_until >= 0 => subscribers[c].cron_claimed_until >= 0
    <3>1. subscribers[c] \in SubscriberType
      BY DEF TypeOK
    <3>2. subscribers'[c].cron_claimed_until = Down(subscribers[c].cron_claimed_until, -1)
      BY <1>9, <3>1 DEF Tick, SubscriberType
    <3>3. subscribers[c].cron_claimed_until \in -1..CronClaimWindow /\ CronClaimWindow \in Nat
      BY <3>1, WindowTypes DEF SubscriberType
    <3> QED
      BY <3>2, <3>3 DEF Down
  <2>3. \A j \in JobIds : j \notin OpenScheduled(c) \/ jobs'[j].status \in OpenStatus
    BY <2>1 DEF OpenScheduled, IsOpen
  <2> QED
    BY <2>1, <2>2, <2>3, RowsBack
<1> QED
  BY <1>2, <1>3, <1>4, <1>5, <1>6, <1>7, <1>8, <1>9 DEF Next

\* No chat is ever left reserved without an open scheduled job, whichever way its job ends:
\* sent, failed, retried, unsubscribed from, or reported by a stale worker.
THEOREM NoReservationIsLost == Spec => []NoOrphanCronClaim
<1>1. Init => NoOrphanCronClaim
  BY DEF Init, NoOrphanCronClaim, NewSubscriber
<1>2. IInv /\ NoOrphanCronClaim /\ [Next]_vars => NoOrphanCronClaim'
  <2> SUFFICES ASSUME IInv, NoOrphanCronClaim, [Next]_vars, NEW c \in Chats,
                      subscribers'[c].cron_claimed_until >= 0
               PROVE  OpenScheduled(c)' # {}
    BY DEF NoOrphanCronClaim
  <2>1. CASE CreateCronNotificationJobs
    <3>0. PICK rows \in SUBSET {j \in JobIds : jobs[j].status = "absent"} :
               \E chat \in [rows -> {d \in Chats : Due(d)}] : CronBatch(rows, chat)
      BY <2>1, CronBatchTaken
    <3>1. PICK chat \in [rows -> {d \in Chats : Due(d)}] : CronBatch(rows, chat)
      BY <3>0
    <3>2. \A j \in JobIds : jobs'[j] = IF j \in rows THEN NewJob("scheduled", chat[j]) ELSE jobs[j]
      BY <3>1 DEF CronBatch
    <3>3. CASE \E j \in rows : chat[j] = c
      <4>1. PICK j \in rows : chat[j] = c
        BY <3>3
      <4>2. jobs'[j] = NewJob("scheduled", c)
        BY <3>2, <4>1
      <4>3. /\ NewJob("scheduled", c).status = "pending" /\ NewJob("scheduled", c).kind = "scheduled"
            /\ NewJob("scheduled", c).chat = c
        BY DEF NewJob, AbsentJob
      <4>4. j \in OpenScheduled(c)'
        BY <4>1, <4>2, <4>3 DEF OpenScheduled, IsOpen, OpenStatus
      <4> QED
        BY <4>4
    <3>4. CASE ~ \E j \in rows : chat[j] = c
      <4>1. subscribers'[c] = subscribers[c]
        BY <3>1, <3>4 DEF CronBatch
      <4>2. PICK j \in JobIds : j \in OpenScheduled(c)
        BY <4>1 DEF NoOrphanCronClaim, OpenScheduled
      <4>3. jobs'[j] = jobs[j]
        BY <3>2, <4>2 DEF OpenScheduled, IsOpen, OpenStatus
      <4>4. j \in OpenScheduled(c)'
        BY <4>2, <4>3 DEF OpenScheduled, IsOpen
      <4> QED
        BY <4>4
    <3> QED
      BY <3>3, <3>4
  <2>2. CASE Next /\ ~CreateCronNotificationJobs
    BY <2>2, StepBacks DEF IInv, Backs, NoOrphanCronClaim
  <2>3. CASE UNCHANGED vars
    BY <2>3 DEF vars, NoOrphanCronClaim, OpenScheduled, IsOpen
  <2> QED
    BY <2>1, <2>2, <2>3
<1> QED
  BY <1>1, <1>2, FencesHold, PTL DEF Spec

-----------------------------------------------------------------------------
(* The schedule *)

\* No delivered scheduled job of a chat is younger than its last_sent or than its open job.
SentIsOldest ==
    \A k \in JobIds : jobs[k].status = "sent" /\ jobs[k].kind = "scheduled" =>
        /\ subscribers[jobs[k].chat].last_sent \in 0..jobs[k].scheduled_at
        /\ \A i \in JobIds : IsOpen(i) /\ jobs[i].kind = "scheduled" /\ jobs[i].chat = jobs[k].chat
               => jobs[i].scheduled_at <= jobs[k].scheduled_at

\* A row with a delivered scheduled job after a step had it before, a row with an open one had
\* it before or has just got it, and the columns compared here stay or start anew.
Settled(j) ==
    /\ jobs'[j].status = "sent" /\ jobs'[j].kind = "scheduled"
       => /\ jobs[j].status = "sent" /\ jobs[j].kind = "scheduled"
          /\ jobs'[j].chat = jobs[j].chat /\ jobs'[j].scheduled_at = jobs[j].scheduled_at
    /\ jobs'[j].status \in OpenStatus /\ jobs'[j].kind = "scheduled"
       => \/ /\ IsOpen(j) /\ jobs[j].kind = "scheduled" /\ jobs'[j].chat = jobs[j].chat
             /\ jobs'[j].scheduled_at = jobs[j].scheduled_at
          \/ jobs'[j].scheduled_at = 0

\* A step that settles every row and makes no chat's last_sent older keeps the order.
LEMMA SettledKeeps ==
    ASSUME TypeOK, SentIsOldest, \A j \in JobIds : Settled(j),
           \A c \in Chats : subscribers[c].last_sent >= 0
               => subscribers'[c].last_sent \in 0..subscribers[c].last_sent
    PROVE  SentIsOldest'
<1> SUFFICES ASSUME NEW k \in JobIds, jobs'[k].status = "sent", jobs'[k].kind = "scheduled"
             PROVE  /\ subscribers'[jobs'[k].chat].last_sent \in 0..jobs'[k].scheduled_at
                    /\ \A i \in JobIds : /\ jobs'[i].status \in OpenStatus /\ jobs'[i].kind = "scheduled"
                                          /\ jobs'[i].chat = jobs'[k].chat
                           => jobs'[i].scheduled_at <= jobs'[k].scheduled_at
  BY DEF SentIsOldest, IsOpen
<1>1. /\ jobs[k].status = "sent" /\ jobs[k].kind = "scheduled"
      /\ jobs'[k].chat = jobs[k].chat /\ jobs'[k].scheduled_at = jobs[k].scheduled_at
  BY DEF Settled
<1>2. jobs[k].chat \in Chats /\ jobs[k].scheduled_at \in 0..MaxInterval /\ MaxInterval \in Nat
  BY WindowTypes DEF TypeOK, JobType
<1>3. subscribers[jobs[k].chat].last_sent \in 0..jobs[k].scheduled_at
  BY <1>1 DEF SentIsOldest
<1>4. subscribers'[jobs[k].chat].last_sent \in 0..subscribers[jobs[k].chat].last_sent
  BY <1>2, <1>3
<1>5. subscribers'[jobs[k].chat].last_sent \in 0..jobs[k].scheduled_at
  BY <1>2, <1>3, <1>4
<1>6. ASSUME NEW i \in JobIds, jobs'[i].status \in OpenStatus, jobs'[i].kind = "scheduled",
             jobs'[i].chat = jobs[k].chat
      PROVE  jobs'[i].scheduled_at <= jobs[k].scheduled_at
  <2>2. CASE jobs'[i].scheduled_at = 0
    BY <1>2, <2>2
  <2>3. CASE jobs'[i].scheduled_at # 0
    <3>1. /\ IsOpen(i) /\ jobs[i].kind = "scheduled" /\ jobs[i].chat = jobs[k].chat
          /\ jobs'[i].scheduled_at = jobs[i].scheduled_at
      BY <1>6, <2>3 DEF Settled
    <3> QED
      BY <1>1, <3>1 DEF SentIsOldest
  <2> QED
    BY <2>2, <2>3
<1> QED
  BY <1>1, <1>5, <1>6

\* A mark's transaction keeps the order: the sent one sets last_sent to the schedule time of a
\* job at least as young as every delivered one.
LEMMA WriteOutcomeSettles ==
    ASSUME TypeOK, OneOpenScheduledJob, SentIsOldest, NEW w \in Workers, workers[w].job \in JobIds,
           NEW outcome \in {"sent", "retry", "failed", "permanent", "canceled"},
           WriteOutcome(w, outcome)
    PROVE  SentIsOldest'
<1> DEFINE i == workers[w].job
           d == jobs[i].chat
           after == SubscriberAfter(i, outcome)
<1>1. jobs[i] \in JobType /\ d \in Chats /\ subscribers[d] \in SubscriberType
  BY DEF TypeOK, JobType
<1>2. CASE ~Owns(w)
  <2>1. UNCHANGED <<jobs, subscribers>>
    BY <1>2 DEF WriteOutcome
  <2> QED
    BY <2>1 DEF SentIsOldest, IsOpen
<1>3. CASE Owns(w)
  <2>1. subscribers' = [subscribers EXCEPT ![d] = after] /\ \A j \in JobIds \ {i} : jobs'[j] = jobs[j]
    BY <1>3, WriteOutcomeEffect DEF WriteOutcome
  <2>2. /\ jobs'[i].status = StatusAfter(outcome) /\ jobs'[i].kind = jobs[i].kind
        /\ jobs'[i].chat = jobs[i].chat
    BY <1>3, WriteOutcomeEffect
  <2>3. jobs'[i].scheduled_at = jobs[i].scheduled_at
    <3>1. PICK delay : jobs' = [jobs EXCEPT ![i] =
                           [Closed(i, StatusAfter(outcome)) EXCEPT !.next_attempt_at = delay]]
      BY <1>3 DEF WriteOutcome
    <3> QED
      BY <1>1, <3>1 DEF TypeOK, Closed, JobType
  <2>4. IsOpen(i)
    BY <1>3 DEF Owns, IsOpen, OpenStatus, JobOf
  <2>5. \A j \in JobIds \ {i} : Settled(j)
    BY <2>1 DEF Settled, IsOpen
  <2>6. CASE outcome # "sent" \/ jobs[i].kind = "price_alert"
    <3>1. Settled(i)
      BY <2>2, <2>3, <2>4, <2>6 DEF Settled, StatusAfter
    <3>2. after.last_sent = subscribers[d].last_sent
      <4>1. CASE jobs[i].kind = "price_alert"
        BY <4>1 DEF SubscriberAfter
      <4>2. CASE outcome = "permanent"
        BY <1>1, <4>2 DEF SubscriberAfter, SubscriberType
      <4>3. CASE outcome = "failed"
        BY <1>1, <4>3 DEF SubscriberAfter, SubscriberType
      <4>4. CASE outcome \in {"retry", "canceled"}
        BY <1>1, <4>4 DEF SubscriberAfter, SubscriberType
      <4> QED
        BY <2>6, <4>1, <4>2, <4>3, <4>4
    <3> HIDE DEF after
    <3>3. \A c \in Chats : subscribers'[c].last_sent = subscribers[c].last_sent
      BY <2>1, <3>2 DEF TypeOK
    <3>4. \A c \in Chats : subscribers[c].last_sent \in -1..MaxInterval
      BY DEF TypeOK, SubscriberType
    <3>5. \A c \in Chats : subscribers[c].last_sent >= 0
               => subscribers'[c].last_sent \in 0..subscribers[c].last_sent
      BY <3>3, <3>4, WindowTypes
    <3> QED
      BY <2>5, <3>1, <3>5, SettledKeeps
  <2>7. CASE outcome = "sent" /\ jobs[i].kind = "scheduled"
    <3>1. after.last_sent = jobs[i].scheduled_at
      BY <1>1, <2>7 DEF SubscriberAfter, SubscriberType
    <3> HIDE DEF after
    <3>2. i \in OpenScheduled(d)
      BY <2>4, <2>7 DEF OpenScheduled
    <3>3. jobs'[i].status = "sent" /\ "sent" \notin OpenStatus
      BY <2>2, <2>7 DEF StatusAfter, OpenStatus
    <3>4. \A j \in OpenScheduled(d) : j = i
      BY <1>1, <3>2 DEF OneOpenScheduledJob
    <3>5. ASSUME NEW j \in JobIds, jobs'[j].status \in OpenStatus
          PROVE  j # i /\ jobs'[j] = jobs[j]
      BY <2>1, <3>3, <3>5
    <3>6. ASSUME NEW k \in JobIds, jobs'[k].status = "sent", jobs'[k].kind = "scheduled"
          PROVE  /\ subscribers'[jobs'[k].chat].last_sent \in 0..jobs'[k].scheduled_at
                 /\ \A j \in JobIds : /\ jobs'[j].status \in OpenStatus /\ jobs'[j].kind = "scheduled"
                                       /\ jobs'[j].chat = jobs'[k].chat
                        => jobs'[j].scheduled_at <= jobs'[k].scheduled_at
      <4>1. jobs[i].scheduled_at \in 0..MaxInterval /\ jobs[k].scheduled_at \in 0..MaxInterval
            /\ MaxInterval \in Nat /\ jobs[k].chat \in Chats
        BY WindowTypes DEF TypeOK, JobType
      <4>2. jobs'[k].chat = jobs[k].chat /\ jobs'[k].scheduled_at = jobs[k].scheduled_at
        BY <2>1, <2>2, <2>3
      <4>3. CASE jobs[k].chat = d
        <5>1. subscribers'[d].last_sent = jobs[i].scheduled_at
          BY <1>1, <2>1, <3>1 DEF TypeOK
        <5>2. \A j \in JobIds : /\ jobs'[j].status \in OpenStatus /\ jobs'[j].kind = "scheduled"
                                 => jobs'[j].chat # d
          BY <3>4, <3>5 DEF OpenScheduled, IsOpen
        <5>3. jobs[i].scheduled_at <= jobs[k].scheduled_at
          <6>1. CASE k = i
            BY <4>1, <6>1
          <6>2. CASE k # i
            <7>1. jobs[k].status = "sent" /\ jobs[k].kind = "scheduled"
              BY <2>1, <3>6, <6>2
            <7> QED
              BY <2>4, <2>7, <4>3, <7>1 DEF SentIsOldest
          <6> QED
            BY <6>1, <6>2
        <5> QED
          BY <4>1, <4>2, <4>3, <5>1, <5>2, <5>3
      <4>4. CASE jobs[k].chat # d
        <5>1. k # i /\ jobs'[k] = jobs[k]
          BY <2>1, <4>4
        <5>2. subscribers'[jobs[k].chat] = subscribers[jobs[k].chat]
          BY <2>1, <4>1, <4>4 DEF TypeOK
        <5> QED
          BY <3>5, <3>6, <5>1, <5>2 DEF SentIsOldest, IsOpen
      <4> QED
        BY <4>3, <4>4
    <3> QED
      BY <3>6 DEF SentIsOldest, IsOpen
  <2> QED
    BY <1>1, <2>6, <2>7 DEF JobType
<1> QED
  BY <1>2, <1>3

\* A handled update settles every row; it sets last_sent to now, or where it was unset.
LEMMA HandlerCommitSettles ==
    ASSUME TypeOK, SentIsOldest, NEW c \in Chats, HandlerCommit(c)
    PROVE  SentIsOldest'
<1>1. ASSUME NEW j \in JobIds PROVE Settled(j)
  <2>a. jobs' = jobs => Settled(j)
    BY DEF Settled, IsOpen
  <2>1. CASE Unsubscribe(c)
    <3>1. jobs'[j] = jobs[j] \/ jobs'[j] = Closed(j, "canceled")
      BY <2>1 DEF Unsubscribe
    <3> QED
      BY <3>1, ClosedRow DEF Settled, IsOpen, OpenStatus
  <2>2. ASSUME NEW i \in JobIds, CancelPriceAlert(c, i) PROVE Settled(j)
    <3> DEFINE row == [Closed(i, "canceled") EXCEPT !.alert = "canceled"]
    <3>1. row.status = "canceled"
      <4>1. jobs[i] \in JobType
        BY DEF TypeOK
      <4> QED
        BY <4>1 DEF Closed, JobType
    <3>2. jobs' = [jobs EXCEPT ![i] = row]
      BY <2>2 DEF CancelPriceAlert
    <3> HIDE DEF row
    <3> QED
      BY <3>1, <3>2 DEF Settled, IsOpen, OpenStatus, TypeOK
  <2> QED
    BY <2>a, <2>1, <2>2 DEF HandlerCommit, Subscribe, SetLanguage, HandleOther, SetInterval
<1>2. ASSUME NEW d \in Chats, subscribers[d].last_sent >= 0
      PROVE  subscribers'[d].last_sent \in 0..subscribers[d].last_sent
  <2>1. /\ subscribers[d] \in SubscriberType /\ subscribers[c] \in SubscriberType
        /\ subscribers[d].last_sent \in 0..MaxInterval /\ MaxInterval \in Nat
    BY <1>2, WindowTypes DEF TypeOK, SubscriberType
  <2>2. subscribers'[d].last_sent \in {0, subscribers[d].last_sent}
    <3>1. ASSUME NEW minutes \in Intervals, SetInterval(c, minutes)
          PROVE  subscribers'[d].last_sent \in {0, subscribers[d].last_sent}
      BY <2>1, <3>1 DEF SetInterval, TypeOK, SubscriberType
    <3>2. CASE Subscribe(c)
      BY <1>2, <2>1, <3>2 DEF Subscribe, TypeOK, SubscriberType
    <3>3. CASE SetLanguage(c)
      BY <1>2, <2>1, <3>3 DEF SetLanguage, TypeOK, SubscriberType
    <3>4. CASE Unsubscribe(c)
      BY <2>1, <3>4 DEF Unsubscribe, TypeOK, SubscriberType
    <3> QED
      BY <3>1, <3>2, <3>3, <3>4 DEF HandlerCommit, HandleOther, CancelPriceAlert
  <2> QED
    BY <2>1, <2>2
<1> QED
  BY <1>1, <1>2, SettledKeeps

\* Minutes age in order.
LEMMA AgesInOrder ==
    \A a, b \in 0..MaxInterval : a <= b => AgeMinutes(a) <= AgeMinutes(b) /\ AgeMinutes(a) >= 0
  BY WindowTypes DEF AgeMinutes

\* A tick ages last_sent and the schedule times alike.
LEMMA TickSettles ==
    ASSUME TypeOK, SentIsOldest, Tick
    PROVE  SentIsOldest'
<1>1. ASSUME NEW j \in JobIds
      PROVE  /\ jobs'[j].status = jobs[j].status /\ jobs'[j].kind = jobs[j].kind
             /\ jobs'[j].chat = jobs[j].chat
             /\ jobs[j].status # "absent" => jobs'[j].scheduled_at = AgeMinutes(jobs[j].scheduled_at)
             /\ jobs[j].scheduled_at \in 0..MaxInterval /\ jobs[j].chat \in Chats
  <2>1. jobs[j] \in JobType
    BY DEF TypeOK
  <2> QED
    BY <2>1 DEF Tick, JobType
<1>2. ASSUME NEW c \in Chats PROVE subscribers'[c].last_sent = AgeMinutes(subscribers[c].last_sent)
  <2>1. subscribers[c] \in SubscriberType
    BY DEF TypeOK
  <2> QED
    BY <2>1 DEF Tick, SubscriberType
<1>3. ASSUME NEW k \in JobIds, jobs'[k].status = "sent", jobs'[k].kind = "scheduled"
      PROVE  /\ subscribers'[jobs'[k].chat].last_sent \in 0..jobs'[k].scheduled_at
             /\ \A i \in JobIds : /\ jobs'[i].status \in OpenStatus /\ jobs'[i].kind = "scheduled"
                                  /\ jobs'[i].chat = jobs'[k].chat
                    => jobs'[i].scheduled_at <= jobs'[k].scheduled_at
  <2>1. /\ jobs[k].status = "sent" /\ jobs[k].kind = "scheduled" /\ jobs'[k].chat = jobs[k].chat
        /\ jobs'[k].scheduled_at = AgeMinutes(jobs[k].scheduled_at)
        /\ jobs'[k].scheduled_at \in 0..MaxInterval
    BY <1>1, <1>3, AgingTypes
  <2>2. subscribers[jobs[k].chat].last_sent \in 0..jobs[k].scheduled_at
    BY <2>1 DEF SentIsOldest
  <2>3. subscribers[jobs[k].chat].last_sent \in 0..MaxInterval
    BY <1>1, <2>2, WindowTypes
  <2>4. AgeMinutes(subscribers[jobs[k].chat].last_sent) \in 0..AgeMinutes(jobs[k].scheduled_at)
    <3>1. subscribers[jobs[k].chat].last_sent <= jobs[k].scheduled_at
      BY <1>1, <2>2, WindowTypes
    <3>2. /\ AgeMinutes(subscribers[jobs[k].chat].last_sent) \in 0..MaxInterval
          /\ AgeMinutes(jobs[k].scheduled_at) \in 0..MaxInterval
      BY <1>1, <2>3, AgingTypes
    <3> QED
      BY <1>1, <2>3, <3>1, <3>2, AgesInOrder, WindowTypes
  <2>5. ASSUME NEW i \in JobIds, jobs'[i].status \in OpenStatus, jobs'[i].kind = "scheduled",
               jobs'[i].chat = jobs'[k].chat
        PROVE  jobs'[i].scheduled_at <= jobs'[k].scheduled_at
    <3>1. IsOpen(i) /\ jobs[i].kind = "scheduled" /\ jobs[i].chat = jobs[k].chat
      BY <1>1, <2>5 DEF IsOpen
    <3>2. jobs[i].scheduled_at <= jobs[k].scheduled_at
      BY <2>1, <3>1 DEF SentIsOldest
    <3>3. jobs'[i].scheduled_at = AgeMinutes(jobs[i].scheduled_at)
      BY <1>1, <3>1 DEF IsOpen, OpenStatus
    <3> QED
      BY <1>1, <2>1, <3>2, <3>3, AgesInOrder
  <2> QED
    BY <1>1, <1>2, <2>1, <2>4, <2>5
<1> QED
  BY <1>3 DEF SentIsOldest, IsOpen

\* Every step keeps the order.
LEMMA ScheduleStep ==
    ASSUME IInv, OneOpenScheduledJob, SentIsOldest, Next
    PROVE  SentIsOldest'
<1>0. TypeOK /\ ClaimsExist
  BY DEF IInv
<1>a. \A j \in JobIds : jobs'[j] = jobs[j] => Settled(j)
  BY DEF Settled, IsOpen
<1>b. (\A c \in Chats : subscribers'[c].last_sent = subscribers[c].last_sent)
      => \A c \in Chats : subscribers[c].last_sent >= 0
             => subscribers'[c].last_sent \in 0..subscribers[c].last_sent
  <2>1. \A c \in Chats : subscribers[c].last_sent \in -1..MaxInterval
    BY <1>0 DEF TypeOK, SubscriberType
  <2> QED
    BY <2>1, WindowTypes
<1>c. UNCHANGED <<jobs, subscribers>> => SentIsOldest'
  BY <1>0, <1>a, <1>b, SettledKeeps
<1>1. CASE CreateCronNotificationJobs
  <2>0. PICK rows \in SUBSET {j \in JobIds : jobs[j].status = "absent"} :
             \E chat \in [rows -> {c \in Chats : Due(c)}] : CronBatch(rows, chat)
    BY <1>1, CronBatchTaken
  <2>1. PICK chat \in [rows -> {c \in Chats : Due(c)}] : CronBatch(rows, chat)
    BY <2>0
  <2>2. \A c : NewJob("scheduled", c).status = "pending" /\ NewJob("scheduled", c).scheduled_at = 0
    BY DEF NewJob, AbsentJob
  <2>3. \A j \in JobIds : jobs'[j] = IF j \in rows THEN NewJob("scheduled", chat[j]) ELSE jobs[j]
    BY <2>1 DEF CronBatch
  <2>4. \A j \in JobIds : Settled(j)
    BY <1>a, <2>2, <2>3 DEF Settled
  <2>5. \A c \in Chats : subscribers'[c].last_sent = subscribers[c].last_sent
    <3> SUFFICES ASSUME NEW c \in Chats PROVE subscribers'[c].last_sent = subscribers[c].last_sent
      OBVIOUS
    <3>1. subscribers[c] \in SubscriberType
      BY <1>0 DEF TypeOK
    <3> QED
      BY <2>1, <3>1 DEF CronBatch, SubscriberType
  <2> QED
    BY <1>0, <1>b, <2>4, <2>5, SettledKeeps
<1>2. ASSUME NEW i \in JobIds, CleanupNotificationJobHistory(i) PROVE SentIsOldest'
  <2>1. AbsentJob.status = "absent" /\ "absent" \notin OpenStatus
    BY DEF AbsentJob, OpenStatus
  <2>2. \A j \in JobIds : Settled(j)
    BY <1>0, <1>2, <1>a, <2>1 DEF CleanupNotificationJobHistory, Settled, TypeOK
  <2> QED
    BY <1>0, <1>2, <1>b, <2>2, SettledKeeps DEF CleanupNotificationJobHistory
<1>3. ASSUME NEW i \in JobIds, NEW c \in Chats, TriggerPriceAlert(i, c) PROVE SentIsOldest'
  <2>1. NewJob("price_alert", c).kind = "price_alert"
    BY DEF NewJob, AbsentJob
  <2>2. \A j \in JobIds : Settled(j)
    BY <1>0, <1>3, <1>a, <2>1 DEF TriggerPriceAlert, Settled, TypeOK
  <2> QED
    BY <1>0, <1>3, <1>b, <2>2, SettledKeeps DEF TriggerPriceAlert
<1>4. ASSUME NEW w \in Workers, NEW i \in JobIds, ClaimPendingNotificationJob(w, i)
      PROVE  SentIsOldest'
  <2>1. jobs[i] \in JobType
    BY <1>0 DEF TypeOK
  <2>2. IsOpen(i) /\ UNCHANGED subscribers
    BY <1>4 DEF ClaimPendingNotificationJob, Claimable
  <2>3. /\ \A j \in JobIds \ {i} : jobs'[j] = jobs[j]
        /\ jobs'[i].kind = jobs[i].kind /\ jobs'[i].chat = jobs[i].chat
        /\ jobs'[i].scheduled_at = jobs[i].scheduled_at /\ jobs'[i].status = "sending"
    BY <1>0, <1>4, <2>1 DEF ClaimPendingNotificationJob, TypeOK, JobType, Claimed
  <2>4. \A j \in JobIds : Settled(j)
    BY <1>a, <2>2, <2>3 DEF Settled
  <2> QED
    BY <1>0, <1>b, <2>2, <2>4, SettledKeeps
<1>5. ASSUME NEW w \in Workers, WorkerStep(w) PROVE SentIsOldest'
  <2>1. \/ UNCHANGED <<jobs, subscribers>>
        \/ /\ workers[w].job \in JobIds
           /\ \E outcome \in {"sent", "retry", "failed", "permanent", "canceled"} : WriteOutcome(w, outcome)
    BY <1>0, <1>5, WorkerWrites
  <2> QED
    BY <1>0, <1>c, <2>1, WriteOutcomeSettles
<1>6. ASSUME NEW w \in Workers, WorkerFault(w) PROVE SentIsOldest'
  BY <1>6, <1>c
  DEF WorkerFault, MarkError, FinalizeGiveUp, LoseLockSession, Stall, CancelContext, Crash
<1>7. ASSUME NEW c \in Chats, HandlerBegin(c) \/ LoseHandlerSession(c) \/ ReapSession(c)
      PROVE  SentIsOldest'
  BY <1>7, <1>c DEF HandlerBegin, LoseHandlerSession, ReapSession
<1>8. ASSUME NEW c \in Chats, HandlerCommit(c) PROVE SentIsOldest'
  BY <1>0, <1>8, HandlerCommitSettles
<1>9. CASE Tick
  BY <1>0, <1>9, TickSettles
<1> QED
  BY <1>1, <1>2, <1>3, <1>4, <1>5, <1>6, <1>7, <1>8, <1>9 DEF Next

\* Cron never schedules a chat earlier than its interval after the schedule time of a job that
\* was delivered, however late that job's finalization sets last_sent back.
THEOREM IntervalIsKept == Spec => ScheduleKeepsInterval
<1> DEFINE Inv == IInv /\ OneOpenScheduledJob /\ SentIsOldest
<1>1. Spec => []Inv
  <2>1. Init => SentIsOldest
    BY DEF Init, SentIsOldest, AbsentJob
  <2>2. IInv /\ OneOpenScheduledJob /\ SentIsOldest /\ [Next]_vars => SentIsOldest'
    <3>1. ASSUME SentIsOldest, UNCHANGED vars PROVE SentIsOldest'
      BY <3>1 DEF vars, SentIsOldest, IsOpen
    <3> QED
      BY <3>1, ScheduleStep
  <2> QED
    BY <2>1, <2>2, FencesHold, OneOpenScheduled, PTL DEF Spec
<1>2. Inv /\ [Next]_vars =>
        [\A i, j \in JobIds :
            /\ jobs[j].status = "absent" /\ jobs'[j].status = "pending" /\ jobs'[j].kind = "scheduled"
            /\ jobs[i].status = "sent" /\ jobs[i].kind = "scheduled" /\ jobs[i].chat = jobs'[j].chat
            => jobs[i].scheduled_at >= subscribers[jobs[i].chat].interval_minutes]_vars
  <2> SUFFICES ASSUME Inv, Next, NEW i \in JobIds, NEW j \in JobIds,
                      jobs[j].status = "absent", jobs'[j].status = "pending", jobs'[j].kind = "scheduled",
                      jobs[i].status = "sent", jobs[i].kind = "scheduled", jobs[i].chat = jobs'[j].chat
               PROVE  jobs[i].scheduled_at >= subscribers[jobs[i].chat].interval_minutes
    OBVIOUS
  <2>1. CASE CreateCronNotificationJobs
    <3>0. PICK rows \in SUBSET {k \in JobIds : jobs[k].status = "absent"} :
               \E chat \in [rows -> {c \in Chats : Due(c)}] : CronBatch(rows, chat)
      BY <2>1, CronBatchTaken
    <3>1. PICK chat \in [rows -> {c \in Chats : Due(c)}] : CronBatch(rows, chat)
      BY <3>0
    <3>2. jobs'[j] = IF j \in rows THEN NewJob("scheduled", chat[j]) ELSE jobs[j]
      BY <3>1 DEF CronBatch
    <3>3. j \in rows /\ jobs'[j].chat = chat[j]
      BY <3>2 DEF NewJob, AbsentJob
    <3>4. chat[j] \in Chats /\ Due(chat[j])
      BY <3>3
    <3>5. /\ subscribers[jobs[i].chat].last_sent \in 0..jobs[i].scheduled_at
          /\ \/ subscribers[jobs[i].chat].last_sent = -1
             \/ subscribers[jobs[i].chat].last_sent >= subscribers[jobs[i].chat].interval_minutes
      BY <3>3, <3>4 DEF SentIsOldest, Due
    <3>6. jobs[i].scheduled_at \in Nat /\ subscribers[jobs[i].chat].interval_minutes \in Nat
      <4>1. jobs[i] \in JobType
        BY DEF IInv, TypeOK
      <4>2. subscribers[jobs[i].chat] \in SubscriberType
        BY <4>1 DEF IInv, TypeOK, JobType
      <4> QED
        BY <4>1, <4>2, WindowTypes DEF JobType, SubscriberType, Intervals
    <3> QED
      BY <3>5, <3>6
  <2>2. CASE ~CreateCronNotificationJobs
    <3>1. Ages(j)
      BY <2>2, StepAges DEF IInv
    <3> QED
      BY <3>1 DEF Ages, IsOpen, OpenStatus
  <2> QED
    BY <2>1, <2>2
<1> HIDE DEF Inv
<1> QED
  BY <1>1, <1>2, PTL DEF Spec, ScheduleKeepsInterval

-----------------------------------------------------------------------------
(* The outbox delivers as DurableDelivery promises *)

\* What Telegram accepted was accepted from a claim that existed; a claim is accepted once,
\* and it is the accepted ones that are finalized.
AcceptedOnce ==
    /\ \A j \in JobIds : /\ jobs[j].status = "absent" => accepted[j] = {}
                         /\ \A a \in accepted[j] : a <= jobs[j].attempts
    /\ \A w \in Workers :
           /\ workers[w].pc \in {"claimed", "locked", "enabled", "validated", "sending"}
              => workers[w].attempts \notin accepted[workers[w].job]
           /\ workers[w].pc = "finalizing" => workers[w].attempts \in accepted[workers[w].job]

\* A row other than a deleted one stays, and never loses count of its claims.
Counts(j) ==
    jobs[j].status # "absent" => jobs'[j].status # "absent" /\ jobs'[j].attempts >= jobs[j].attempts

\* Steps that keep counts and accept nothing keep this, when every worker they move to a call
\* before the answer or to the finalization was there before.
LEMMA CountsKeep ==
    ASSUME TypeOK, TypeOK', AcceptedOnce, accepted' = accepted, \A j \in JobIds : Counts(j),
           \A w \in Workers :
               \/ workers'[w].pc \notin {"claimed", "locked", "enabled", "validated", "sending", "finalizing"}
               \/ /\ workers'[w].job = workers[w].job /\ workers'[w].attempts = workers[w].attempts
                  /\ workers'[w].pc = "finalizing" => workers[w].pc = "finalizing"
                  /\ workers'[w].pc # "finalizing"
                     => workers[w].pc \in {"claimed", "locked", "enabled", "validated", "sending"}
    PROVE  AcceptedOnce'
<1>1. ASSUME NEW j \in JobIds
      PROVE  /\ jobs'[j].status = "absent" => accepted[j] = {}
             /\ \A a \in accepted[j] : a <= jobs'[j].attempts
  <2>1. CASE jobs[j].status = "absent"
    BY <2>1 DEF AcceptedOnce
  <2>2. CASE jobs[j].status # "absent"
    <3>1. jobs'[j].status # "absent" /\ jobs'[j].attempts >= jobs[j].attempts
      BY <2>2 DEF Counts
    <3>2. jobs[j].attempts \in Nat /\ jobs'[j].attempts \in Nat /\ accepted[j] \subseteq Nat
      BY DEF TypeOK, JobType
    <3>3. \A a \in accepted[j] : a <= jobs[j].attempts
      BY DEF AcceptedOnce
    <3>4. ASSUME NEW a \in accepted[j] PROVE a <= jobs'[j].attempts
      BY <3>1, <3>2, <3>3
    <3> QED
      BY <3>1, <3>4
  <2> QED
    BY <2>1, <2>2
<1>2. ASSUME NEW w \in Workers
      PROVE  /\ workers'[w].pc \in {"claimed", "locked", "enabled", "validated", "sending"}
                => workers'[w].attempts \notin accepted[workers'[w].job]
             /\ workers'[w].pc = "finalizing" => workers'[w].attempts \in accepted[workers'[w].job]
  BY DEF AcceptedOnce
<1> QED
  BY <1>1, <1>2 DEF AcceptedOnce

\* Every row keeps count in every step but its deletion.
LEMMA StepCounts ==
    ASSUME TypeOK, ClaimsExist, Next, NEW j \in JobIds
    PROVE  Counts(j) \/ CleanupNotificationJobHistory(j)
<1>0. jobs[j] \in JobType /\ jobs[j].attempts \in Nat
  BY DEF TypeOK, JobType
<1>a. jobs'[j] = jobs[j] => Counts(j)
  BY <1>0 DEF Counts
<1>b. ASSUME jobs'[j].status # "absent", jobs'[j].attempts = jobs[j].attempts PROVE Counts(j)
  BY <1>0, <1>b DEF Counts
<1>1. CASE CreateCronNotificationJobs
  <2>1. jobs'[j] = jobs[j] \/ jobs[j].status = "absent"
    BY <1>1, CronRows
  <2> QED
    BY <1>a, <2>1 DEF Counts
<1>2. ASSUME NEW i \in JobIds, CleanupNotificationJobHistory(i)
      PROVE  Counts(j) \/ CleanupNotificationJobHistory(j)
  BY <1>2, <1>a DEF CleanupNotificationJobHistory, TypeOK
<1>3. ASSUME NEW i \in JobIds, NEW c \in Chats, TriggerPriceAlert(i, c) PROVE Counts(j)
  BY <1>3, <1>a DEF TriggerPriceAlert, Counts, TypeOK
<1>4. ASSUME NEW w \in Workers, NEW i \in JobIds, ClaimPendingNotificationJob(w, i) PROVE Counts(j)
  <2>1. CASE i = j
    <3>1. jobs'[j].status = "sending" /\ jobs'[j].attempts = jobs[j].attempts + 1
      BY <1>0, <1>4, <2>1 DEF ClaimPendingNotificationJob, TypeOK, JobType, Claimed
    <3> QED
      BY <1>0, <3>1 DEF Counts
  <2>2. CASE i # j
    BY <1>4, <1>a, <2>2 DEF ClaimPendingNotificationJob, TypeOK
  <2> QED
    BY <2>1, <2>2
<1>5. ASSUME NEW w \in Workers, WorkerStep(w) PROVE Counts(j)
  <2>1. \/ jobs' = jobs
        \/ /\ workers[w].job \in JobIds
           /\ \E outcome \in {"sent", "retry", "failed", "permanent", "canceled"} : WriteOutcome(w, outcome)
    BY <1>5, WorkerWrites
  <2>2. ASSUME NEW outcome \in {"sent", "retry", "failed", "permanent", "canceled"},
               workers[w].job \in JobIds, WriteOutcome(w, outcome)
        PROVE  Counts(j)
    <3>1. CASE Owns(w) /\ workers[w].job = j
      <4>1. jobs'[j].status = StatusAfter(outcome) /\ jobs'[j].attempts = jobs[j].attempts
        BY <2>2, <3>1, WriteOutcomeEffect
      <4> QED
        BY <1>b, <4>1 DEF StatusAfter
    <3>2. CASE ~(Owns(w) /\ workers[w].job = j)
      <4>1. jobs'[j] = jobs[j]
        BY <2>2, <3>2, WriteOutcomeEffect DEF WriteOutcome
      <4> QED
        BY <1>a, <4>1
    <3> QED
      BY <3>1, <3>2
  <2> QED
    BY <2>1, <2>2, <1>a
<1>6. ASSUME NEW w \in Workers, WorkerFault(w) PROVE Counts(j)
  BY <1>6, <1>a
  DEF WorkerFault, MarkError, FinalizeGiveUp, LoseLockSession, Stall, CancelContext, Crash
<1>7. ASSUME NEW c \in Chats, HandlerBegin(c) \/ LoseHandlerSession(c) \/ ReapSession(c)
      PROVE  Counts(j)
  BY <1>7, <1>a DEF HandlerBegin, LoseHandlerSession, ReapSession
<1>8. ASSUME NEW c \in Chats, HandlerCommit(c) PROVE Counts(j)
  <2>1. CASE Unsubscribe(c)
    <3>1. jobs'[j] = jobs[j] \/ jobs'[j] = Closed(j, "canceled")
      BY <2>1 DEF Unsubscribe
    <3> QED
      BY <3>1, <1>a, <1>b, ClosedRow
  <2>2. ASSUME NEW i \in JobIds, CancelPriceAlert(c, i) PROVE Counts(j)
    <3> DEFINE row == [Closed(i, "canceled") EXCEPT !.alert = "canceled"]
    <3>1. row.status = "canceled" /\ row.attempts = jobs[i].attempts
      <4>1. jobs[i] \in JobType
        BY DEF TypeOK
      <4> QED
        BY <4>1 DEF Closed, JobType
    <3>2. jobs' = [jobs EXCEPT ![i] = row]
      BY <2>2 DEF CancelPriceAlert
    <3> HIDE DEF row
    <3> QED
      BY <1>a, <1>b, <3>1, <3>2 DEF TypeOK
  <2> QED
    BY <1>8, <1>a, <2>1, <2>2 DEF HandlerCommit, Subscribe, SetLanguage, HandleOther, SetInterval
<1>9. CASE Tick
  <2>1. jobs'[j].status = jobs[j].status /\ jobs'[j].attempts = jobs[j].attempts
    BY <1>0, <1>9 DEF Tick, JobType
  <2> QED
    BY <1>0, <2>1 DEF Counts
<1> QED
  BY <1>1, <1>2, <1>3, <1>4, <1>5, <1>6, <1>7, <1>8, <1>9 DEF Next

\* Every step keeps the accepted claims in order.
LEMMA AcceptedStep ==
    ASSUME IInv, AcceptedOnce, Next, TypeOK'
    PROVE  AcceptedOnce'
<1> DEFINE Before == {"claimed", "locked", "enabled", "validated", "sending"}
<1>0. /\ TypeOK /\ ClaimsExist /\ ClaimsDistinct
      /\ \A w \in Workers : workers[w].pc # "idle" =>
             /\ workers[w].job \in JobIds /\ JobOf(w).status # "absent"
             /\ workers[w].attempts \in Nat /\ workers[w].attempts <= JobOf(w).attempts
  BY DEF IInv, ClaimsExist, Busy, TypeOK, WorkerType
<1>1. ASSUME NEW i \in JobIds, CleanupNotificationJobHistory(i) PROVE AcceptedOnce'
  <2>1. /\ workers' = workers /\ \A w \in Workers : workers[w].job # i
        /\ jobs'[i] = AbsentJob /\ accepted'[i] = {}
        /\ \A j \in JobIds \ {i} : jobs'[j] = jobs[j] /\ accepted'[j] = accepted[j]
    BY <1>0, <1>1 DEF CleanupNotificationJobHistory, TypeOK
  <2>2. \A w \in Workers : workers[w].pc # "idle" => accepted'[workers[w].job] = accepted[workers[w].job]
    BY <1>0, <2>1
  <2> QED
    BY <2>1, <2>2 DEF AcceptedOnce
<1> SUFFICES ASSUME ~ \E i \in JobIds : CleanupNotificationJobHistory(i) PROVE AcceptedOnce'
  BY <1>1
<1>2. \A j \in JobIds : Counts(j)
  BY <1>0, StepCounts
<1>3. ASSUME NEW w \in Workers, NEW i \in JobIds, ClaimPendingNotificationJob(w, i) PROVE AcceptedOnce'
  <2>1. /\ \A v \in Workers \ {w} : workers'[v] = workers[v]
        /\ workers'[w].pc = "claimed" /\ workers'[w].job = i /\ workers'[w].attempts = jobs[i].attempts + 1
        /\ accepted' = accepted
        /\ \A j \in JobIds \ {i} : jobs'[j] = jobs[j]
    BY <1>0, <1>3 DEF ClaimPendingNotificationJob, TypeOK, ghosts, IdleWorker
  <2>2. jobs'[i].status = "sending" /\ jobs'[i].attempts = jobs[i].attempts + 1
    <3>1. jobs[i] \in JobType
      BY <1>0 DEF TypeOK
    <3> QED
      BY <1>0, <1>3, <3>1 DEF ClaimPendingNotificationJob, TypeOK, JobType, Claimed
  <2>3. jobs[i].attempts \in Nat /\ accepted[i] \subseteq Nat /\ \A a \in accepted[i] : a <= jobs[i].attempts
    BY <1>0 DEF TypeOK, JobType, AcceptedOnce
  <2>4. jobs[i].attempts + 1 \notin accepted[i] /\ \A a \in accepted[i] : a <= jobs[i].attempts + 1
    BY <2>3
  <2>5. \A j \in JobIds : /\ jobs'[j].status = "absent" => accepted[j] = {}
                          /\ \A a \in accepted[j] : a <= jobs'[j].attempts
    BY <2>1, <2>2, <2>4 DEF AcceptedOnce
  <2>6. ASSUME NEW v \in Workers
        PROVE  /\ workers'[v].pc \in Before => workers'[v].attempts \notin accepted[workers'[v].job]
               /\ workers'[v].pc = "finalizing" => workers'[v].attempts \in accepted[workers'[v].job]
    BY <2>1, <2>4 DEF AcceptedOnce
  <2> QED
    BY <2>1, <2>5, <2>6 DEF AcceptedOnce
<1>4. ASSUME NEW w \in Workers, workers[w].pc = "sending", accepted' = Record(accepted, w), jobs' = jobs,
             \A v \in Workers \ {w} : workers'[v] = workers[v],
             \/ Moves(w, "finalizing")
             \/ workers'[w].pc \in {"marking", "idle"}
      PROVE  AcceptedOnce'
  <2> DEFINE i == workers[w].job
             n == workers[w].attempts
  <2>1. i \in JobIds /\ n \in Nat /\ jobs[i].status # "absent" /\ n <= jobs[i].attempts
    BY <1>0, <1>4 DEF JobOf
  <2>2. accepted'[i] = accepted[i] \cup {n} /\ \A j \in JobIds \ {i} : accepted'[j] = accepted[j]
    BY <1>0, <1>4, <2>1 DEF Record, TypeOK
  <2>3. \A j \in JobIds : /\ jobs[j].status = "absent" => accepted'[j] = {}
                          /\ \A a \in accepted'[j] : a <= jobs[j].attempts
    BY <2>1, <2>2 DEF AcceptedOnce
  <2>4. ASSUME NEW v \in Workers \ {w}
        PROVE  /\ workers[v].pc \in Before => workers[v].attempts \notin accepted'[workers[v].job]
               /\ workers[v].pc = "finalizing" => workers[v].attempts \in accepted'[workers[v].job]
    <3>1. CASE workers[v].pc = "idle"
      BY <3>1
    <3>2. CASE workers[v].pc # "idle"
      <4>1. workers[v].job = i => workers[v].attempts # n
        BY <1>0, <1>4, <3>2 DEF ClaimsDistinct, Busy
      <4> QED
        BY <1>0, <2>2, <3>2, <4>1 DEF AcceptedOnce
    <3> QED
      BY <3>1, <3>2
  <2>5. /\ workers'[w].pc \notin Before
        /\ workers'[w].pc = "finalizing" => workers'[w].attempts \in accepted'[workers'[w].job]
    BY <1>4, <2>2 DEF Moves
  <2>6. ASSUME NEW v \in Workers
        PROVE  /\ workers'[v].pc \in Before => workers'[v].attempts \notin accepted'[workers'[v].job]
               /\ workers'[v].pc = "finalizing" => workers'[v].attempts \in accepted'[workers'[v].job]
    BY <1>4, <2>4, <2>5
  <2> QED
    BY <1>4, <2>3, <2>6 DEF AcceptedOnce
<1>5. ASSUME accepted' = accepted, NEW w \in Workers, \A v \in Workers \ {w} : workers'[v] = workers[v],
             \/ workers'[w].pc \notin Before \cup {"finalizing"}
             \/ \E pc : Moves(w, pc) /\ (pc = "finalizing" => workers[w].pc = "finalizing")
                                   /\ (pc # "finalizing" => workers[w].pc \in Before)
      PROVE  AcceptedOnce'
  <2>1. ASSUME NEW v \in Workers \ {w}
        PROVE  /\ workers'[v] = workers[v]
               /\ \/ workers'[v].pc \notin Before \cup {"finalizing"}
                  \/ /\ workers'[v].pc = "finalizing" => workers[v].pc = "finalizing"
                     /\ workers'[v].pc # "finalizing" => workers[v].pc \in Before
    BY <1>5
  <2> QED
    BY <1>0, <1>2, <1>5, <2>1, CountsKeep DEF Moves
<1>6. ASSUME NEW w \in Workers, WorkerStep(w) PROVE AcceptedOnce'
  <2>1. CASE ProcessCanceled(w) \/ DeferNotificationJob(w) \/ SendRejected(w)
    BY <1>0, <1>5, <2>1, DecideMoves DEF ProcessCanceled, DeferNotificationJob, SendRejected, ghosts, Moves
  <2>2. CASE AcquireTelegramChatLock(w)
    BY <1>0, <1>5, <2>2, GotoMoves DEF AcquireTelegramChatLock, ghosts, Moves
  <2>3. CASE CheckNotificationEnabled(w)
    BY <1>0, <1>5, <2>3, GotoMoves, DecideMoves DEF CheckNotificationEnabled, ghosts, Moves
  <2>4. CASE EnsureNotificationJobClaimCurrent(w)
    <3>1. CASE ClaimCurrent(w)
      <4>1. Moves(w, "validated")
        BY <1>0, <2>4, <3>1 DEF EnsureNotificationJobClaimCurrent, Moves, TypeOK, WorkerType
      <4> QED
        BY <1>5, <2>4, <4>1 DEF EnsureNotificationJobClaimCurrent, ghosts, Moves
    <3>2. CASE ~ClaimCurrent(w)
      BY <1>0, <1>5, <2>4, <3>2, GotoMoves DEF EnsureNotificationJobClaimCurrent, ghosts, Moves
    <3> QED
      BY <3>1, <3>2
  <2>5. CASE BeginSend(w)
    BY <1>0, <1>5, <2>5, GotoMoves DEF BeginSend, ghosts, Moves
  <2>6. CASE SendAccepted(w)
    BY <1>0, <1>4, <2>6, GotoMoves DEF SendAccepted, Moves
  <2>7. ASSUME NEW reached \in BOOLEAN, SendFailed(w, reached) PROVE AcceptedOnce'
    <3>1. Moves(w, "marking") /\ workers[w].pc = "sending" /\ jobs' = jobs
      BY <1>0, <2>7, DecideMoves DEF SendFailed
    <3> QED
      BY <1>4, <1>5, <2>7, <3>1 DEF SendFailed, Moves
  <2>8. CASE MarkNotificationJob(w) \/ FinalizeSent(w)
    BY <1>0, <1>5, <2>8, GotoMoves DEF MarkNotificationJob, FinalizeSent, ghosts, Moves
  <2>9. ASSUME NEW committed \in BOOLEAN, FinalizeError(w, committed) PROVE AcceptedOnce'
    <3>1. Moves(w, "finalizing")
      BY <1>0, <2>9 DEF FinalizeError, Moves, TypeOK, WorkerType
    <3> QED
      BY <1>5, <2>9, <3>1 DEF FinalizeError, ghosts, Moves
  <2>10. CASE ReleaseTelegramChatLock(w)
    <3>1. workers'[w].pc = "idle" /\ \A v \in Workers \ {w} : workers'[v] = workers[v]
      BY <1>0, <2>10 DEF ReleaseTelegramChatLock, TypeOK, IdleWorker
    <3> QED
      BY <1>5, <2>10, <3>1 DEF ReleaseTelegramChatLock, ghosts
  <2> QED
    BY <1>6, <2>1, <2>2, <2>3, <2>4, <2>5, <2>6, <2>7, <2>8, <2>9, <2>10 DEF WorkerStep
<1>7. ASSUME NEW w \in Workers, WorkerFault(w) PROVE AcceptedOnce'
  <2>1. CASE MarkError(w) \/ FinalizeGiveUp(w)
    BY <1>0, <1>5, <2>1, GotoMoves DEF MarkError, FinalizeGiveUp, ghosts, Moves
  <2>2. CASE LoseLockSession(w) \/ Stall(w) \/ CancelContext(w)
    <3>1. Moves(w, workers[w].pc) /\ accepted' = accepted
      BY <1>0, <2>2 DEF LoseLockSession, Stall, CancelContext, ghosts, Moves, TypeOK, WorkerType
    <3> QED
      BY <1>5, <3>1 DEF Moves
  <2>3. ASSUME NEW reached \in BOOLEAN, Crash(w, reached) PROVE AcceptedOnce'
    <3>1. workers'[w].pc = "idle" /\ \A v \in Workers \ {w} : workers'[v] = workers[v]
      BY <1>0, <2>3 DEF Crash, TypeOK, IdleWorker
    <3> QED
      BY <1>4, <1>5, <2>3, <3>1 DEF Crash
  <2> QED
    BY <1>7, <2>1, <2>2, <2>3 DEF WorkerFault
<1>8. ASSUME accepted' = accepted, workers' = workers PROVE AcceptedOnce'
  BY <1>0, <1>2, <1>8, CountsKeep
<1>9. ASSUME NEW c \in Chats,
             HandlerBegin(c) \/ LoseHandlerSession(c) \/ ReapSession(c) \/ HandlerCommit(c)
      PROVE  AcceptedOnce'
  BY <1>8, <1>9 DEF HandlerBegin, LoseHandlerSession, ReapSession, ghosts, HandlerCommit, HandlerEnd,
                    Subscribe, Unsubscribe, SetLanguage, HandleOther, SetInterval, CancelPriceAlert
<1>10. CASE Tick
  <2>1. \A w \in Workers : /\ workers'[w].pc = workers[w].pc /\ workers'[w].job = workers[w].job
                           /\ workers'[w].attempts = workers[w].attempts
    BY <1>0, <1>10 DEF Tick, TypeOK, WorkerType
  <2> QED
    BY <1>0, <1>2, <1>10, <2>1, CountsKeep DEF Tick, ghosts
<1>11. CASE CreateCronNotificationJobs
  BY <1>8, <1>11 DEF CreateCronNotificationJobs, ghosts
<1>12. ASSUME NEW i \in JobIds, NEW c \in Chats, TriggerPriceAlert(i, c) PROVE AcceptedOnce'
  BY <1>8, <1>12 DEF TriggerPriceAlert, ghosts
<1> QED
  BY <1>3, <1>6, <1>7, <1>9, <1>10, <1>11, <1>12 DEF Next

\* A step of the abstract delivery, or none.
Promised == [Delivery!Next]_(Delivery!vars)

SamePhases == \A j \in JobIds : Phase(j)' = Phase(j)

\* Claims, retries and time are not visible in a delivery.
LEMMA NothingPromised == ASSUME SamePhases, UNCHANGED <<accepted, disturbed>> PROVE Promised
<1>1. [j \in JobIds |-> Phase(j)]' = [j \in JobIds |-> Phase(j)]
  BY DEF SamePhases
<1> QED
  BY <1>1 DEF Promised, Delivery!vars

\* A fault that hides a claim's outcome puts the delivery in doubt.
LEMMA DoubtPromised ==
    ASSUME TypeOK, SamePhases, accepted' = accepted, NEW j \in JobIds, NEW n,
           disturbed' = [disturbed EXCEPT ![j] = @ \cup {n}]
    PROVE  Promised
<1>1. [i \in JobIds |-> Phase(i)]' = [i \in JobIds |-> Phase(i)]
  BY DEF SamePhases
<1>2. n \in disturbed'[j]
  BY DEF TypeOK
<1>3. Delivery!Doubt(j, n)
  BY <1>1 DEF Delivery!Doubt
<1> QED
  BY <1>2, <1>3 DEF Promised, Delivery!Next

\* An accepted message delivers a job that exists.
LEMMA DeliverPromised ==
    ASSUME TypeOK, SamePhases, NEW j \in JobIds, Phase(j) # "none", NEW n, n \notin accepted[j],
           NEW inDoubt \in BOOLEAN, accepted[j] \ disturbed[j] = {} \/ inDoubt,
           accepted' = [accepted EXCEPT ![j] = @ \cup {n}],
           disturbed' = IF inDoubt THEN [disturbed EXCEPT ![j] = @ \cup {n}] ELSE disturbed
    PROVE  Promised
<1>1. [i \in JobIds |-> Phase(i)]' = [i \in JobIds |-> Phase(i)]
  BY DEF SamePhases
<1>2. n \in accepted'[j]
  BY DEF TypeOK
<1>3. Delivery!Deliver(j, n, inDoubt)
  BY <1>1 DEF Delivery!Deliver, Delivery!Certain
<1> QED
  BY <1>2, <1>3 DEF Promised, Delivery!Next

\* An open job ends as sent when something was accepted, as failed when nothing certainly was.
LEMMA FinishPromised ==
    ASSUME UNCHANGED <<accepted, disturbed>>, NEW j \in JobIds, IsOpen(j), NEW end \in {"sent", "failed"},
           end = "sent" => accepted[j] # {},
           end = "failed" => accepted[j] \ disturbed[j] = {},
           Phase(j)' = end, \A i \in JobIds \ {j} : Phase(i)' = Phase(i)
    PROVE  Promised
<1>1. Phase(j) = "open"
  BY DEF Phase, IsOpen, OpenStatus, TerminalStatus
<1>2. [i \in JobIds |-> Phase(i)]' = [[i \in JobIds |-> Phase(i)] EXCEPT ![j] = end]
  OBVIOUS
<1>3. Delivery!Finish(j, end)
  BY <1>1, <1>2 DEF Delivery!Finish, Delivery!Certain
<1> QED
  BY <1>3 DEF Promised, Delivery!Next

\* Open jobs nobody wants any more are canceled.
LEMMA CancelPromised ==
    ASSUME UNCHANGED <<accepted, disturbed>>, NEW some \in SUBSET JobIds,
           \A j \in some : IsOpen(j) /\ Phase(j)' = "canceled",
           \A i \in JobIds \ some : Phase(i)' = Phase(i)
    PROVE  Promised
<1>1. \A j \in some : Phase(j) = "open"
  BY DEF Phase, IsOpen, OpenStatus, TerminalStatus
<1>2. [i \in JobIds |-> Phase(i)]'
          = [i \in JobIds |-> IF i \in some THEN "canceled" ELSE [j \in JobIds |-> Phase(j)][i]]
  OBVIOUS
<1>3. \A j \in some : [i \in JobIds |-> Phase(i)][j] = "open"
  BY <1>1
<1>4. Delivery!Cancel(some)
  BY <1>2, <1>3 DEF Delivery!Cancel
<1> QED
  BY <1>4 DEF Promised, Delivery!Next

\* Producers fill unused rows with open jobs.
LEMMA EnqueuePromised ==
    ASSUME UNCHANGED <<accepted, disturbed>>, NEW some \in SUBSET JobIds,
           \A j \in some : jobs[j].status = "absent" /\ jobs'[j].status = "pending",
           \A i \in JobIds \ some : Phase(i)' = Phase(i)
    PROVE  Promised
<1>1. \A j \in some : Phase(j) = "none" /\ Phase(j)' = "open"
  BY DEF Phase, IsOpen, OpenStatus, TerminalStatus
<1>2. [i \in JobIds |-> Phase(i)]'
          = [i \in JobIds |-> IF i \in some THEN "open" ELSE [j \in JobIds |-> Phase(j)][i]]
  BY <1>1
<1>3. \A j \in some : [i \in JobIds |-> Phase(i)][j] = "none"
  BY <1>1
<1>4. Delivery!Enqueue(some)
  BY <1>2, <1>3 DEF Delivery!Enqueue
<1> QED
  BY <1>4 DEF Promised, Delivery!Next

\* Retention forgets a job that has ended.
LEMMA ForgetPromised ==
    ASSUME TypeOK, NEW j \in JobIds, CleanupNotificationJobHistory(j)
    PROVE  Promised
<1>1. /\ jobs[j].status \in TerminalStatus /\ jobs'[j] = AbsentJob
      /\ \A i \in JobIds \ {j} : jobs'[i] = jobs[i]
  BY DEF CleanupNotificationJobHistory, TypeOK
<1>2. Phase(j) = jobs[j].status /\ Phase(j)' = "none"
  BY <1>1 DEF Phase, IsOpen, OpenStatus, TerminalStatus, AbsentJob
<1>3. \A i \in JobIds \ {j} : Phase(i)' = Phase(i)
  BY <1>1 DEF Phase, IsOpen
<1>4. [i \in JobIds |-> Phase(i)]' = [[i \in JobIds |-> Phase(i)] EXCEPT ![j] = "none"]
  BY <1>2, <1>3
<1>5. Delivery!Forget(j)
  BY <1>1, <1>2, <1>4 DEF Delivery!Forget, Delivery!Ends, CleanupNotificationJobHistory, TerminalStatus
<1> QED
  BY <1>5 DEF Promised, Delivery!Next

\* The phase of a row follows from its status.
LEMMA PhaseOf ==
    ASSUME NEW j \in JobIds
    PROVE  /\ jobs'[j].status = jobs[j].status => Phase(j)' = Phase(j)
           /\ jobs[j].status \in OpenStatus /\ jobs'[j].status \in OpenStatus => Phase(j)' = Phase(j)
           /\ jobs'[j].status \in TerminalStatus => Phase(j)' = jobs'[j].status
           /\ jobs[j].status \in OpenStatus \cup TerminalStatus => Phase(j) # "none"
  BY DEF Phase, IsOpen, OpenStatus, TerminalStatus

\* A sending worker's acceptance is the first of its claim, and a copy beyond the first is one
\* in doubt: the lock of its chat was lost with its session.
LEMMA SendPromised ==
    ASSUME IInv, AcceptedOnce, NEW w \in Workers, workers[w].pc = "sending",
           jobs' = jobs, accepted' = Record(accepted, w),
           disturbed' = disturbed \/ disturbed' = Record(disturbed, w)
    PROVE  Promised
<1> DEFINE j == workers[w].job
           n == workers[w].attempts
<1>1. TypeOK /\ j \in JobIds /\ jobs[j].status # "absent" /\ SamePhases
  BY PhaseOf DEF IInv, ClaimsExist, Busy, JobOf, SamePhases
<1>2. Phase(j) # "none"
  <2>1. jobs[j].status \in OpenStatus \cup TerminalStatus
    BY <1>1 DEF TypeOK, JobType
  <2> QED
    BY <1>1, <2>1, PhaseOf
<1>3. n \notin accepted[j]
  BY DEF AcceptedOnce
<1>4. accepted' = [accepted EXCEPT ![j] = @ \cup {n}]
  BY DEF Record
<1>5. CASE disturbed' = Record(disturbed, w)
  BY <1>1, <1>2, <1>3, <1>4, <1>5, DeliverPromised DEF Record
<1>6. CASE disturbed' = disturbed /\ n \in disturbed[j]
  <2>1. disturbed' = [disturbed EXCEPT ![j] = @ \cup {n}]
    BY <1>1, <1>6 DEF TypeOK
  <2> QED
    BY <1>1, <1>2, <1>3, <1>4, <2>1, DeliverPromised
<1>7. CASE disturbed' = disturbed /\ n \notin disturbed[j]
  <2>1. HoldsLock(w)
    BY <1>7 DEF IInv, CriticalLocked, Critical
  <2>2. n = jobs[j].attempts
    BY <2>1 DEF IInv, ValidatedIsLast, JobOf
  <2>3. accepted[j] \ disturbed[j] = {}
    BY <1>1, <1>3, <2>2 DEF IInv, AcceptedIsLast
  <2> QED
    BY <1>1, <1>2, <1>3, <1>4, <1>7, <2>3, DeliverPromised
<1> QED
  BY <1>5, <1>6, <1>7

\* A mark's transaction ends a job as a delivery may end: sent by the worker whose message was
\* accepted, failed only if no copy was certain.
LEMMA WriteOutcomePromised ==
    ASSUME IInv, AcceptedOnce, NEW w \in Workers, UNCHANGED <<accepted, disturbed>>,
           NEW outcome \in {"sent", "retry", "failed", "permanent", "canceled"},
           outcome = "sent" => workers[w].pc = "finalizing",
           outcome # "sent" => workers[w].pc = "marking",
           WriteOutcome(w, outcome)
    PROVE  Promised
<1>0. PICK j \in JobIds : j = workers[w].job
  BY DEF IInv, ClaimsExist, Busy
<1>1. TypeOK
  BY DEF IInv
<1>2. CASE ~Owns(w)
  <2>1. jobs' = jobs
    BY <1>2 DEF WriteOutcome
  <2> QED
    BY <2>1, PhaseOf, NothingPromised DEF SamePhases
<1>3. CASE Owns(w)
  <2>1. /\ jobs'[j].status = StatusAfter(outcome)
        /\ \A i \in JobIds \ {j} : jobs'[i] = jobs[i]
    BY <1>0, <1>1, <1>3, WriteOutcomeEffect
  <2>2. /\ jobs[j].status = "sending" /\ IsOpen(j) /\ jobs[j].status \in OpenStatus
        /\ jobs[j].attempts = workers[w].attempts
    BY <1>0, <1>3 DEF Owns, JobOf, IsOpen, OpenStatus
  <2>3. \A i \in JobIds \ {j} : Phase(i)' = Phase(i)
    BY <2>1, PhaseOf
  <2>4. CASE outcome = "retry"
    <3>1. Phase(j)' = Phase(j)
      BY <2>1, <2>2, <2>4, PhaseOf DEF StatusAfter, OpenStatus
    <3>2. SamePhases
      BY <2>3, <3>1 DEF SamePhases
    <3> QED
      BY <3>2, NothingPromised
  <2>5. CASE outcome = "canceled"
    <3>1. Phase(j)' = "canceled"
      BY <2>1, <2>5, PhaseOf DEF StatusAfter, TerminalStatus
    <3>2. {j} \in SUBSET JobIds /\ \A i \in {j} : IsOpen(i) /\ Phase(i)' = "canceled"
      BY <2>2, <3>1
    <3> QED
      BY <2>3, <3>2, CancelPromised
  <2>6. CASE outcome = "sent"
    <3>1. Phase(j)' = "sent"
      BY <2>1, <2>6, PhaseOf DEF StatusAfter, TerminalStatus
    <3>2. accepted[j] # {}
      BY <1>0, <2>6 DEF AcceptedOnce
    <3> QED
      BY <2>2, <2>3, <3>1, <3>2, FinishPromised
  <2>7. CASE outcome \in {"failed", "permanent"}
    <3>1. Phase(j)' = "failed"
      BY <2>1, <2>7, PhaseOf DEF StatusAfter, TerminalStatus
    <3>2. accepted[j] \ disturbed[j] = {}
      <4> SUFFICES ASSUME NEW a \in accepted[j] \ disturbed[j] PROVE FALSE
        OBVIOUS
      <4>1. a = jobs[j].attempts /\ \E v \in Workers : /\ workers[v].pc = "finalizing"
                                                       /\ workers[v].job = j /\ workers[v].attempts = a
        BY <2>2 DEF IInv, AcceptedIsLast
      <4> QED
        BY <1>0, <2>2, <2>7, <4>1 DEF IInv, ClaimsDistinct, Busy
    <3> QED
      BY <2>2, <2>3, <3>1, <3>2, FinishPromised
  <2> QED
    BY <2>4, <2>5, <2>6, <2>7
<1> QED
  BY <1>2, <1>3

\* Every step of the outbox is a step of a delivery or none of its business.
LEMMA StepPromised ==
    ASSUME IInv, AcceptedOnce, Next
    PROVE  Promised
<1>0. /\ TypeOK /\ ClaimsExist
      /\ \A w \in Workers : workers[w].pc # "idle" => workers[w].job \in JobIds
  BY DEF IInv, ClaimsExist, Busy
<1>a. (\A j \in JobIds : jobs'[j].status = jobs[j].status) => SamePhases
  BY PhaseOf DEF SamePhases
<1>b. jobs' = jobs /\ UNCHANGED <<accepted, disturbed>> => Promised
  BY <1>a, NothingPromised
<1>c. ASSUME NEW w \in Workers, workers[w].pc # "idle", jobs' = jobs, accepted' = accepted,
             disturbed' = Record(disturbed, w)
      PROVE  Promised
  BY <1>0, <1>a, <1>c, DoubtPromised DEF Record
<1>1. CASE CreateCronNotificationJobs
  <2>0. PICK rows \in SUBSET {j \in JobIds : jobs[j].status = "absent"} :
             \E chat \in [rows -> {c \in Chats : Due(c)}] : CronBatch(rows, chat)
    BY <1>1, CronBatchTaken
  <2>1. PICK chat \in [rows -> {c \in Chats : Due(c)}] : CronBatch(rows, chat)
    BY <2>0
  <2>2. \A j \in JobIds : jobs'[j] = IF j \in rows THEN NewJob("scheduled", chat[j]) ELSE jobs[j]
    BY <2>1 DEF CronBatch
  <2>3. \A c : NewJob("scheduled", c).status = "pending"
    BY DEF NewJob, AbsentJob
  <2>4. /\ rows \in SUBSET JobIds
        /\ \A j \in rows : jobs[j].status = "absent" /\ jobs'[j].status = "pending"
    BY <2>2, <2>3
  <2>5. \A i \in JobIds \ rows : Phase(i)' = Phase(i)
    BY <2>2, PhaseOf
  <2>6. UNCHANGED <<accepted, disturbed>>
    BY <2>1 DEF CronBatch, ghosts
  <2> QED
    BY <2>4, <2>5, <2>6, EnqueuePromised
<1>2. ASSUME NEW j \in JobIds, CleanupNotificationJobHistory(j) PROVE Promised
  BY <1>0, <1>2, ForgetPromised
<1>3. ASSUME NEW j \in JobIds, NEW c \in Chats, TriggerPriceAlert(j, c) PROVE Promised
  <2>1. NewJob("price_alert", c).status = "pending"
    BY DEF NewJob, AbsentJob
  <2>2. /\ {j} \in SUBSET JobIds
        /\ \A i \in {j} : jobs[i].status = "absent" /\ jobs'[i].status = "pending"
        /\ \A i \in JobIds \ {j} : jobs'[i] = jobs[i]
        /\ UNCHANGED <<accepted, disturbed>>
    BY <1>0, <1>3, <2>1 DEF TriggerPriceAlert, TypeOK, ghosts
  <2>3. \A i \in JobIds \ {j} : Phase(i)' = Phase(i)
    BY <2>2, PhaseOf
  <2> QED
    BY <2>2, <2>3, EnqueuePromised
<1>4. ASSUME NEW w \in Workers, NEW i \in JobIds, ClaimPendingNotificationJob(w, i) PROVE Promised
  <2>1. jobs[i] \in JobType
    BY <1>0 DEF TypeOK
  <2>2. /\ \A j \in JobIds \ {i} : jobs'[j] = jobs[j]
        /\ jobs[i].status \in OpenStatus /\ jobs'[i].status \in OpenStatus
        /\ UNCHANGED <<accepted, disturbed>>
    BY <1>0, <1>4, <2>1
    DEF ClaimPendingNotificationJob, Claimable, IsOpen, TypeOK, JobType, Claimed, OpenStatus, ghosts
  <2>3. SamePhases
    BY <2>2, PhaseOf DEF SamePhases
  <2> QED
    BY <2>2, <2>3, NothingPromised
<1>5. ASSUME NEW w \in Workers, WorkerStep(w) PROVE Promised
  <2>1. CASE SendAccepted(w)
    BY <2>1, SendPromised DEF SendAccepted
  <2>2. ASSUME NEW reached \in BOOLEAN, SendFailed(w, reached) PROVE Promised
    BY <1>b, <2>2, SendPromised DEF SendFailed
  <2>3. CASE MarkNotificationJob(w)
    <3>1. workers[w].outcome \in {"retry", "failed", "permanent", "canceled"}
      BY <1>0, <2>3 DEF MarkNotificationJob, ClaimsExist, Busy, TypeOK, WorkerType
    <3>2. PICK outcome \in {"retry", "failed", "permanent", "canceled"} : outcome = workers[w].outcome
      BY <3>1
    <3>3. WriteOutcome(w, outcome) /\ workers[w].pc = "marking" /\ UNCHANGED <<accepted, disturbed>>
      BY <2>3, <3>2 DEF MarkNotificationJob, ghosts
    <3> QED
      BY <3>3, WriteOutcomePromised
  <2>4. CASE FinalizeSent(w)
    BY <2>4, WriteOutcomePromised DEF FinalizeSent, ghosts
  <2>5. ASSUME NEW committed \in BOOLEAN, FinalizeError(w, committed) PROVE Promised
    BY <1>b, <2>5, WriteOutcomePromised DEF FinalizeError, ghosts
  <2> QED
    BY <1>5, <1>b, <2>1, <2>2, <2>3, <2>4, <2>5
    DEF WorkerStep, ProcessCanceled, AcquireTelegramChatLock, DeferNotificationJob,
        CheckNotificationEnabled, EnsureNotificationJobClaimCurrent, BeginSend, SendRejected,
        ReleaseTelegramChatLock, ghosts
<1>6. ASSUME NEW w \in Workers, WorkerFault(w) PROVE Promised
  <2>1. ASSUME NEW reached \in BOOLEAN, Crash(w, reached) PROVE Promised
    BY <1>c, <2>1, SendPromised DEF Crash
  <2> QED
    BY <1>6, <1>b, <1>c, <2>1
    DEF WorkerFault, MarkError, FinalizeGiveUp, LoseLockSession, Stall, CancelContext, ghosts
<1>7. ASSUME NEW c \in Chats, HandlerBegin(c) \/ LoseHandlerSession(c) \/ ReapSession(c) PROVE Promised
  BY <1>7, <1>b DEF HandlerBegin, LoseHandlerSession, ReapSession, ghosts
<1>8. ASSUME NEW c \in Chats, HandlerCommit(c) PROVE Promised
  <2>0. UNCHANGED <<accepted, disturbed>>
    BY <1>8 DEF HandlerCommit, Subscribe, Unsubscribe, SetLanguage, HandleOther, SetInterval,
                CancelPriceAlert, HandlerEnd
  <2>1. CASE Unsubscribe(c)
    <3>0. PICK some \in SUBSET JobIds : some = OpenScheduled(c)
      BY DEF OpenScheduled
    <3>1. \A j \in JobIds : jobs'[j] = IF j \in some THEN Closed(j, "canceled") ELSE jobs[j]
      BY <2>1, <3>0 DEF Unsubscribe
    <3>2. \A j \in some : IsOpen(j) /\ jobs'[j].status = "canceled"
      BY <1>0, <3>0, <3>1, ClosedRow DEF OpenScheduled
    <3>3. \A j \in some : IsOpen(j) /\ Phase(j)' = "canceled"
      BY <3>2, PhaseOf DEF TerminalStatus
    <3>4. \A i \in JobIds \ some : Phase(i)' = Phase(i)
      BY <3>1, PhaseOf
    <3> QED
      BY <2>0, <3>3, <3>4, CancelPromised
  <2>2. ASSUME NEW i \in JobIds, CancelPriceAlert(c, i) PROVE Promised
    <3> DEFINE row == [Closed(i, "canceled") EXCEPT !.alert = "canceled"]
    <3>1. row.status = "canceled"
      <4>1. jobs[i] \in JobType
        BY <1>0 DEF TypeOK
      <4> QED
        BY <4>1 DEF Closed, JobType
    <3>2. jobs' = [jobs EXCEPT ![i] = row] /\ IsOpen(i)
      BY <2>2 DEF CancelPriceAlert
    <3> HIDE DEF row
    <3>3. jobs'[i].status = "canceled" /\ \A j \in JobIds \ {i} : jobs'[j] = jobs[j]
      BY <1>0, <3>1, <3>2 DEF TypeOK
    <3>4. {i} \in SUBSET JobIds /\ \A j \in {i} : IsOpen(j) /\ Phase(j)' = "canceled"
      BY <3>2, <3>3, PhaseOf DEF TerminalStatus
    <3>5. \A j \in JobIds \ {i} : Phase(j)' = Phase(j)
      BY <3>3, PhaseOf
    <3> QED
      BY <2>0, <3>4, <3>5, CancelPromised
  <2> QED
    BY <1>8, <1>b, <2>0, <2>1, <2>2 DEF HandlerCommit, Subscribe, SetLanguage, HandleOther, SetInterval
<1>9. CASE Tick
  <2>1. ASSUME NEW j \in JobIds PROVE jobs'[j].status = jobs[j].status
    <3>1. jobs[j] \in JobType
      BY <1>0 DEF TypeOK
    <3> QED
      BY <1>9, <3>1 DEF Tick, JobType
  <2> QED
    BY <1>9, <1>a, <2>1, NothingPromised DEF Tick, ghosts
<1> QED
  BY <1>1, <1>2, <1>3, <1>4, <1>5, <1>6, <1>7, <1>8, <1>9 DEF Next

\* The outbox implements DurableDelivery for every number of workers, jobs, faults and updates: a
\* job ends once, sent only if accepted, failed only if no copy was certain, and a copy beyond
\* the first takes a doubt about it.
THEOREM OutboxDelivers == Spec => ImplementsDelivery
<1>1. Init => Delivery!Init
  BY DEF Init, Delivery!Init, Phase, IsOpen, OpenStatus, TerminalStatus, AbsentJob
<1>2. Init => AcceptedOnce
  <2>1. Init => (\A w \in Workers : workers[w].pc = "idle") /\ \A j \in JobIds : accepted[j] = {}
    BY DEF Init, IdleWorker
  <2> QED
    BY <2>1 DEF AcceptedOnce
<1>3. IInv /\ TypeOK' /\ AcceptedOnce /\ [Next]_vars => AcceptedOnce'
  <2>1. ASSUME AcceptedOnce, UNCHANGED vars PROVE AcceptedOnce'
    BY <2>1 DEF vars, AcceptedOnce
  <2> QED
    BY <2>1, AcceptedStep
<1>4. IInv /\ AcceptedOnce /\ [Next]_vars => [Delivery!Next]_(Delivery!vars)
  <2>1. UNCHANGED vars => UNCHANGED Delivery!vars
    BY DEF vars, Delivery!vars, Phase, IsOpen
  <2> QED
    BY <2>1, StepPromised DEF Promised
<1>5. Spec => []AcceptedOnce
  BY <1>2, <1>3, FencesHold, TypeCorrect, PTL DEF Spec
<1> QED
  BY <1>1, <1>4, <1>5, FencesHold, PTL DEF Spec, ImplementsDelivery, Delivery!Spec
=============================================================================
