-------------------------- MODULE ReplyOutboxProofs --------------------------
(***************************************************************************)
(* The safety of the reply outbox for every number of chats, replies,      *)
(* workers, update workers, faults and every choice of windows that keeps  *)
(* the assumptions.                                                        *)
(***************************************************************************)
EXTENDS ReplyOutbox, TLAPS

-----------------------------------------------------------------------------
(* The inductive invariant: the fences around a claim *)

Busy(w) == workers[w].pc # "idle"
Committed(r) == replies[r].status \in OpenStatus \cup TerminalStatus

Working == {"claimed", "marking"} \cup Critical
Validated == {"validated", "sending", "finalizing"}

\* A worker at work refers to a committed row of some chat and to one of its claims, and it
\* marks only an outcome it has decided on.
ClaimsExist ==
    \A w \in Workers : Busy(w) =>
        /\ workers[w].reply \in ReplyIds
        /\ Committed(workers[w].reply) /\ ChatOf(w) \in Chats
        /\ workers[w].attempts >= 1
        /\ workers[w].attempts <= ReplyOf(w).attempts
        /\ workers[w].pc = "marking" => workers[w].outcome # "none"

\* No two workers carry out the same claim.
ClaimsDistinct ==
    \A v, w \in Workers :
        v # w /\ Busy(v) /\ Busy(w) /\ workers[v].reply = workers[w].reply
        => workers[v].attempts # workers[w].attempts

\* The claim token belongs to the last claim.
TokenCurrent ==
    \A r \in ReplyIds : replies[r].status = "sending" => replies[r].claim_token = replies[r].attempts

\* A worker holds only the lock of its reply's chat.
LockOfOwnChat ==
    \A c \in Chats, w \in Workers :
        chatLock[c] = w => Busy(w) /\ workers[w].pc # "claimed" /\ ChatOf(w) = c

\* Between lock and unlock the lock is held, unless its session was lost.
CriticalLocked ==
    \A w \in Workers : workers[w].pc \in Critical =>
        HoldsLock(w) \/ workers[w].attempts \in disturbed[workers[w].reply]

\* Nobody but the worker of the last claim ends that claim.
LastClaimOpen ==
    \A w \in Workers :
        workers[w].pc \in Working /\ workers[w].attempts = ReplyOf(w).attempts
        => \/ ReplyOf(w).status = "sending"
           \/ workers[w].pc = "finalizing" /\ ReplyOf(w).status = "sent"

\* A validated claim stays the last one as long as the lock is held.
ValidatedIsLast ==
    \A w \in Workers :
        workers[w].pc \in Validated /\ HoldsLock(w) => workers[w].attempts = ReplyOf(w).attempts

\* An undisturbed accepted claim is the reply's last one, and it is recorded or its worker
\* is about to record it.
AcceptedIsLast ==
    \A r \in ReplyIds : \A a \in accepted[r] \ disturbed[r] :
        /\ a = replies[r].attempts
        /\ \/ replies[r].status = "sent"
           \/ \E w \in Workers : /\ workers[w].pc = "finalizing"
                                 /\ workers[w].reply = r /\ workers[w].attempts = a

\* What a validated claim must still have of its lease, beyond the current timeout.
SendRest(pc) == IF pc = "validated" THEN SendTimeout ELSE 0

\* From its validation on, the lease of a worker not paused since covers the send.
LeaseCoversSend ==
    \A w \in Workers :
        /\ workers[w].pc = "locked" => workers[w].left <= ValidationTimeout
        /\ workers[w].pc \in {"validated", "sending"} /\ ~workers[w].stalled
           => /\ workers[w].attempts = ReplyOf(w).attempts
              /\ ReplyOf(w).status = "sending"
                 => ReplyOf(w).claimed_until >= workers[w].left + SendRest(workers[w].pc)

Fences ==
    /\ ClaimsExist /\ ClaimsDistinct /\ TokenCurrent /\ LockOfOwnChat /\ CriticalLocked
    /\ LastClaimOpen /\ ValidatedIsLast /\ AcceptedIsLast /\ LeaseCoversSend

-----------------------------------------------------------------------------
(* The inductive invariant: the order of a chat's replies *)

\* Rows have chats, and a row not yet committed belongs to the transaction that writes it.
Rows ==
    \A r \in ReplyIds :
        /\ Committed(r) => replies[r].chat \in Chats
        /\ replies[r].status = "uncommitted" =>
              /\ replies[r].writer \in Handlers
              /\ replies[r].chat = handlers[replies[r].writer] /\ replies[r].chat # NoChat
              /\ replies[r].attempts = 0

\* The sequence hands out ids in order, and what the user sees had an id.
Drawn ==
    /\ \A q, r \in ReplyIds :
           q < r /\ replies[r].status # "unused" => replies[q].status # "unused"
    /\ \A c \in Chats : shown[c] # 0 => replies[shown[c]].status # "unused"

\* While its transaction holds the chat's lock, a row not yet committed is later than every
\* committed one of the chat and than what the user sees.
LockedIsLatest ==
    \A c \in Chats \ unserialized : \A r \in ReplyIds :
        replies[r].status = "uncommitted" /\ replies[r].chat = c /\ chatLock[c] = replies[r].writer
        => /\ \A q \in ReplyIds : Committed(q) /\ replies[q].chat = c => q < r
           /\ shown[c] < r

\* A reply that was ever claimed has no open reply of its chat before it.
ClaimedIsFirst ==
    \A c \in Chats \ unserialized : \A q, r \in ReplyIds :
        /\ Committed(r) /\ replies[r].chat = c /\ replies[r].attempts >= 1
        /\ q < r /\ replies[q].chat = c
        => ~IsOpen(q)

Order == Rows /\ Drawn /\ LockedIsLatest /\ ClaimedIsFirst /\ NeverOvertaken

\* What Telegram accepted was accepted from a claim that existed; a claim is accepted once,
\* and it is the accepted ones that are finalized.
AcceptedOnce ==
    /\ \A r \in ReplyIds : /\ ~Committed(r) => accepted[r] = {}
                           /\ \A a \in accepted[r] : a <= replies[r].attempts
    /\ \A w \in Workers :
           /\ workers[w].pc \in {"claimed", "locked", "validated", "sending"}
              => workers[w].attempts \notin accepted[workers[w].reply]
           /\ workers[w].pc = "finalizing" => workers[w].attempts \in accepted[workers[w].reply]

IInv == TypeOK /\ Fences /\ Order

-----------------------------------------------------------------------------
(* Types *)

\* Each window is a natural number.
LEMMA WindowTypes ==
    /\ ClaimWindow \in Nat /\ SafetyWindow \in Nat /\ LockTimeout \in Nat /\ ValidationTimeout \in Nat
    /\ SendTimeout \in Nat /\ MarkTimeout \in Nat /\ FinalizationBudget \in Nat /\ MaxFaults \in Nat
    /\ Minute \in Nat \ {0} /\ MaxBackoff \in Nat \ {0} /\ MaxRetryAfter \in Nat
  BY ReplyWindowsAssumption

\* The rows of an unused and of a deleted reply have the type of a row.
LEMMA UnusedType == UnusedReply \in ReplyType /\ RemovedReply \in ReplyType
  BY WindowTypes DEF UnusedReply, RemovedReply, ReplyType

\* The retry delays a mark may choose are natural numbers.
LEMMA RetryDelaysType == \A n \in Nat : RetryDelays(n) \subseteq Nat
<1> SUFFICES ASSUME NEW n \in Nat, NEW d \in RetryDelays(n) PROVE d \in Nat
  OBVIOUS
<1>1. Least(IF n < 1 THEN 1 ELSE n, MaxBackoff) \in Nat /\ Minute \in Nat
  BY WindowTypes DEF Least
<1>2. \A a, b \in Nat : a * b \in Nat
  OBVIOUS
<1>3. RetryDelay(n) \in Nat
  BY <1>1, <1>2 DEF RetryDelay
<1> QED
  BY <1>3, WindowTypes DEF RetryDelays

\* A row of telegram_replies stays one when a column gets a value of its type.
LEMMA ReplyColumns ==
    ASSUME NEW row \in ReplyType
    PROVE  /\ \A x \in {"unused", "uncommitted", "removed"} \cup OpenStatus \cup TerminalStatus :
                 [row EXCEPT !.status = x] \in ReplyType
           /\ \A x \in Chats \cup {NoChat} : [row EXCEPT !.chat = x] \in ReplyType
           /\ \A x \in {"send_message", "edit_message"} : [row EXCEPT !.operation = x] \in ReplyType
           /\ \A x \in Handlers \cup {"none"} : [row EXCEPT !.writer = x] \in ReplyType
           /\ \A x \in Nat : [row EXCEPT !.attempts = x] \in ReplyType
           /\ \A x \in Nat : [row EXCEPT !.claim_token = x] \in ReplyType
           /\ \A x \in -1..ClaimWindow : [row EXCEPT !.claimed_until = x] \in ReplyType
           /\ \A x \in Nat : [row EXCEPT !.next_attempt_at = x] \in ReplyType
  BY DEF ReplyType

\* A worker's state stays one when a field gets a value of its type.
LEMMA WorkerFields ==
    ASSUME NEW state \in WorkerType
    PROVE  /\ \A x \in {"idle"} \cup Timed : [state EXCEPT !.pc = x] \in WorkerType
           /\ \A x \in ReplyIds : [state EXCEPT !.reply = x] \in WorkerType
           /\ \A x \in Nat : [state EXCEPT !.attempts = x] \in WorkerType
           /\ \A x \in Nat : [state EXCEPT !.left = x] \in WorkerType
           /\ \A x \in Nat : [state EXCEPT !.finals = x] \in WorkerType
           /\ \A x \in {"none", "pending", "failed"} : [state EXCEPT !.outcome = x] \in WorkerType
           /\ \A x \in BOOLEAN : [state EXCEPT !.stalled = x] \in WorkerType
  BY DEF WorkerType

\* The row a transaction inserts.
NewReply(h, operation) ==
    [UnusedReply EXCEPT !.status = "uncommitted", !.chat = handlers[h], !.operation = operation,
                        !.writer = h]

\* An inserted row has the type of a row, and the columns it was given.
LEMMA NewReplyType ==
    ASSUME TypeOK, NEW h \in Handlers, NEW operation \in {"send_message", "edit_message"}
    PROVE  /\ NewReply(h, operation) \in ReplyType
           /\ NewReply(h, operation).status = "uncommitted" /\ NewReply(h, operation).chat = handlers[h]
           /\ NewReply(h, operation).writer = h /\ NewReply(h, operation).attempts = 0
<1>1. handlers[h] \in Chats \cup {NoChat}
  BY DEF TypeOK
<1>2. PICK base \in ReplyType : base = UnusedReply /\ base.attempts = 0
  BY UnusedType DEF UnusedReply
<1>3. PICK chat \in Chats \cup {NoChat} : chat = handlers[h]
  BY <1>1
<1>4. PICK row : row = [base EXCEPT !.status = "uncommitted", !.chat = chat, !.operation = operation,
                                    !.writer = h]
  OBVIOUS
<1>5. row \in ReplyType
  BY <1>2, <1>4, ReplyColumns
<1>6. /\ row.status = "uncommitted" /\ row.chat = chat /\ row.writer = h
      /\ row.attempts = base.attempts
  BY <1>2, <1>4 DEF ReplyType
<1>7. NewReply(h, operation) = row
  BY <1>2, <1>3, <1>4 DEF NewReply
<1> QED
  BY <1>2, <1>3, <1>5, <1>6, <1>7

\* A committed row is the inserted one, pending.
LEMMA CommittedRow ==
    ASSUME NEW row \in ReplyType, NEW new, new = [row EXCEPT !.status = "pending", !.writer = "none"]
    PROVE  /\ new \in ReplyType
           /\ new.status = "pending" /\ new.chat = row.chat /\ new.attempts = row.attempts
  BY DEF ReplyType, OpenStatus

\* A claimed row is the claimable one, sending, with the next number.
LEMMA ClaimedRow ==
    ASSUME TypeOK, NEW w \in Workers, NEW r \in ReplyIds, ClaimPendingTelegramReply(w, r)
    PROVE  /\ replies'[r] \in ReplyType
           /\ replies'[r].status = "sending" /\ replies'[r].attempts = replies[r].attempts + 1
           /\ replies'[r].claim_token = replies[r].attempts + 1
           /\ replies'[r].claimed_until = ClaimWindow
           /\ replies'[r].chat = replies[r].chat /\ replies'[r].writer = replies[r].writer
           /\ \A q \in ReplyIds \ {r} : replies'[q] = replies[q]
           /\ replies' \in [ReplyIds -> ReplyType]
<1>1. replies[r] \in ReplyType
  BY DEF TypeOK
<1>2. PICK n \in Nat : n = replies[r].attempts + 1
  BY <1>1 DEF ReplyType
<1>3. PICK row : row = [replies[r] EXCEPT !.status = "sending", !.attempts = n,
                            !.claim_token = n, !.claimed_until = ClaimWindow]
  OBVIOUS
<1>4. replies' = [replies EXCEPT ![r] = row]
  BY <1>2, <1>3 DEF ClaimPendingTelegramReply, TypeOK
<1>5. ClaimWindow \in -1..ClaimWindow /\ "sending" \in OpenStatus
  BY WindowTypes DEF OpenStatus
<1>6. row \in ReplyType
  BY <1>1, <1>3, <1>5, ReplyColumns
<1>7. /\ row.status = "sending" /\ row.attempts = n /\ row.claim_token = n
      /\ row.claimed_until = ClaimWindow /\ row.chat = replies[r].chat
      /\ row.writer = replies[r].writer
  BY <1>1, <1>3 DEF ReplyType
<1> QED
  BY <1>2, <1>4, <1>6, <1>7 DEF TypeOK

\* A mark's UPDATE of a current claim changes the row's status and keeps its count and chat.
LEMMA WrittenRow ==
    ASSUME TypeOK, NEW w \in Workers, workers[w].reply \in ReplyIds, Owns(w),
           NEW status \in {"pending", "failed", "sent"}, WriteOutcome(w, status)
    PROVE  LET r == workers[w].reply IN
           /\ replies' \in [ReplyIds -> ReplyType]
           /\ replies'[r].status = status
           /\ replies'[r].attempts = replies[r].attempts /\ replies'[r].chat = replies[r].chat
           /\ replies'[r].writer = replies[r].writer
           /\ \A q \in ReplyIds \ {r} : replies'[q] = replies[q]
<1>0. PICK r \in ReplyIds : r = workers[w].reply
  OBVIOUS
<1>1. replies[r] \in ReplyType /\ workers[w].attempts \in Nat /\ replies[r].next_attempt_at \in Nat
  BY DEF TypeOK, ReplyType, WorkerType
<1>2. PICK delay \in IF status = "pending" THEN RetryDelays(workers[w].attempts)
                                          ELSE {replies[r].next_attempt_at} :
          replies' = [replies EXCEPT ![r].status = status, ![r].claim_token = 0,
                          ![r].claimed_until = -1, ![r].next_attempt_at = delay]
  BY <1>0 DEF WriteOutcome
<1>3. delay \in Nat
  BY <1>1, RetryDelaysType
<1>4. PICK row : row = [replies[r] EXCEPT !.status = status, !.claim_token = 0,
                            !.claimed_until = -1, !.next_attempt_at = delay]
  OBVIOUS
<1>5. replies' = [replies EXCEPT ![r] = row]
  BY <1>2, <1>4 DEF TypeOK
<1>6. 0 \in Nat /\ -1 \in -1..ClaimWindow /\ status \in OpenStatus \cup TerminalStatus
  BY WindowTypes DEF OpenStatus, TerminalStatus
<1>7. row \in ReplyType
  BY <1>1, <1>3, <1>4, <1>6, ReplyColumns
<1>8. row.status = status /\ row.attempts = replies[r].attempts /\ row.chat = replies[r].chat
      /\ row.writer = replies[r].writer
  BY <1>1, <1>4 DEF ReplyType
<1> QED
  BY <1>0, <1>5, <1>7, <1>8 DEF TypeOK

\* A tick changes a row's times only, and keeps its type.
LEMMA TickedRow ==
    ASSUME TypeOK, Tick, NEW r \in ReplyIds
    PROVE  /\ replies'[r] \in ReplyType
           /\ replies'[r].status = replies[r].status /\ replies'[r].attempts = replies[r].attempts
           /\ replies'[r].chat = replies[r].chat /\ replies'[r].claim_token = replies[r].claim_token
           /\ replies'[r].writer = replies[r].writer
           /\ replies'[r].claimed_until = Down(replies[r].claimed_until, -1)
<1>1. replies[r] \in ReplyType
  BY DEF TypeOK
<1>2. PICK until \in -1..ClaimWindow, next \in Nat :
          until = Down(replies[r].claimed_until, -1) /\ next = Down(replies[r].next_attempt_at, 0)
  BY <1>1, WindowTypes DEF ReplyType, Down
<1>3. PICK row : row = [replies[r] EXCEPT !.claimed_until = until, !.next_attempt_at = next]
  OBVIOUS
<1>4. replies'[r] = row
  BY <1>1, <1>2, <1>3 DEF Tick, ReplyType
<1>5. row \in ReplyType
  BY <1>1, <1>3, ReplyColumns
<1> QED
  BY <1>1, <1>2, <1>3, <1>4, <1>5 DEF ReplyType

\* A tick runs a worker's timeout down and leaves it otherwise as it is.
LEMMA TickedWorker ==
    ASSUME TypeOK, Tick, NEW w \in Workers
    PROVE  /\ workers'[w] \in WorkerType
           /\ workers'[w].pc = workers[w].pc /\ workers'[w].reply = workers[w].reply
           /\ workers'[w].attempts = workers[w].attempts /\ workers'[w].outcome = workers[w].outcome
           /\ workers'[w].stalled = workers[w].stalled
           /\ workers'[w].left = Down(workers[w].left, 0)
<1>1. workers[w] \in WorkerType
  BY DEF TypeOK
<1>2. Down(workers[w].left, 0) \in Nat
  BY <1>1 DEF WorkerType, Down
<1> QED
  BY <1>1, <1>2, WorkerFields DEF Tick, WorkerType

\* A worker that goes on to its next call keeps its type.
LEMMA GotoType ==
    ASSUME TypeOK, NEW w \in Workers, NEW pc \in Timed, NEW left \in Nat, Goto(w, pc, left)
    PROVE  workers' \in [Workers -> WorkerType]
  BY WorkerFields DEF TypeOK, Goto

\* A worker that has decided on an outcome keeps its type.
LEMMA DecideType ==
    ASSUME TypeOK, NEW w \in Workers, NEW outcome \in {"pending", "failed"}, Decide(w, outcome)
    PROVE  workers' \in [Workers -> WorkerType]
  BY WorkerFields, WindowTypes DEF TypeOK, Decide, Timed

\* An idle worker has the type of a worker.
LEMMA IdleType == IdleWorker \in WorkerType
  BY DEF IdleWorker, WorkerType

\* A log of claims stays one when a worker's claim is recorded.
LEMMA RecordType ==
    ASSUME NEW log \in [ReplyIds -> SUBSET Nat], NEW w \in Workers, workers[w] \in WorkerType
    PROVE  Record(log, w) \in [ReplyIds -> SUBSET Nat]
  BY DEF Record, WorkerType

\* What Telegram shows is a reply that was sent.
LEMMA ApplyType ==
    ASSUME TypeOK, NEW w \in Workers, Apply(w)
    PROVE  accepted' \in [ReplyIds -> SUBSET Nat] /\ shown' \in [Chats -> ReplyIds \cup {0}]
<1>1. workers[w] \in WorkerType /\ workers[w].reply \in ReplyIds \cup {0}
  BY DEF TypeOK, WorkerType
<1> QED
  BY <1>1, RecordType DEF Apply, TypeOK

\* The end of a transaction changes the rows it wrote and no others.
LEMMA EndedRow ==
    ASSUME TypeOK, NEW h \in Handlers, NEW committed \in BOOLEAN, HandlerEnd(h, committed),
           NEW r \in ReplyIds
    PROVE  /\ replies'[r] \in ReplyType
           /\ replies[r].status = "uncommitted" /\ replies[r].writer = h /\ committed =>
                 /\ replies'[r].status = "pending" /\ replies'[r].chat = replies[r].chat
                 /\ replies'[r].attempts = replies[r].attempts
           /\ replies[r].status = "uncommitted" /\ replies[r].writer = h /\ ~committed =>
                 replies'[r].status = "removed"
           /\ ~(replies[r].status = "uncommitted" /\ replies[r].writer = h) => replies'[r] = replies[r]
<1>1. PICK row \in ReplyType : row = replies[r]
  BY DEF TypeOK
<1>2. PICK new : new = [row EXCEPT !.status = "pending", !.writer = "none"]
  OBVIOUS
<1>3. replies'[r] = IF row.status = "uncommitted" /\ row.writer = h
                    THEN IF committed THEN new ELSE RemovedReply
                    ELSE row
  BY <1>1, <1>2 DEF HandlerEnd
<1>4. RemovedReply.status = "removed"
  BY DEF RemovedReply, UnusedReply
<1> QED
  BY <1>1, <1>2, <1>3, <1>4, CommittedRow, UnusedType

\* Every step keeps the types.
LEMMA TypeStep == ASSUME TypeOK, ClaimsExist, Next PROVE TypeOK'
<1> USE DEF TypeOK
<1>a. \A w \in Workers : /\ workers[w].pc # "idle" => workers[w].reply \in ReplyIds
                         /\ workers[w] \in WorkerType
  BY DEF ClaimsExist, Busy
<1>b. faults \in 0..MaxFaults /\ (Fault => faults' \in 0..MaxFaults)
  BY WindowTypes DEF Fault
<1>c. MarkTimeout \in Nat /\ SendTimeout \in Nat /\ ValidationTimeout \in Nat /\ FinalizationBudget \in Nat
      /\ {"marking", "locked", "validated", "sending", "finalizing", "releasing"} \subseteq Timed
  BY WindowTypes DEF Timed, Critical
<1>1. ASSUME NEW h \in Handlers, HandlerStep(h) PROVE TypeOK'
  <2>1. ASSUME NEW c \in Chats, HandlerBegin(h, c) PROVE TypeOK'
    BY <2>1 DEF HandlerBegin, ghosts
  <2>2. ASSUME NEW operation \in {"send_message", "edit_message"}, InsertReply(h, operation) PROVE TypeOK'
    <3>1. PICK r \in ReplyIds : replies' = [replies EXCEPT ![r] = NewReply(h, operation)]
      BY <2>2 DEF InsertReply, NewReply
    <3>2. NewReply(h, operation) \in ReplyType
      BY NewReplyType
    <3> QED
      BY <2>2, <3>1, <3>2 DEF InsertReply, ghosts
  <2>3. CASE LoseHandlerSession(h)
    BY <1>b, <2>3 DEF LoseHandlerSession, ghosts
  <2> QED
    BY <1>1, <2>1, <2>2, <2>3 DEF HandlerStep
<1>2. ASSUME NEW h \in Handlers, NEW committed \in BOOLEAN, HandlerEnd(h, committed) PROVE TypeOK'
  <2>1. replies' \in [ReplyIds -> ReplyType]
    <3>1. \A r \in ReplyIds : replies'[r] \in ReplyType
      BY <1>2, EndedRow
    <3>2. replies' = [r \in ReplyIds |-> replies'[r]]
      BY <1>2 DEF HandlerEnd
    <3> QED
      BY <3>1, <3>2
  <2>2. handlers[h] \in Chats
    BY <1>2 DEF HandlerEnd
  <2> QED
    BY <1>2, <2>1, <2>2 DEF HandlerEnd
<1>3. ASSUME NEW w \in Workers, NEW r \in ReplyIds, ClaimPendingTelegramReply(w, r) PROVE TypeOK'
  <2>1. replies' \in [ReplyIds -> ReplyType]
    BY <1>3, ClaimedRow
  <2>2. PICK n \in Nat : n = replies[r].attempts + 1
    BY DEF ReplyType
  <2>3. [IdleWorker EXCEPT !.pc = "claimed", !.reply = r, !.attempts = n, !.left = LockTimeout] \in WorkerType
    BY IdleType, WorkerFields, WindowTypes DEF Timed
  <2>4. workers' \in [Workers -> WorkerType]
    BY <1>3, <2>2, <2>3 DEF ClaimPendingTelegramReply
  <2> QED
    BY <1>3, <2>1, <2>4 DEF ClaimPendingTelegramReply, ghosts
<1>4. ASSUME NEW w \in Workers, workers' \in [Workers -> WorkerType], handlers' = handlers,
             replies' \in [ReplyIds -> ReplyType],
             chatLock' \in [Chats -> Workers \cup Handlers \cup {"free", "orphan"}],
             unserialized' = unserialized, faults' = faults \/ Fault,
             disturbed' = disturbed \/ disturbed' = Record(disturbed, w),
             UNCHANGED <<accepted, shown>> \/ Apply(w)
      PROVE  TypeOK'
  <2>1. disturbed' \in [ReplyIds -> SUBSET Nat]
    BY <1>a, <1>4, RecordType
  <2>2. accepted' \in [ReplyIds -> SUBSET Nat] /\ shown' \in [Chats -> ReplyIds \cup {0}]
    BY <1>4, ApplyType
  <2> QED
    BY <1>b, <1>4, <2>1, <2>2
<1>5. ASSUME NEW w \in Workers, WorkerStep(w) PROVE TypeOK'
  <2>1. CASE AcquireTelegramChatLock(w)
    <3>1. workers' \in [Workers -> WorkerType]
      BY <1>c, <2>1, GotoType DEF AcquireTelegramChatLock
    <3> QED
      BY <1>4, <2>1, <3>1 DEF AcquireTelegramChatLock, ghosts
  <2>2. CASE DeferTelegramReply(w) \/ SendRejected(w)
    <3>1. workers' \in [Workers -> WorkerType]
      BY <2>2, DecideType DEF DeferTelegramReply, SendRejected, RetryOrFail
    <3> QED
      BY <1>4, <2>2, <3>1 DEF DeferTelegramReply, SendRejected, ghosts
  <2>3. CASE EnsureTelegramReplyClaimCurrent(w)
    <3>1. workers' \in [Workers -> WorkerType]
      <4>1. CASE ClaimCurrent(w)
        <5>1. [workers[w] EXCEPT !.pc = "validated", !.stalled = FALSE] \in WorkerType
          BY <1>a, <1>c, WorkerFields
        <5> QED
          BY <2>3, <4>1, <5>1 DEF EnsureTelegramReplyClaimCurrent
      <4>2. CASE ~ClaimCurrent(w)
        BY <1>c, <2>3, <4>2, GotoType DEF EnsureTelegramReplyClaimCurrent
      <4> QED
        BY <4>1, <4>2
    <3> QED
      BY <1>4, <2>3, <3>1 DEF EnsureTelegramReplyClaimCurrent, ghosts
  <2>4. CASE BeginSend(w) \/ SendAccepted(w) \/ SendNotModified(w)
    <3>1. workers' \in [Workers -> WorkerType]
      BY <1>c, <2>4, GotoType DEF BeginSend, SendAccepted, SendNotModified
    <3> QED
      BY <1>4, <2>4, <3>1 DEF BeginSend, SendAccepted, SendNotModified, ghosts
  <2>5. ASSUME NEW reached \in BOOLEAN, SendFailed(w, reached) PROVE TypeOK'
    <3>1. workers' \in [Workers -> WorkerType]
      BY <2>5, DecideType DEF SendFailed, RetryOrFail
    <3> QED
      BY <1>4, <2>5, <3>1 DEF SendFailed
  <2>6. ASSUME NEW status \in {"pending", "failed", "sent"}, workers[w].pc # "idle", WriteOutcome(w, status)
        PROVE  replies' \in [ReplyIds -> ReplyType]
    BY <1>a, <2>6, WrittenRow DEF WriteOutcome
  <2>7. CASE MarkTelegramReply(w)
    <3>1. workers' \in [Workers -> WorkerType]
      BY <1>c, <2>7, GotoType DEF MarkTelegramReply
    <3>2. workers[w].outcome \in {"pending", "failed"}
      BY <1>a, <2>7 DEF MarkTelegramReply, ClaimsExist, Busy, WorkerType
    <3>3. replies' \in [ReplyIds -> ReplyType]
      BY <2>6, <2>7, <3>2 DEF MarkTelegramReply
    <3> QED
      BY <1>4, <2>7, <3>1, <3>3 DEF MarkTelegramReply, ghosts
  <2>8. CASE FinalizeSent(w)
    <3>1. workers' \in [Workers -> WorkerType]
      BY <1>c, <2>8, GotoType DEF FinalizeSent
    <3>2. replies' \in [ReplyIds -> ReplyType]
      BY <2>6, <2>8 DEF FinalizeSent
    <3> QED
      BY <1>4, <2>8, <3>1, <3>2 DEF FinalizeSent, ghosts
  <2>9. ASSUME NEW committed \in BOOLEAN, FinalizeError(w, committed) PROVE TypeOK'
    <3>1. PICK n \in Nat : n = workers[w].finals + 1
      BY <1>a DEF WorkerType
    <3>2. [workers[w] EXCEPT !.finals = n] \in WorkerType
      BY <1>a, WorkerFields
    <3>3. workers' \in [Workers -> WorkerType]
      BY <2>9, <3>1, <3>2 DEF FinalizeError
    <3>4. replies' \in [ReplyIds -> ReplyType]
      BY <2>6, <2>9 DEF FinalizeError
    <3> QED
      BY <1>4, <2>9, <3>3, <3>4 DEF FinalizeError, ghosts
  <2>10. CASE ReleaseTelegramChatLock(w)
    <3>1. workers' \in [Workers -> WorkerType]
      BY <2>10, IdleType DEF ReleaseTelegramChatLock
    <3> QED
      BY <1>4, <2>10, <3>1 DEF ReleaseTelegramChatLock, ghosts
  <2> QED
    BY <1>5, <2>1, <2>2, <2>3, <2>4, <2>5, <2>7, <2>8, <2>9, <2>10 DEF WorkerStep
<1>6. ASSUME NEW w \in Workers, WorkerFault(w) PROVE TypeOK'
  <2>1. CASE MarkError(w) \/ FinalizeGiveUp(w)
    <3>1. workers' \in [Workers -> WorkerType]
      BY <1>c, <2>1, GotoType DEF MarkError, FinalizeGiveUp
    <3> QED
      BY <1>4, <2>1, <3>1 DEF MarkError, FinalizeGiveUp, ghosts
  <2>2. CASE LoseLockSession(w)
    BY <1>4, <2>2 DEF LoseLockSession
  <2>3. CASE Stall(w)
    <3>1. workers' \in [Workers -> WorkerType]
      BY <1>a, <2>3, WorkerFields DEF Stall
    <3> QED
      BY <1>4, <2>3, <3>1 DEF Stall, ghosts
  <2>4. ASSUME NEW reached \in BOOLEAN, Crash(w, reached) PROVE TypeOK'
    <3>1. workers' \in [Workers -> WorkerType]
      BY <2>4, IdleType DEF Crash
    <3> QED
      BY <1>4, <2>4, <3>1 DEF Crash
  <2> QED
    BY <1>6, <2>1, <2>2, <2>3, <2>4 DEF WorkerFault
<1>7. ASSUME NEW r \in ReplyIds, CleanupTelegramReplyHistory(r) PROVE TypeOK'
  BY <1>7, UnusedType DEF CleanupTelegramReplyHistory
<1>8. ASSUME NEW c \in Chats, ReapSession(c) PROVE TypeOK'
  BY <1>8 DEF ReapSession, ghosts
<1>9. CASE Tick
  <2>1. /\ \A r \in ReplyIds : replies'[r] \in ReplyType
        /\ \A w \in Workers : workers'[w] \in WorkerType
    BY <1>9, TickedRow, TickedWorker
  <2>2. /\ replies' = [r \in ReplyIds |-> replies'[r]]
        /\ workers' = [w \in Workers |-> workers'[w]]
    BY <1>9 DEF Tick
  <2>3. replies' \in [ReplyIds -> ReplyType] /\ workers' \in [Workers -> WorkerType]
    BY <2>1, <2>2
  <2> QED
    BY <1>9, <2>3 DEF Tick, ghosts
<1> QED
  BY <1>1, <1>2, <1>3, <1>5, <1>6, <1>7, <1>8, <1>9 DEF Next

(* What the steps do to the parts of the state the invariant speaks of *)

\* Only worker w moves, and it stays with its claim.
Moves(w, pc) ==
    /\ workers'[w].pc = pc
    /\ workers'[w].reply = workers[w].reply
    /\ workers'[w].attempts = workers[w].attempts
    /\ \A v \in Workers \ {w} : workers'[v] = workers[v]

\* Goto moves the worker and restarts its timeout.
LEMMA GotoMoves ==
    ASSUME TypeOK, NEW w \in Workers, NEW pc, NEW left, Goto(w, pc, left)
    PROVE  /\ Moves(w, pc)
           /\ workers'[w].left = left
           /\ workers'[w].outcome = workers[w].outcome
           /\ workers'[w].stalled = workers[w].stalled
  BY DEF TypeOK, WorkerType, Goto, Moves

\* Decide moves the worker to its mark.
LEMMA DecideMoves ==
    ASSUME TypeOK, NEW w \in Workers, NEW outcome, Decide(w, outcome)
    PROVE  /\ Moves(w, "marking")
           /\ workers'[w].left = MarkTimeout
           /\ workers'[w].outcome = outcome
           /\ workers'[w].stalled = workers[w].stalled
  BY DEF TypeOK, WorkerType, Decide, Moves

-----------------------------------------------------------------------------
(* The invariant is inductive *)

\* Numbers the arithmetic of leases needs.
LEMMA Numbers ==
    ASSUME TypeOK
    PROVE  /\ \A w \in Workers : workers[w].left \in Nat /\ workers[w].attempts \in Nat
           /\ \A r \in ReplyIds : replies[r].claimed_until \in Int /\ replies[r].attempts \in Nat
           /\ \A pc : SendRest(pc) \in Nat
<1>1. \A w \in Workers : workers[w].left \in Nat /\ workers[w].attempts \in Nat
  BY DEF TypeOK, WorkerType
<1>2. \A r \in ReplyIds : replies[r].claimed_until \in Int /\ replies[r].attempts \in Nat
  BY WindowTypes DEF TypeOK, ReplyType
<1>3. \A pc : SendRest(pc) \in Nat
  BY WindowTypes DEF SendRest
<1> QED
  BY <1>1, <1>2, <1>3

\* A step of worker w that leaves rows and locks alone: it goes forward, stays inside the
\* lock only if it is inside, is validated only if its claim is current, and takes from
\* its lease no more than it had set aside.
QuietMove(w, pc) ==
    /\ Moves(w, pc) /\ Busy(w) /\ pc \in Timed
    /\ UNCHANGED <<replies, chatLock>>
    /\ pc = "marking" => workers'[w].outcome # "none"
    /\ pc = "claimed" => workers[w].pc = "claimed"
    /\ pc \in Critical => workers[w].pc \in Critical
    /\ workers[w].pc = "releasing" => pc = "releasing"
    /\ workers[w].pc = "finalizing" => pc \in {"finalizing", "releasing"}
    /\ pc = "finalizing" => workers[w].pc \in {"sending", "finalizing"}
    /\ pc \in Validated => workers[w].pc \in Validated \/ Owns(w)
    /\ \A r \in ReplyIds : disturbed[r] \subseteq disturbed'[r]
    /\ \A r \in ReplyIds : \A a \in accepted'[r] \ disturbed'[r] :
           \/ a \in accepted[r]
           \/ pc = "finalizing" /\ r = workers[w].reply /\ a = workers[w].attempts
    /\ workers[w].pc = "finalizing" /\ pc # "finalizing" =>
           \/ workers[w].attempts \in disturbed'[workers[w].reply]
           \/ ReplyOf(w).status = "sent"
           \/ workers[w].attempts # ReplyOf(w).attempts
    /\ pc = "locked" => workers'[w].left <= ValidationTimeout
    /\ pc \in {"validated", "sending"} /\ ~workers'[w].stalled =>
           \/ /\ workers[w].pc \in {"validated", "sending"} /\ ~workers[w].stalled
              /\ workers'[w].left + SendRest(pc) <= workers[w].left + SendRest(workers[w].pc)
           \/ Owns(w) /\ ReplyOf(w).claimed_until >= workers'[w].left + SendRest(pc)

\* Such a step keeps the fences.
LEMMA QuietMoveKeeps ==
    ASSUME TypeOK, TypeOK', Fences, NEW w \in Workers, NEW pc, QuietMove(w, pc)
    PROVE  Fences'
<1> USE DEF Fences, QuietMove, Moves, ReplyOf
<1>a. workers[w].pc \in Timed /\ pc # "idle" /\ "idle" \notin Timed
  BY DEF TypeOK, WorkerType, Busy, Timed, Critical
<1>b. pc \in Working => workers[w].pc \in Working
  BY <1>a DEF Working, Timed
<1>1. ClaimsExist'
  BY DEF ClaimsExist, Busy, Committed, ChatOf
<1>2. ClaimsDistinct'
  BY DEF ClaimsDistinct, Busy
<1>3. TokenCurrent'
  BY DEF TokenCurrent
<1>4. LockOfOwnChat'
  BY <1>a DEF LockOfOwnChat, Busy, ChatOf
<1>5. CriticalLocked'
  BY DEF CriticalLocked, ClaimsExist, Busy, ChatOf, HoldsLock, Critical
<1>6. LastClaimOpen'
  <2> SUFFICES ASSUME NEW v \in Workers, workers'[v].pc \in Working,
                      workers'[v].attempts = replies'[workers'[v].reply].attempts
               PROVE  \/ replies'[workers'[v].reply].status = "sending"
                      \/ workers'[v].pc = "finalizing" /\ replies'[workers'[v].reply].status = "sent"
    BY DEF LastClaimOpen, Working
  <2>1. CASE v = w
    BY <2>1, <1>b DEF LastClaimOpen, Working, Critical
  <2>2. CASE v # w
    BY <2>2 DEF LastClaimOpen, Working
  <2> QED
    BY <2>1, <2>2
<1>7. ValidatedIsLast'
  BY DEF ValidatedIsLast, Validated, Owns, HoldsLock, ChatOf
<1>8. AcceptedIsLast'
  <2> SUFFICES ASSUME NEW r \in ReplyIds, NEW a \in accepted'[r] \ disturbed'[r]
               PROVE  /\ a = replies'[r].attempts
                      /\ \/ replies'[r].status = "sent"
                         \/ \E v \in Workers : /\ workers'[v].pc = "finalizing"
                                               /\ workers'[v].reply = r /\ workers'[v].attempts = a
    BY DEF AcceptedIsLast
  <2>1. CASE a \in accepted[r]
    <3>1. a \in accepted[r] \ disturbed[r]
      BY <2>1
    <3>2. /\ a = replies[r].attempts
          /\ \/ replies[r].status = "sent"
             \/ \E v \in Workers : /\ workers[v].pc = "finalizing"
                                   /\ workers[v].reply = r /\ workers[v].attempts = a
      BY <3>1 DEF AcceptedIsLast
    <3> QED
      BY <3>2
  <2>2. CASE pc = "finalizing" /\ r = workers[w].reply /\ a = workers[w].attempts
    <3>1. workers[w].pc \in {"sending", "finalizing"} /\ a \notin disturbed[r]
      BY <2>2
    <3>2. HoldsLock(w)
      BY <2>2, <3>1 DEF CriticalLocked, Critical
    <3>3. a = replies[r].attempts
      BY <2>2, <3>1, <3>2 DEF ValidatedIsLast, Validated
    <3> QED
      BY <2>2, <3>3
  <2> QED
    BY <2>1, <2>2
<1>9. LeaseCoversSend'
  <2> USE Numbers
  <2>1. ASSUME NEW v \in Workers, workers'[v].pc = "locked"
        PROVE  workers'[v].left <= ValidationTimeout
    BY <2>1 DEF LeaseCoversSend, SendRest
  <2>2. ASSUME NEW v \in Workers, workers'[v].pc \in {"validated", "sending"}, ~workers'[v].stalled
        PROVE  /\ workers'[v].attempts = replies'[workers'[v].reply].attempts
               /\ replies'[workers'[v].reply].status = "sending"
                  => replies'[workers'[v].reply].claimed_until >= workers'[v].left + SendRest(workers'[v].pc)
    <3>1. CASE v = w
      <4>0. workers'[w].left \in Nat /\ workers[w].reply \in ReplyIds
        BY DEF TypeOK, WorkerType, ClaimsExist
      <4>1. CASE Owns(w) /\ ReplyOf(w).claimed_until >= workers'[w].left + SendRest(pc)
        BY <3>1, <4>1 DEF Owns
      <4>2. CASE /\ workers[w].pc \in {"validated", "sending"} /\ ~workers[w].stalled
                 /\ workers'[w].left + SendRest(pc) <= workers[w].left + SendRest(workers[w].pc)
        <5>1. /\ workers[w].attempts = replies[workers[w].reply].attempts
              /\ replies[workers[w].reply].status = "sending"
                 => replies[workers[w].reply].claimed_until >= workers[w].left + SendRest(workers[w].pc)
          BY <4>2 DEF LeaseCoversSend, SendRest
        <5> QED
          BY <3>1, <4>0, <4>2, <5>1
      <4> QED
        BY <2>2, <3>1, <4>1, <4>2
    <3>2. CASE v # w
      BY <2>2, <3>2 DEF LeaseCoversSend, SendRest
    <3> QED
      BY <3>1, <3>2
  <2> QED
    BY <2>1, <2>2 DEF LeaseCoversSend, SendRest
<1> QED
  BY <1>1, <1>2, <1>3, <1>4, <1>5, <1>6, <1>7, <1>8, <1>9

\* What a step of an update worker or of retention may do to one row: nothing, insert, commit
\* or roll back one nobody sees yet, or delete one no worker refers to.
RowStep(r) ==
    \/ /\ replies'[r] = replies[r]
       /\ UNCHANGED <<accepted[r], disturbed[r]>>
    \/ /\ ~Committed(r) /\ replies'[r].status # "sending"
       /\ UNCHANGED <<accepted[r], disturbed[r]>>
    \/ /\ \A w \in Workers : workers[w].reply # r
       /\ replies'[r].status = "removed" /\ accepted'[r] = {}

\* A step that leaves the workers and their locks alone.
RowSteps ==
    /\ workers' = workers
    /\ \A c \in Chats, w \in Workers : (chatLock'[c] = w) <=> (chatLock[c] = w)
    /\ \A r \in ReplyIds : RowStep(r)

\* Such a step keeps the fences.
LEMMA RowStepsKeep == ASSUME TypeOK, Fences, RowSteps PROVE Fences'
<1> USE DEF Fences, ReplyOf
<1>0. workers' = workers
  BY DEF RowSteps
<1>a. ASSUME NEW w \in Workers, Busy(w)
      PROVE  LET r == workers[w].reply IN
             /\ r \in ReplyIds /\ replies'[r] = replies[r]
             /\ UNCHANGED <<accepted[r], disturbed[r]>>
  BY <1>a DEF RowSteps, RowStep, ClaimsExist
<1>b. ASSUME NEW w \in Workers, Busy(w) PROVE HoldsLock(w)' <=> HoldsLock(w)
  <2>1. replies[workers[w].reply].chat \in Chats
    BY <1>b DEF ClaimsExist, ChatOf
  <2> QED
    BY <1>0, <1>a, <1>b, <2>1 DEF RowSteps, HoldsLock, ChatOf
<1>1. ClaimsExist'
  BY <1>0, <1>a DEF ClaimsExist, Committed, ChatOf, Busy
<1>2. ClaimsDistinct'
  BY <1>0 DEF ClaimsDistinct, Busy
<1>3. TokenCurrent'
  BY DEF TokenCurrent, RowSteps, RowStep
<1>4. LockOfOwnChat'
  BY <1>0, <1>a DEF LockOfOwnChat, RowSteps, ChatOf, Busy
<1>5. CriticalLocked'
  BY <1>0, <1>a, <1>b DEF CriticalLocked, Busy, Critical
<1>6. LastClaimOpen'
  BY <1>0, <1>a DEF LastClaimOpen, Busy, Working, Critical
<1>7. ValidatedIsLast'
  BY <1>0, <1>a, <1>b DEF ValidatedIsLast, Busy, Validated
<1>8. AcceptedIsLast'
  <2> SUFFICES ASSUME NEW r \in ReplyIds, NEW a \in accepted'[r] \ disturbed'[r]
               PROVE  /\ a = replies'[r].attempts
                      /\ \/ replies'[r].status = "sent"
                         \/ \E v \in Workers : /\ workers[v].pc = "finalizing"
                                               /\ workers[v].reply = r /\ workers[v].attempts = a
    BY <1>0 DEF AcceptedIsLast
  <2>1. RowStep(r) /\ accepted'[r] # {}
    BY DEF RowSteps
  <2>2. accepted'[r] = accepted[r] /\ disturbed'[r] = disturbed[r]
    BY <2>1 DEF RowStep
  <2>3. /\ a = replies[r].attempts
        /\ \/ replies[r].status = "sent"
           \/ \E v \in Workers : /\ workers[v].pc = "finalizing"
                                 /\ workers[v].reply = r /\ workers[v].attempts = a
    BY <2>2 DEF AcceptedIsLast
  <2>4. Committed(r)
    BY <2>3 DEF ClaimsExist, Busy, Committed, TerminalStatus
  <2> QED
    BY <2>1, <2>3, <2>4 DEF RowStep
<1>9. LeaseCoversSend'
  BY <1>0, <1>a DEF LeaseCoversSend, Busy
<1> QED
  BY <1>1, <1>2, <1>3, <1>4, <1>5, <1>6, <1>7, <1>8, <1>9

\* Worker w stops, which is a doubt unless its outcome is settled, and its lock goes to
\* nobody else.
Stops(w) ==
    /\ workers'[w] = IdleWorker
    /\ \A v \in Workers \ {w} : workers'[v] = workers[v]
    /\ replies' = replies
    /\ \A c \in Chats : /\ chatLock[c] # w => chatLock'[c] = chatLock[c]
                        /\ chatLock[c] = w => chatLock'[c] \notin Workers
    /\ \A r \in ReplyIds : disturbed[r] \subseteq disturbed'[r]
    /\ \A r \in ReplyIds : accepted'[r] \ disturbed'[r] \subseteq accepted[r]
    /\ workers[w].pc = "finalizing" => workers[w].attempts \in disturbed'[workers[w].reply]

\* A worker that stops keeps the fences.
LEMMA StopsKeeps ==
    ASSUME TypeOK, Fences, NEW w \in Workers, Stops(w)
    PROVE  Fences'
<1> USE DEF Fences, ReplyOf, Stops
<1>a. workers'[w].pc = "idle"
  BY DEF IdleWorker
<1>b. ASSUME NEW v \in Workers, v # w, Busy(v) PROVE HoldsLock(v)' <=> HoldsLock(v)
  <2>1. replies[workers[v].reply].chat \in Chats
    BY <1>b DEF ClaimsExist, ChatOf
  <2> QED
    BY <1>b, <2>1 DEF HoldsLock, ChatOf
<1>1. ClaimsExist'
  BY <1>a DEF ClaimsExist, Busy, Committed, ChatOf
<1>2. ClaimsDistinct'
  BY <1>a DEF ClaimsDistinct, Busy
<1>3. TokenCurrent'
  BY DEF TokenCurrent
<1>4. LockOfOwnChat'
  BY <1>a DEF LockOfOwnChat, ChatOf, Busy
<1>5. CriticalLocked'
  BY <1>a, <1>b DEF CriticalLocked, Busy, Critical, ClaimsExist
<1>6. LastClaimOpen'
  BY <1>a DEF LastClaimOpen, Working, Critical
<1>7. ValidatedIsLast'
  BY <1>a, <1>b DEF ValidatedIsLast, Busy, Validated
<1>8. AcceptedIsLast'
  <2> SUFFICES ASSUME NEW r \in ReplyIds, NEW a \in accepted'[r] \ disturbed'[r]
               PROVE  /\ a = replies[r].attempts
                      /\ \/ replies[r].status = "sent"
                         \/ \E v \in Workers : /\ workers'[v].pc = "finalizing"
                                               /\ workers'[v].reply = r /\ workers'[v].attempts = a
    BY DEF AcceptedIsLast
  <2>1. a \in accepted[r] \ disturbed[r]
    OBVIOUS
  <2>2. /\ a = replies[r].attempts
        /\ \/ replies[r].status = "sent"
           \/ \E v \in Workers : /\ workers[v].pc = "finalizing"
                                 /\ workers[v].reply = r /\ workers[v].attempts = a
    BY <2>1 DEF AcceptedIsLast
  <2> QED
    BY <2>2
<1>9. LeaseCoversSend'
  BY <1>a DEF LeaseCoversSend, SendRest
<1> QED
  BY <1>1, <1>2, <1>3, <1>4, <1>5, <1>6, <1>7, <1>8, <1>9

\* Taking the free lock of the reply's chat keeps the fences.
LEMMA AcquireKeeps ==
    ASSUME TypeOK, Fences, NEW w \in Workers, AcquireTelegramChatLock(w)
    PROVE  Fences'
<1> DEFINE c == ChatOf(w)
<1>a. Moves(w, "locked") /\ workers'[w].left = ValidationTimeout
      /\ workers'[w].stalled = workers[w].stalled
  BY GotoMoves DEF AcquireTelegramChatLock
<1>b. workers[w].pc = "claimed" /\ UNCHANGED <<replies, accepted, disturbed>>
  BY DEF AcquireTelegramChatLock, ghosts
<1>c. workers[w].reply \in ReplyIds /\ replies[workers[w].reply].chat \in Chats
  BY <1>b DEF Fences, ClaimsExist, Busy, ChatOf, ReplyOf
<1>d. chatLock[c] = "free" /\ chatLock'[c] = w
      /\ \A d \in Chats : d # c => chatLock'[d] = chatLock[d]
  BY <1>c DEF AcquireTelegramChatLock, TypeOK, ChatOf, ReplyOf
<1>e. ASSUME NEW v \in Workers, v # w, Busy(v) PROVE HoldsLock(v)' <=> HoldsLock(v)
  <2>1. replies[workers[v].reply].chat \in Chats /\ v # "free" /\ workers'[v] = workers[v]
    BY <1>a, <1>e, ReplyActorsAssumption DEF Fences, ClaimsExist, Moves, ChatOf, ReplyOf
  <2> QED
    BY <1>b, <1>d, <1>e, <2>1 DEF HoldsLock, ChatOf, ReplyOf
<1>f. HoldsLock(w)'
  BY <1>a, <1>b, <1>d DEF HoldsLock, ChatOf, ReplyOf, Moves
<1> HIDE DEF c
<1> USE DEF Fences, ReplyOf, Moves
<1>1. ClaimsExist'
  BY <1>a, <1>b DEF ClaimsExist, Busy, Committed, ChatOf
<1>2. ClaimsDistinct'
  BY <1>a, <1>b DEF ClaimsDistinct, Busy
<1>3. TokenCurrent'
  BY <1>b DEF TokenCurrent
<1>4. LockOfOwnChat'
  BY <1>a, <1>b, <1>d DEF LockOfOwnChat, ChatOf, Busy, c
<1>5. CriticalLocked'
  BY <1>a, <1>b, <1>e, <1>f DEF CriticalLocked, Busy, Critical
<1>6. LastClaimOpen'
  BY <1>a, <1>b DEF LastClaimOpen, Working, Critical
<1>7. ValidatedIsLast'
  BY <1>a, <1>b, <1>e DEF ValidatedIsLast, Busy, Validated
<1>8. AcceptedIsLast'
  BY <1>a, <1>b DEF AcceptedIsLast
<1>9. LeaseCoversSend'
  BY <1>a, <1>b, WindowTypes DEF LeaseCoversSend, SendRest
<1> QED
  BY <1>1, <1>2, <1>3, <1>4, <1>5, <1>6, <1>7, <1>8, <1>9

\* Losing the lock's session keeps the fences: the claim is in doubt from then on.
LEMMA LoseLockKeeps ==
    ASSUME TypeOK, Fences, NEW w \in Workers, LoseLockSession(w)
    PROVE  Fences'
<1>a. /\ UNCHANGED <<replies, workers, accepted>> /\ Busy(w) /\ chatLock[ChatOf(w)] = w
      /\ chatLock' = [chatLock EXCEPT ![ChatOf(w)] = "free"]
      /\ disturbed' = Record(disturbed, w)
  BY DEF LoseLockSession, Busy, HoldsLock
<1>b. workers[w].reply \in ReplyIds /\ ChatOf(w) \in Chats
  BY <1>a DEF Fences, ClaimsExist, ChatOf, ReplyOf
<1>c. /\ workers[w].attempts \in disturbed'[workers[w].reply]
      /\ \A r \in ReplyIds : disturbed[r] \subseteq disturbed'[r]
  BY <1>a, <1>b DEF Record, TypeOK
<1>d. ASSUME NEW v \in Workers, v # w, Busy(v) PROVE HoldsLock(v)' <=> HoldsLock(v)
  <2>1. ChatOf(v) \in Chats /\ v # "free"
    BY <1>d, ReplyActorsAssumption DEF Fences, ClaimsExist, ChatOf, ReplyOf
  <2> QED
    BY <1>a, <1>b, <1>d, <2>1 DEF HoldsLock, ChatOf, ReplyOf, TypeOK
<1>e. \A v \in Workers, d \in Chats : chatLock'[d] = v => chatLock[d] = v
  BY <1>a, <1>b, ReplyActorsAssumption DEF TypeOK
<1>f. HoldsLock(w)' => HoldsLock(w)
  BY <1>a DEF HoldsLock
<1> USE DEF Fences, ReplyOf
<1>1. ClaimsExist' /\ ClaimsDistinct' /\ TokenCurrent' /\ LastClaimOpen'
  BY <1>a DEF ClaimsExist, ClaimsDistinct, TokenCurrent, LastClaimOpen, Busy, Committed, ChatOf
<1>2. LockOfOwnChat'
  BY <1>a, <1>e DEF LockOfOwnChat, ChatOf, Busy
<1>3. CriticalLocked'
  BY <1>a, <1>c, <1>d DEF CriticalLocked, Busy, Critical, ClaimsExist
<1>4. ValidatedIsLast'
  BY <1>a, <1>d, <1>f DEF ValidatedIsLast, Busy, Validated
<1>5. AcceptedIsLast'
  BY <1>a, <1>c DEF AcceptedIsLast
<1>6. LeaseCoversSend'
  BY <1>a DEF LeaseCoversSend, SendRest
<1> QED
  BY <1>1, <1>2, <1>3, <1>4, <1>5, <1>6

\* Worker w writes its outcome with a current claim, and goes on.
Writes(w, status, pc) ==
    LET r == workers[w].reply IN
    /\ Owns(w) /\ Moves(w, pc)
    /\ replies'[r].status = status /\ replies'[r].attempts = replies[r].attempts /\ replies'[r].chat = replies[r].chat
    /\ \A q \in ReplyIds \ {r} : replies'[q] = replies[q]
    /\ UNCHANGED <<chatLock, accepted, disturbed>>
    /\ \/ /\ workers[w].pc = "marking" /\ pc = "releasing"
          /\ status \in {"pending", "failed"}
       \/ /\ workers[w].pc = "finalizing" /\ pc \in {"releasing", "finalizing"}
          /\ status = "sent"

\* Writing an outcome keeps the fences.
LEMMA WritesKeeps ==
    ASSUME TypeOK, Fences, NEW w \in Workers, NEW status, NEW pc, Writes(w, status, pc)
    PROVE  Fences'
<1> DEFINE r == workers[w].reply
<1>a. Busy(w) /\ r \in ReplyIds /\ workers[w].attempts = replies[r].attempts /\ replies[r].status = "sending"
  BY DEF Writes, Fences, ClaimsExist, Busy, Owns, ReplyOf
<1>b. ASSUME NEW v \in Workers, v # w, Busy(v)
      PROVE  /\ workers[v].reply \in ReplyIds /\ workers'[v] = workers[v]
             /\ workers[v].reply = r => workers[v].attempts # replies[r].attempts
             /\ workers[v].reply # r => replies'[workers[v].reply] = replies[workers[v].reply]
             /\ replies'[workers[v].reply].attempts = replies[workers[v].reply].attempts
             /\ replies'[workers[v].reply].chat = replies[workers[v].reply].chat
             /\ HoldsLock(v)' <=> HoldsLock(v)
  <2>1. workers[v].reply \in ReplyIds /\ workers'[v] = workers[v]
        /\ (workers[v].reply = r => workers[v].attempts # replies[r].attempts)
    BY <1>a, <1>b DEF Fences, ClaimsExist, ClaimsDistinct, Writes, Moves, ReplyOf
  <2> QED
    BY <2>1 DEF Writes, HoldsLock, ChatOf, ReplyOf
<1>c. HoldsLock(w)' <=> HoldsLock(w)
  BY DEF Writes, Moves, HoldsLock, ChatOf, ReplyOf
<1>d. /\ Moves(w, pc) /\ pc \in {"releasing", "finalizing"}
      /\ status # "sending" /\ status \in OpenStatus \cup TerminalStatus
      /\ replies'[r].status = status /\ replies'[r].attempts = replies[r].attempts
      /\ replies'[r].chat = replies[r].chat
      /\ UNCHANGED <<chatLock, accepted, disturbed>>
      /\ (pc = "finalizing" => workers[w].pc = "finalizing" /\ status = "sent")
      /\ \A q \in ReplyIds \ {r} : replies'[q] = replies[q]
      /\ \A v \in Workers \ {w} : workers'[v] = workers[v]
      /\ workers'[w].pc = pc /\ workers'[w].reply = r /\ workers'[w].attempts = workers[w].attempts
  BY DEF Writes, Moves, OpenStatus, TerminalStatus
<1> HIDE DEF r
<1> USE DEF Fences, ReplyOf
<1>1. ClaimsExist'
  <2> SUFFICES ASSUME NEW v \in Workers, workers'[v].pc # "idle"
               PROVE  /\ workers'[v].reply \in ReplyIds
                      /\ replies'[workers'[v].reply].status \in OpenStatus \cup TerminalStatus
                      /\ replies'[workers'[v].reply].chat \in Chats
                      /\ workers'[v].attempts >= 1
                      /\ workers'[v].attempts <= replies'[workers'[v].reply].attempts
                      /\ workers'[v].pc = "marking" => workers'[v].outcome # "none"
    BY DEF ClaimsExist, Busy, Committed, ChatOf
  <2>1. CASE v = w
    BY <2>1, <1>a, <1>d DEF ClaimsExist, Busy, ChatOf, r
  <2>2. CASE v # w
    BY <2>2, <1>b, <1>d DEF ClaimsExist, Busy, Committed, ChatOf
  <2> QED
    BY <2>1, <2>2
<1>2. ClaimsDistinct'
  BY <1>a, <1>d DEF ClaimsDistinct, Busy, r
<1>3. TokenCurrent'
  BY <1>d DEF TokenCurrent
<1>4. LockOfOwnChat'
  <2>1. \A v \in Workers : Busy(v) => Busy(v)' /\ ChatOf(v)' = ChatOf(v)
    BY <1>a, <1>b, <1>d DEF Busy, ChatOf, Writes, r
  <2>2. \A v \in Workers : workers[v].pc # "claimed" => workers'[v].pc # "claimed"
    BY <1>d
  <2> QED
    BY <1>d, <2>1, <2>2 DEF LockOfOwnChat
<1>5. CriticalLocked'
  BY <1>a, <1>b, <1>c, <1>d DEF CriticalLocked, Busy, Critical, r
<1>6. LastClaimOpen'
  BY <1>a, <1>b, <1>d DEF LastClaimOpen, Busy, Working, Critical
<1>7. ValidatedIsLast'
  BY <1>a, <1>b, <1>d DEF ValidatedIsLast, Busy, Validated
<1>8. AcceptedIsLast'
  <2> SUFFICES ASSUME NEW q \in ReplyIds, NEW a \in accepted[q] \ disturbed[q]
               PROVE  /\ a = replies'[q].attempts
                      /\ \/ replies'[q].status = "sent"
                         \/ \E v \in Workers : /\ workers'[v].pc = "finalizing"
                                               /\ workers'[v].reply = q /\ workers'[v].attempts = a
    BY <1>d DEF AcceptedIsLast
  <2>1. /\ a = replies[q].attempts
        /\ \/ replies[q].status = "sent"
           \/ \E v \in Workers : /\ workers[v].pc = "finalizing"
                                 /\ workers[v].reply = q /\ workers[v].attempts = a
    BY DEF AcceptedIsLast
  <2>2. CASE q = r
    <3>1. PICK v \in Workers : /\ workers[v].pc = "finalizing"
                               /\ workers[v].reply = r /\ workers[v].attempts = a
      BY <1>a, <2>1, <2>2
    <3>2. v = w
      BY <1>a, <1>b, <2>1, <2>2, <3>1 DEF Busy
    <3> QED
      BY <1>d, <2>1, <2>2, <3>1, <3>2 DEF Writes
  <2>3. CASE q # r
    <3>1. replies'[q] = replies[q]
      BY <1>d, <2>3
    <3> QED
      BY <1>d, <2>1, <2>3, <3>1 DEF r
  <2> QED
    BY <2>2, <2>3
<1>9. LeaseCoversSend'
  BY <1>a, <1>b, <1>d DEF LeaseCoversSend, Busy
<1> QED
  BY <1>1, <1>2, <1>3, <1>4, <1>5, <1>6, <1>7, <1>8, <1>9

\* A claim keeps the fences: what it takes is nobody's, or the lease of a worker that was
\* paused or has lost its lock.
LEMMA ClaimKeeps ==
    ASSUME TypeOK, Fences, Rows, NEW w \in Workers, NEW r \in ReplyIds, ClaimPendingTelegramReply(w, r)
    PROVE  Fences'
<1> DEFINE n == replies[r].attempts + 1
<1>a. /\ workers[w].pc = "idle"
      /\ replies[r].status = "pending" \/ (replies[r].status = "sending" /\ replies[r].claimed_until = -1)
      /\ chatLock[replies[r].chat] = "free"
      /\ UNCHANGED <<chatLock, accepted, disturbed>>
  BY DEF ClaimPendingTelegramReply, Claimable, IsOpen, OpenStatus, ghosts
<1>b. /\ replies'[r].status = "sending" /\ replies'[r].attempts = n /\ replies'[r].claim_token = n
      /\ replies'[r].claimed_until = ClaimWindow /\ replies'[r].chat = replies[r].chat
      /\ \A q \in ReplyIds \ {r} : replies'[q] = replies[q]
  BY ClaimedRow
<1>c. /\ workers'[w].pc = "claimed" /\ workers'[w].reply = r /\ workers'[w].attempts = n
      /\ workers'[w].left = LockTimeout /\ ~workers'[w].stalled
      /\ \A v \in Workers \ {w} : workers'[v] = workers[v]
  BY DEF ClaimPendingTelegramReply, TypeOK, IdleWorker
<1>d. replies[r].attempts \in Nat /\ n \in Nat /\ n >= 1 /\ n > replies[r].attempts
  BY Numbers
<1> HIDE DEF n
<1> USE DEF Fences, ReplyOf
<1>e. ASSUME NEW v \in Workers, v # w, Busy(v)
      PROVE  /\ workers'[v] = workers[v] /\ workers[v].reply \in ReplyIds
             /\ workers[v].attempts <= replies[workers[v].reply].attempts /\ workers[v].attempts \in Nat
             /\ workers[v].attempts # n \/ workers[v].reply # r
             /\ HoldsLock(v)' <=> HoldsLock(v)
             /\ workers[v].reply = r => ~HoldsLock(v)
             /\ workers[v].reply # r => replies'[workers[v].reply] = replies[workers[v].reply]
  <2>1. /\ workers'[v] = workers[v] /\ workers[v].reply \in ReplyIds
        /\ workers[v].attempts <= replies[workers[v].reply].attempts /\ workers[v].attempts \in Nat
    BY <1>c, <1>e, Numbers DEF ClaimsExist
  <2>2. replies'[workers[v].reply].chat = replies[workers[v].reply].chat
    BY <1>b, <2>1
  <2>3. HoldsLock(v)' <=> HoldsLock(v)
    BY <1>a, <2>1, <2>2 DEF HoldsLock, ChatOf
  <2>4. workers[v].reply = r => ~HoldsLock(v)
    BY <1>a, ReplyActorsAssumption DEF HoldsLock, ChatOf
  <2> QED
    BY <1>b, <1>d, <2>1, <2>3, <2>4
<1>f. ASSUME NEW v \in Workers, v # w, workers[v].pc \in Working, workers[v].reply = r,
             workers[v].attempts = replies[r].attempts
      PROVE  replies[r].status = "sending" /\ replies[r].claimed_until = -1
  BY <1>a, <1>f DEF LastClaimOpen, Working
<1>1. ClaimsExist'
  <2> SUFFICES ASSUME NEW v \in Workers, workers'[v].pc # "idle"
               PROVE  /\ workers'[v].reply \in ReplyIds
                      /\ replies'[workers'[v].reply].status \in OpenStatus \cup TerminalStatus
                      /\ replies'[workers'[v].reply].chat \in Chats
                      /\ workers'[v].attempts >= 1
                      /\ workers'[v].attempts <= replies'[workers'[v].reply].attempts
                      /\ workers'[v].pc = "marking" => workers'[v].outcome # "none"
    BY DEF ClaimsExist, Busy, Committed, ChatOf
  <2>1. CASE v = w
    <3>1. replies[r].chat \in Chats /\ "sending" \in OpenStatus
      BY <1>a DEF Rows, Committed, OpenStatus
    <3> QED
      BY <2>1, <3>1, <1>b, <1>c, <1>d
  <2>2. CASE v # w
    <3>1. /\ Busy(v) /\ workers'[v] = workers[v] /\ workers[v].reply \in ReplyIds
          /\ workers[v].attempts \in Nat
      BY <2>2, <1>c, <1>e DEF Busy
    <3>2. /\ replies[workers[v].reply].status \in OpenStatus \cup TerminalStatus
          /\ replies[workers[v].reply].chat \in Chats
          /\ workers[v].attempts >= 1 /\ workers[v].attempts <= replies[workers[v].reply].attempts
          /\ workers[v].pc = "marking" => workers[v].outcome # "none"
      BY <3>1 DEF ClaimsExist, Committed, ChatOf
    <3>3. CASE workers[v].reply = r
      BY <3>1, <3>2, <3>3, <1>b, <1>d DEF OpenStatus
    <3>4. CASE workers[v].reply # r
      BY <3>1, <3>2, <3>4, <1>b
    <3> QED
      BY <3>3, <3>4
  <2> QED
    BY <2>1, <2>2
<1>2. ClaimsDistinct'
  <2> SUFFICES ASSUME NEW u \in Workers, NEW v \in Workers, u # v, Busy(u)', Busy(v)',
                      workers'[u].reply = workers'[v].reply
               PROVE  workers'[u].attempts # workers'[v].attempts
    BY DEF ClaimsDistinct
  <2>1. CASE u = w \/ v = w
    BY <2>1, <1>c, <1>e DEF Busy
  <2>2. CASE u # w /\ v # w
    BY <2>2, <1>c DEF ClaimsDistinct, Busy
  <2> QED
    BY <2>1, <2>2
<1>3. TokenCurrent'
  BY <1>b DEF TokenCurrent
<1>4. LockOfOwnChat'
  <2> SUFFICES ASSUME NEW c \in Chats, NEW v \in Workers, chatLock[c] = v
               PROVE  Busy(v)' /\ workers'[v].pc # "claimed" /\ ChatOf(v)' = c
    BY <1>a DEF LockOfOwnChat
  <2>1. Busy(v) /\ workers[v].pc # "claimed" /\ ChatOf(v) = c
    BY DEF LockOfOwnChat
  <2>2. v # w
    BY <1>a, <2>1 DEF Busy
  <2> QED
    BY <1>b, <1>e, <2>1, <2>2 DEF Busy, ChatOf
<1>5. CriticalLocked'
  <2> SUFFICES ASSUME NEW v \in Workers, workers'[v].pc \in Critical
               PROVE  HoldsLock(v)' \/ workers'[v].attempts \in disturbed'[workers'[v].reply]
    BY DEF CriticalLocked
  <2>1. v # w
    BY <1>c DEF Critical
  <2> QED
    BY <1>a, <1>c, <1>e, <2>1 DEF CriticalLocked, Busy, Critical
<1>6. LastClaimOpen'
  <2> SUFFICES ASSUME NEW v \in Workers, workers'[v].pc \in Working,
                      workers'[v].attempts = replies'[workers'[v].reply].attempts
               PROVE  \/ replies'[workers'[v].reply].status = "sending"
                      \/ workers'[v].pc = "finalizing" /\ replies'[workers'[v].reply].status = "sent"
    BY DEF LastClaimOpen, Working
  <2>1. CASE workers'[v].reply = r
    BY <2>1, <1>b
  <2>2. CASE workers'[v].reply # r
    BY <2>2, <1>c, <1>e DEF LastClaimOpen, Working, Busy, Critical
  <2> QED
    BY <2>1, <2>2
<1>7. ValidatedIsLast'
  <2> SUFFICES ASSUME NEW v \in Workers, workers'[v].pc \in Validated, HoldsLock(v)'
               PROVE  workers'[v].attempts = replies'[workers'[v].reply].attempts
    BY DEF ValidatedIsLast, Validated
  <2>1. v # w
    BY <1>c DEF Validated
  <2> QED
    BY <1>c, <1>e, <2>1 DEF ValidatedIsLast, Validated, Busy
<1>8. AcceptedIsLast'
  <2> SUFFICES ASSUME NEW q \in ReplyIds, NEW a \in accepted[q] \ disturbed[q]
               PROVE  /\ a = replies'[q].attempts
                      /\ \/ replies'[q].status = "sent"
                         \/ \E v \in Workers : /\ workers'[v].pc = "finalizing"
                                               /\ workers'[v].reply = q /\ workers'[v].attempts = a
    BY <1>a DEF AcceptedIsLast
  <2>1. /\ a = replies[q].attempts
        /\ \/ replies[q].status = "sent"
           \/ \E v \in Workers : /\ workers[v].pc = "finalizing"
                                 /\ workers[v].reply = q /\ workers[v].attempts = a
    BY DEF AcceptedIsLast
  <2>2. ASSUME NEW v \in Workers, workers[v].pc = "finalizing", workers[v].reply = q, workers[v].attempts = a
        PROVE  v # w /\ HoldsLock(v)
    BY <2>2, <1>a DEF CriticalLocked, Critical
  <2>3. q # r
    BY <2>1, <2>2, <1>a, <1>e DEF Busy
  <2>4. replies'[q] = replies[q]
    BY <2>3, <1>b
  <2> QED
    BY <2>1, <2>2, <2>4, <1>c
<1>9. LeaseCoversSend'
  <2>1. ASSUME NEW v \in Workers, workers'[v].pc = "locked"
        PROVE  workers'[v].left <= ValidationTimeout
    BY <2>1, <1>c DEF LeaseCoversSend, SendRest
  <2>2. ASSUME NEW v \in Workers, workers'[v].pc \in {"validated", "sending"}, ~workers'[v].stalled
        PROVE  /\ workers'[v].attempts = replies'[workers'[v].reply].attempts
               /\ replies'[workers'[v].reply].status = "sending"
                  => replies'[workers'[v].reply].claimed_until >= workers'[v].left + SendRest(workers'[v].pc)
    <3>1. v # w /\ workers'[v] = workers[v] /\ Busy(v) /\ workers[v].pc \in Working
      BY <2>2, <1>c DEF Busy, Working, Critical
    <3>2. /\ workers[v].attempts = replies[workers[v].reply].attempts
          /\ replies[workers[v].reply].status = "sending"
             => replies[workers[v].reply].claimed_until >= workers[v].left + SendRest(workers[v].pc)
      BY <2>2, <3>1 DEF LeaseCoversSend, SendRest
    <3>3. workers[v].reply # r
      BY <3>1, <3>2, <1>f, Numbers
    <3> QED
      BY <3>1, <3>2, <3>3, <1>e
  <2> QED
    BY <2>1, <2>2 DEF LeaseCoversSend, SendRest
<1> QED
  BY <1>1, <1>2, <1>3, <1>4, <1>5, <1>6, <1>7, <1>8, <1>9

\* A tick keeps the fences: a lease runs down no faster than the timeouts it covers.
LEMMA TickKeeps == ASSUME TypeOK, Fences, Tick PROVE Fences'
<1> USE DEF Fences, ReplyOf
<1>a. UNCHANGED <<chatLock, accepted, disturbed>>
  BY DEF Tick, ghosts
<1>b. \A r \in ReplyIds :
          /\ replies'[r].status = replies[r].status /\ replies'[r].attempts = replies[r].attempts
          /\ replies'[r].chat = replies[r].chat /\ replies'[r].claim_token = replies[r].claim_token
          /\ replies'[r].claimed_until = Down(replies[r].claimed_until, -1)
  BY DEF Tick, TypeOK, ReplyType
<1>c. \A w \in Workers :
          /\ workers'[w].pc = workers[w].pc /\ workers'[w].reply = workers[w].reply
          /\ workers'[w].attempts = workers[w].attempts /\ workers'[w].outcome = workers[w].outcome
          /\ workers'[w].stalled = workers[w].stalled
          /\ workers'[w].left = Down(workers[w].left, 0)
  BY DEF Tick, TypeOK, WorkerType
<1>d. \A w \in Workers : Busy(w) => workers[w].reply \in ReplyIds
  BY DEF ClaimsExist
<1>e. \A w \in Workers : Busy(w) => (HoldsLock(w)' <=> HoldsLock(w))
  BY <1>a, <1>b, <1>c, <1>d DEF HoldsLock, ChatOf
<1>f. \A w \in Workers : workers[w].pc \in Working /\ ~workers[w].stalled => workers[w].left > 0
  BY DEF Tick, Working, Timed
<1>g. \A until \in Int, left, rest \in Nat :
          until >= left + rest /\ left > 0 => Down(until, -1) >= Down(left, 0) + rest
  BY DEF Down
<1>1. ClaimsExist'
  BY <1>b, <1>c DEF ClaimsExist, Busy, Committed, ChatOf
<1>2. ClaimsDistinct'
  BY <1>c DEF ClaimsDistinct, Busy
<1>3. TokenCurrent'
  BY <1>b DEF TokenCurrent
<1>4. LockOfOwnChat'
  BY <1>a, <1>b, <1>c, <1>d DEF LockOfOwnChat, ChatOf, Busy
<1>5. CriticalLocked'
  BY <1>a, <1>c, <1>e DEF CriticalLocked, Busy, Critical
<1>6. LastClaimOpen'
  BY <1>b, <1>c, <1>d DEF LastClaimOpen, Busy, Working, Critical
<1>7. ValidatedIsLast'
  BY <1>b, <1>c, <1>d, <1>e DEF ValidatedIsLast, Busy, Validated
<1>8. AcceptedIsLast'
  BY <1>a, <1>b, <1>c DEF AcceptedIsLast
<1>9. LeaseCoversSend'
  <2>1. ASSUME NEW v \in Workers, workers[v].pc = "locked"
        PROVE  workers'[v].left <= ValidationTimeout
    BY <2>1, <1>c, Numbers, WindowTypes DEF LeaseCoversSend, Down
  <2>2. ASSUME NEW v \in Workers, workers[v].pc \in {"validated", "sending"}, ~workers[v].stalled
        PROVE  LET r == workers[v].reply IN
               /\ workers[v].attempts = replies[r].attempts
               /\ replies[r].status = "sending"
                  => replies'[r].claimed_until >= workers'[v].left + SendRest(workers[v].pc)
    <3>1. /\ workers[v].attempts = replies[workers[v].reply].attempts
          /\ replies[workers[v].reply].status = "sending"
             => replies[workers[v].reply].claimed_until >= workers[v].left + SendRest(workers[v].pc)
      BY <2>2 DEF LeaseCoversSend, SendRest
    <3>2. workers[v].reply \in ReplyIds /\ workers[v].left > 0
      BY <2>2, <1>d, <1>f DEF Busy, Working, Critical
    <3> QED
      BY <1>b, <1>c, <1>g, <3>1, <3>2, Numbers
  <2> QED
    BY <2>1, <2>2, <1>b, <1>c, <1>d DEF LeaseCoversSend, SendRest, Busy
<1> QED
  BY <1>1, <1>2, <1>3, <1>4, <1>5, <1>6, <1>7, <1>8, <1>9

\* A step of a reply worker keeps the fences.
LEMMA WorkerStepKeeps ==
    ASSUME TypeOK, TypeOK', Fences, NEW w \in Workers, WorkerStep(w)
    PROVE  Fences'
<1> USE WindowTypes
<1>a. \A pc : QuietMove(w, pc) => Fences'
  BY QuietMoveKeeps
<1>b. /\ workers[w].left \in Nat /\ SafetyWindow \in Nat
      /\ \A pc : SendRest(pc) \in Nat
  BY Numbers
<1>c. Busy(w) => workers[w].reply \in ReplyIds
  BY DEF Fences, ClaimsExist
<1>1. CASE AcquireTelegramChatLock(w)
  BY <1>1, AcquireKeeps
<1>2. CASE DeferTelegramReply(w)
  <2>1. QuietMove(w, "marking")
    BY <1>2, DecideMoves
    DEF DeferTelegramReply, RetryOrFail, QuietMove, Busy, Timed, Critical, Validated, ghosts
  <2> QED
    BY <1>a, <2>1
<1>3. CASE EnsureTelegramReplyClaimCurrent(w)
  <2>0. workers[w].pc = "locked" /\ UNCHANGED <<replies, chatLock, accepted, disturbed>>
    BY <1>3 DEF EnsureTelegramReplyClaimCurrent, ghosts
  <2>1. CASE ClaimCurrent(w)
    <3>1. Moves(w, "validated") /\ workers'[w].left = workers[w].left
      BY <1>3, <2>1 DEF EnsureTelegramReplyClaimCurrent, Moves, TypeOK, WorkerType
    <3>2. ReplyOf(w).claimed_until >= workers[w].left + SendRest("validated")
      <4>1. workers[w].left <= ValidationTimeout
        BY <2>0 DEF Fences, LeaseCoversSend
      <4>2. ReplyOf(w).claimed_until > SafetyWindow /\ ReplyOf(w).claimed_until \in Int
        BY <2>0, <2>1, <1>c, Numbers DEF ClaimCurrent, ReplyOf, Busy
      <4> QED
        BY <1>b, <4>1, <4>2, ReplySafetyWindowAssumption DEF SendRest
    <3>3. QuietMove(w, "validated")
      BY <2>0, <2>1, <1>b, <3>1, <3>2 DEF ClaimCurrent, QuietMove, Busy, Timed, Critical, Validated
    <3> QED
      BY <1>a, <3>3
  <2>2. CASE ~ClaimCurrent(w)
    <3>1. Goto(w, "releasing", MarkTimeout)
      BY <1>3, <2>2 DEF EnsureTelegramReplyClaimCurrent
    <3>2. QuietMove(w, "releasing")
      BY <2>0, <3>1, GotoMoves DEF QuietMove, Busy, Timed, Critical, Validated
    <3> QED
      BY <1>a, <3>2
  <2> QED
    BY <2>1, <2>2
<1>4. CASE BeginSend(w)
  <2>1. SendTimeout + SendRest("sending") <= workers[w].left + SendRest("validated")
    BY <1>b DEF SendRest
  <2>2. Goto(w, "sending", SendTimeout) /\ workers[w].pc = "validated"
        /\ UNCHANGED <<replies, chatLock, accepted, disturbed>>
    BY <1>4 DEF BeginSend, ghosts
  <2>3. QuietMove(w, "sending")
    BY <1>b, <2>1, <2>2, GotoMoves DEF QuietMove, Busy, Timed, Critical, Validated
  <2> QED
    BY <1>a, <2>3
<1>5. CASE SendAccepted(w) \/ SendNotModified(w)
  <2>1. Goto(w, "finalizing", FinalizationBudget) /\ workers[w].pc = "sending"
        /\ UNCHANGED <<replies, chatLock, disturbed>> /\ accepted' = Record(accepted, w)
    BY <1>5 DEF SendAccepted, SendNotModified, Apply
  <2>2. \A r \in ReplyIds : \A a \in accepted'[r] :
            a \in accepted[r] \/ (r = workers[w].reply /\ a = workers[w].attempts)
    BY <2>1 DEF Record, TypeOK
  <2>3. QuietMove(w, "finalizing")
    BY <1>b, <2>1, <2>2, GotoMoves DEF QuietMove, Busy, Timed, Critical, Validated
  <2> QED
    BY <1>a, <2>3
<1>6. CASE SendRejected(w)
  <2>1. QuietMove(w, "marking")
    BY <1>6, DecideMoves DEF SendRejected, QuietMove, Busy, Timed, Critical, Validated, ghosts
  <2> QED
    BY <1>a, <2>1
<1>7. ASSUME NEW reached \in BOOLEAN, SendFailed(w, reached) PROVE Fences'
  <2>1. workers[w].pc = "sending" /\ Decide(w, RetryOrFail(w)) /\ UNCHANGED <<replies, chatLock>>
    BY <1>7 DEF SendFailed
  <2>2. /\ \A r \in ReplyIds : disturbed[r] \subseteq disturbed'[r]
        /\ \A r \in ReplyIds : \A a \in accepted'[r] \ disturbed'[r] : a \in accepted[r]
    <3>1. CASE reached
      BY <1>7, <2>1, <3>1, <1>c DEF SendFailed, Apply, Record, TypeOK, Busy
    <3>2. CASE ~reached
      BY <1>7, <3>2 DEF SendFailed
    <3> QED
      BY <3>1, <3>2
  <2>3. QuietMove(w, "marking")
    BY <2>1, <2>2, DecideMoves DEF RetryOrFail, QuietMove, Busy, Timed, Critical, Validated
  <2> QED
    BY <1>a, <2>3
<1>8. CASE MarkTelegramReply(w)
  <2>1. /\ workers[w].pc = "marking" /\ WriteOutcome(w, workers[w].outcome)
        /\ Goto(w, "releasing", MarkTimeout) /\ UNCHANGED <<chatLock, accepted, disturbed>>
    BY <1>8 DEF MarkTelegramReply, ghosts
  <2>2. workers[w].outcome \in {"pending", "failed"}
    BY <2>1 DEF Fences, ClaimsExist, Busy, TypeOK, WorkerType
  <2>3. CASE Owns(w)
    <3>1. PICK status \in {"pending", "failed"} : status = workers[w].outcome
      BY <2>2
    <3>2. Writes(w, status, "releasing")
      BY <2>1, <2>3, <3>1, <1>c, GotoMoves, WrittenRow DEF Writes, Busy
    <3> QED
      BY <3>2, WritesKeeps
  <2>4. CASE ~Owns(w)
    <3>1. QuietMove(w, "releasing")
      BY <2>1, <2>4, GotoMoves DEF WriteOutcome, QuietMove, Busy, Timed, Critical, Validated
    <3> QED
      BY <3>1, <1>a
  <2> QED
    BY <2>3, <2>4
<1>9. CASE FinalizeSent(w)
  <2>1. /\ workers[w].pc = "finalizing" /\ WriteOutcome(w, "sent")
        /\ Goto(w, "releasing", MarkTimeout) /\ UNCHANGED <<chatLock, accepted, disturbed>>
    BY <1>9 DEF FinalizeSent, ghosts
  <2>2. CASE Owns(w)
    <3>1. Writes(w, "sent", "releasing")
      BY <2>1, <2>2, <1>c, GotoMoves, WrittenRow DEF Writes, Busy
    <3> QED
      BY <3>1, WritesKeeps
  <2>3. CASE ~Owns(w)
    <3>1. ReplyOf(w).status = "sent" \/ workers[w].attempts # ReplyOf(w).attempts
      BY <2>1, <2>3, <1>c
      DEF Fences, LastClaimOpen, TokenCurrent, Owns, ReplyOf, Busy, Working, Critical
    <3>2. QuietMove(w, "releasing")
      BY <2>1, <2>3, <3>1, GotoMoves DEF WriteOutcome, QuietMove, Busy, Timed, Critical, Validated
    <3> QED
      BY <3>2, <1>a
  <2> QED
    BY <2>2, <2>3
<1>10. ASSUME NEW committed \in BOOLEAN, FinalizeError(w, committed) PROVE Fences'
  <2>1. /\ workers[w].pc = "finalizing" /\ UNCHANGED <<chatLock, accepted, disturbed>>
    BY <1>10 DEF FinalizeError, ghosts
  <2>2. Moves(w, "finalizing") /\ workers'[w].left = workers[w].left
    BY <1>10, <2>1 DEF FinalizeError, Moves, TypeOK, WorkerType
  <2>3. CASE committed
    <3>1. Owns(w) /\ WriteOutcome(w, "sent")
      BY <1>10, <2>3 DEF FinalizeError
    <3>2. Writes(w, "sent", "finalizing")
      BY <2>1, <2>2, <3>1, <1>c, WrittenRow DEF Writes, Busy
    <3> QED
      BY <3>2, WritesKeeps
  <2>4. CASE ~committed
    <3>1. UNCHANGED replies
      BY <1>10, <2>4 DEF FinalizeError
    <3>2. QuietMove(w, "finalizing")
      BY <2>1, <2>2, <3>1, <1>b DEF QuietMove, Busy, Timed, Critical, Validated
    <3> QED
      BY <3>2, <1>a
  <2> QED
    BY <2>3, <2>4
<1>11. CASE ReleaseTelegramChatLock(w)
  <2>1. /\ workers[w].pc = "releasing" /\ UNCHANGED <<replies, accepted, disturbed>>
        /\ workers' = [workers EXCEPT ![w] = IdleWorker]
        /\ chatLock' = IF HoldsLock(w) THEN [chatLock EXCEPT ![ChatOf(w)] = "free"] ELSE chatLock
    BY <1>11 DEF ReleaseTelegramChatLock, ghosts
  <2>2. \A c \in Chats : /\ chatLock[c] # w => chatLock'[c] = chatLock[c]
                         /\ chatLock[c] = w => chatLock'[c] \notin Workers
    BY <2>1, ReplyActorsAssumption DEF Fences, LockOfOwnChat, HoldsLock, TypeOK
  <2>3. Stops(w)
    BY <2>1, <2>2 DEF Stops, TypeOK
  <2> QED
    BY <2>3, StopsKeeps
<1> QED
  BY <1>1, <1>2, <1>3, <1>4, <1>5, <1>6, <1>7, <1>8, <1>9, <1>10, <1>11 DEF WorkerStep

\* A fault of a reply worker keeps the fences.
LEMMA WorkerFaultKeeps ==
    ASSUME TypeOK, TypeOK', Fences, NEW w \in Workers, WorkerFault(w)
    PROVE  Fences'
<1>a. \A pc : QuietMove(w, pc) => Fences'
  BY QuietMoveKeeps
<1>b. Busy(w) => workers[w].reply \in ReplyIds
  BY DEF Fences, ClaimsExist
<1>1. CASE MarkError(w)
  <2>1. QuietMove(w, "releasing")
    BY <1>1, GotoMoves DEF MarkError, QuietMove, Busy, Timed, Critical, Validated, ghosts
  <2> QED
    BY <2>1, <1>a
<1>2. CASE FinalizeGiveUp(w)
  <2>1. /\ workers[w].pc = "finalizing" /\ Goto(w, "releasing", MarkTimeout)
        /\ UNCHANGED <<replies, chatLock, accepted>> /\ disturbed' = Record(disturbed, w)
    BY <1>2 DEF FinalizeGiveUp
  <2>2. /\ \A r \in ReplyIds : disturbed[r] \subseteq disturbed'[r]
        /\ workers[w].attempts \in disturbed'[workers[w].reply]
    BY <2>1, <1>b DEF Record, TypeOK, Busy
  <2>3. QuietMove(w, "releasing")
    BY <2>1, <2>2, GotoMoves DEF QuietMove, Busy, Timed, Critical, Validated
  <2> QED
    BY <2>3, <1>a
<1>3. CASE LoseLockSession(w)
  BY <1>3, LoseLockKeeps
<1>4. CASE Stall(w)
  <2>1. /\ Busy(w) /\ UNCHANGED <<replies, chatLock, accepted, disturbed>>
        /\ Moves(w, workers[w].pc) /\ workers'[w].stalled
        /\ workers'[w].left = workers[w].left /\ workers'[w].outcome = workers[w].outcome
    BY <1>4 DEF Stall, Busy, ghosts, Moves, TypeOK, WorkerType
  <2>2. /\ workers[w].pc \in Timed
        /\ workers[w].pc = "marking" => workers[w].outcome # "none"
        /\ workers[w].pc = "locked" => workers[w].left <= ValidationTimeout
    BY <2>1 DEF Busy, TypeOK, WorkerType, Fences, ClaimsExist, LeaseCoversSend
  <2>3. QuietMove(w, workers[w].pc)
    BY <2>1, <2>2 DEF QuietMove, Validated
  <2> QED
    BY <2>3, <1>a
<1>5. ASSUME NEW reached \in BOOLEAN, Crash(w, reached) PROVE Fences'
  <2>1. /\ Busy(w) /\ UNCHANGED replies /\ workers' = [workers EXCEPT ![w] = IdleWorker]
        /\ chatLock' = IF HoldsLock(w) THEN [chatLock EXCEPT ![ChatOf(w)] = "orphan"] ELSE chatLock
        /\ accepted' \in {accepted, Record(accepted, w)} /\ disturbed' = Record(disturbed, w)
    BY <1>5 DEF Crash, Busy, Apply
  <2>2. \A c \in Chats : /\ chatLock[c] # w => chatLock'[c] = chatLock[c]
                         /\ chatLock[c] = w => chatLock'[c] \notin Workers
    BY <2>1, ReplyActorsAssumption DEF Fences, LockOfOwnChat, HoldsLock, TypeOK
  <2>3. /\ \A r \in ReplyIds : disturbed[r] \subseteq disturbed'[r]
        /\ \A r \in ReplyIds : accepted'[r] \ disturbed'[r] \subseteq accepted[r]
        /\ workers[w].attempts \in disturbed'[workers[w].reply]
    BY <2>1, <1>b DEF Record, TypeOK
  <2>4. Stops(w)
    BY <2>1, <2>2, <2>3 DEF Stops, TypeOK
  <2> QED
    BY <2>4, StopsKeeps
<1> QED
  BY <1>1, <1>2, <1>3, <1>4, <1>5 DEF WorkerFault

\* Every step keeps the fences.
LEMMA FencesStep == ASSUME TypeOK, Fences, Rows, Next PROVE Fences'
<1>0. TypeOK'
  BY TypeStep DEF Fences
<1>1. ASSUME NEW h \in Handlers, HandlerStep(h) PROVE Fences'
  <2>0. h \notin Workers /\ "free" \notin Workers
    BY ReplyActorsAssumption
  <2>1. ASSUME NEW c \in Chats, HandlerBegin(h, c) PROVE RowSteps
    BY <2>0, <2>1 DEF HandlerBegin, RowSteps, RowStep, TypeOK, ghosts
  <2>2. ASSUME NEW operation \in {"send_message", "edit_message"}, InsertReply(h, operation) PROVE RowSteps
    <3>1. PICK r \in ReplyIds : /\ replies[r].status = "unused"
                                /\ replies' = [replies EXCEPT ![r] = NewReply(h, operation)]
      BY <2>2 DEF InsertReply, NewReply
    <3>2. replies'[r].status = "uncommitted" /\ \A q \in ReplyIds \ {r} : replies'[q] = replies[q]
      BY <3>1, NewReplyType DEF TypeOK
    <3> QED
      BY <2>2, <3>1, <3>2
      DEF InsertReply, RowSteps, RowStep, Committed, OpenStatus, TerminalStatus, ghosts
  <2>3. CASE LoseHandlerSession(h)
    <3>1. handlers[h] \in Chats /\ chatLock[handlers[h]] = h
      BY <2>3 DEF LoseHandlerSession, TypeOK
    <3>2. \A c \in Chats, w \in Workers : (chatLock'[c] = w) <=> (chatLock[c] = w)
      BY <2>0, <2>3, <3>1 DEF LoseHandlerSession, TypeOK
    <3>3. UNCHANGED <<replies, workers, accepted, disturbed>>
      BY <2>3 DEF LoseHandlerSession, ghosts
    <3> QED
      BY <3>2, <3>3, RowStepsKeep DEF RowSteps, RowStep
  <2> QED
    BY <1>1, <2>1, <2>2, <2>3, RowStepsKeep DEF HandlerStep
<1>2. ASSUME NEW h \in Handlers, NEW committed \in BOOLEAN, HandlerEnd(h, committed) PROVE Fences'
  <2>0. h \notin Workers /\ "free" \notin Workers
    BY ReplyActorsAssumption
  <2>1. \A c \in Chats, w \in Workers : (chatLock'[c] = w) <=> (chatLock[c] = w)
    BY <1>2, <2>0 DEF HandlerEnd, TypeOK
  <2>2. \A r \in ReplyIds : RowStep(r)
    BY <1>2, EndedRow DEF HandlerEnd, RowStep, Committed, OpenStatus, TerminalStatus
  <2>3. RowSteps
    BY <1>2, <2>1, <2>2 DEF HandlerEnd, RowSteps
  <2> QED
    BY <2>3, RowStepsKeep
<1>3. ASSUME NEW w \in Workers, NEW r \in ReplyIds, ClaimPendingTelegramReply(w, r) PROVE Fences'
  BY <1>3, ClaimKeeps
<1>4. ASSUME NEW w \in Workers, WorkerStep(w) PROVE Fences'
  BY <1>0, <1>4, WorkerStepKeeps
<1>5. ASSUME NEW w \in Workers, WorkerFault(w) PROVE Fences'
  BY <1>0, <1>5, WorkerFaultKeeps
<1>6. ASSUME NEW r \in ReplyIds, CleanupTelegramReplyHistory(r) PROVE Fences'
  <2>1. RemovedReply.status = "removed"
    BY DEF RemovedReply, UnusedReply
  <2>2. RowSteps
    BY <1>6, <2>1 DEF CleanupTelegramReplyHistory, RowSteps, RowStep, TypeOK
  <2> QED
    BY <2>2, RowStepsKeep
<1>7. ASSUME NEW c \in Chats, ReapSession(c) PROVE Fences'
  <2>1. RowSteps
    BY <1>7, ReplyActorsAssumption DEF ReapSession, RowSteps, RowStep, TypeOK, ghosts
  <2> QED
    BY <2>1, RowStepsKeep
<1>8. CASE Tick
  BY <1>8, TickKeeps
<1> QED
  BY <1>1, <1>2, <1>3, <1>4, <1>5, <1>6, <1>7, <1>8 DEF Next

-----------------------------------------------------------------------------
(* The order of a chat's replies is inductive *)

\* Steps that show nothing, insert nothing and commit nothing: rows keep their chats and may
\* end or be deleted, and update workers may only lose their locks.
Settles ==
    /\ handlers' = handlers /\ shown' = shown /\ unserialized' = unserialized
    /\ \A r \in ReplyIds :
          /\ replies'[r].status = "unused" <=> replies[r].status = "unused"
          /\ replies'[r].status = "uncommitted" => replies'[r] = replies[r] \/
                 /\ replies[r].status = "uncommitted" /\ replies'[r].chat = replies[r].chat
                 /\ replies'[r].writer = replies[r].writer
                 /\ replies'[r].attempts = replies[r].attempts
          /\ Committed(r)' =>
                 /\ Committed(r) /\ replies'[r].chat = replies[r].chat
                 /\ replies'[r].attempts = replies[r].attempts
          /\ IsOpen(r)' => IsOpen(r) /\ replies'[r].chat = replies[r].chat
    /\ \A c \in Chats : chatLock'[c] \in Handlers => chatLock'[c] = chatLock[c]

\* Such steps keep the order.
LEMMA SettlesKeeps == ASSUME TypeOK, Order, Settles PROVE Order'
<1> USE DEF Order
<1>1. Rows'
  BY DEF Settles, Rows
<1>2. Drawn'
  <2>1. \A c \in Chats : shown[c] # 0 => shown[c] \in ReplyIds
    BY DEF TypeOK
  <2> QED
    BY <2>1 DEF Settles, Drawn
<1>3. LockedIsLatest'
  <2> SUFFICES ASSUME NEW c \in Chats \ unserialized, NEW r \in ReplyIds,
                      replies'[r].status = "uncommitted", replies'[r].chat = c,
                      chatLock'[c] = replies'[r].writer
               PROVE  /\ \A q \in ReplyIds : Committed(q)' /\ replies'[q].chat = c => q < r
                      /\ shown[c] < r
    BY DEF LockedIsLatest, Settles
  <2>1. /\ replies[r].status = "uncommitted" /\ replies[r].chat = c
        /\ replies[r].writer = replies'[r].writer
    BY DEF Settles
  <2>2. replies[r].writer \in Handlers
    BY <2>1 DEF Rows
  <2>3. chatLock[c] = replies[r].writer
    BY <2>1, <2>2 DEF Settles
  <2>4. /\ \A q \in ReplyIds : Committed(q) /\ replies[q].chat = c => q < r
        /\ shown[c] < r
    BY <2>1, <2>3 DEF LockedIsLatest
  <2> QED
    BY <2>4 DEF Settles
<1>4. ClaimedIsFirst'
  <2> SUFFICES ASSUME NEW c \in Chats \ unserialized, NEW q \in ReplyIds, NEW r \in ReplyIds,
                      Committed(r)', replies'[r].chat = c, replies'[r].attempts >= 1,
                      q < r, replies'[q].chat = c, IsOpen(q)'
               PROVE  FALSE
    BY DEF ClaimedIsFirst, Settles
  <2>1. /\ Committed(r) /\ replies[r].chat = c /\ replies[r].attempts >= 1
        /\ IsOpen(q) /\ replies[q].chat = c
    BY DEF Settles
  <2> QED
    BY <2>1 DEF ClaimedIsFirst
<1>5. NeverOvertaken'
  BY DEF Settles, NeverOvertaken
<1> QED
  BY <1>1, <1>2, <1>3, <1>4, <1>5

\* A row that ends, or waits again, or only ages.
LEMMA SameRow ==
    ASSUME NEW r \in ReplyIds, replies'[r] = replies[r]
    PROVE  /\ Committed(r)' <=> Committed(r)
           /\ IsOpen(r)' <=> IsOpen(r)
  BY DEF Committed, IsOpen

\* Steps that leave the rows and what is shown alone, and give no lock to an update worker,
\* settle.
LEMMA RowsSettle ==
    ASSUME UNCHANGED <<replies, handlers, shown, unserialized>>,
           \A c \in Chats : chatLock'[c] \in Handlers => chatLock'[c] = chatLock[c]
    PROVE  Settles
  BY DEF Settles, Committed, IsOpen

\* Writing an outcome settles.
LEMMA WriteSettles ==
    ASSUME TypeOK, NEW w \in Workers, workers[w].reply \in ReplyIds,
           NEW status \in {"pending", "failed", "sent"}, WriteOutcome(w, status),
           UNCHANGED <<handlers, chatLock, shown, unserialized>>
    PROVE  Settles
<1>1. CASE Owns(w)
  <2>0. PICK r \in ReplyIds : r = workers[w].reply
    OBVIOUS
  <2>1. /\ replies'[r].status = status
        /\ replies'[r].attempts = replies[r].attempts /\ replies'[r].chat = replies[r].chat
        /\ \A q \in ReplyIds \ {r} : replies'[q] = replies[q]
    BY <1>1, <2>0, WrittenRow
  <2>2. replies[r].status = "sending"
    BY <1>1, <2>0 DEF Owns, ReplyOf
  <2>3. Committed(r) /\ IsOpen(r) /\ replies'[r].status # "unused" /\ replies'[r].status # "uncommitted"
    BY <2>1, <2>2 DEF Committed, IsOpen, OpenStatus
  <2> QED
    BY <2>1, <2>2, <2>3, SameRow DEF Settles
<1>2. CASE ~Owns(w)
  BY <1>2, RowsSettle DEF WriteOutcome
<1> QED
  BY <1>1, <1>2

\* What Telegram applies is a claimed reply: it keeps the order.
LEMMA ApplyKeeps ==
    ASSUME TypeOK, ClaimsExist, Order, NEW w \in Workers, workers[w].pc = "sending", Apply(w),
           UNCHANGED <<replies, handlers, unserialized>>,
           \A c \in Chats : chatLock'[c] \in Handlers => chatLock'[c] = chatLock[c]
    PROVE  Order'
<1>0. PICK r \in ReplyIds, d \in Chats : r = workers[w].reply /\ d = ChatOf(w)
  BY DEF ClaimsExist, Busy
<1>1. /\ Committed(r) /\ replies[r].chat = d
      /\ replies[r].attempts >= 1
  <2>1. workers[w].attempts \in Nat /\ replies[r].attempts \in Nat
    BY Numbers
  <2> QED
    BY <1>0, <2>1 DEF ClaimsExist, Busy, ChatOf, ReplyOf
<1>2. shown'[d] = r /\ \A c \in Chats \ {d} : shown'[c] = shown[c]
  BY <1>0 DEF Apply, TypeOK
<1> USE DEF Order
<1>3. Rows' /\ ClaimedIsFirst'
  BY DEF Rows, ClaimedIsFirst, Committed, IsOpen
<1>4. Drawn'
  BY <1>1, <1>2 DEF Drawn, Committed, OpenStatus, TerminalStatus
<1>5. LockedIsLatest'
  <2> SUFFICES ASSUME NEW c \in Chats \ unserialized, NEW p \in ReplyIds,
                      replies[p].status = "uncommitted", replies[p].chat = c,
                      chatLock'[c] = replies[p].writer
               PROVE  /\ \A q \in ReplyIds : Committed(q) /\ replies[q].chat = c => q < p
                      /\ shown'[c] < p
    BY DEF LockedIsLatest, Committed
  <2>1. chatLock[c] = replies[p].writer
    BY DEF Rows
  <2>2. /\ \A q \in ReplyIds : Committed(q) /\ replies[q].chat = c => q < p
        /\ shown[c] < p
    BY <2>1 DEF LockedIsLatest
  <2> QED
    BY <1>1, <1>2, <2>2
<1>6. NeverOvertaken'
  <2> SUFFICES ASSUME NEW c \in Chats \ unserialized, NEW q \in ReplyIds,
                      replies[q].chat = c, q < shown'[c]
               PROVE  ~IsOpen(q)
    BY DEF NeverOvertaken, IsOpen
  <2>1. CASE c = d
    BY <1>1, <1>2, <2>1 DEF ClaimedIsFirst
  <2>2. CASE c # d
    BY <1>2, <2>2 DEF NeverOvertaken
  <2> QED
    BY <2>1, <2>2
<1> QED
  BY <1>3, <1>4, <1>5, <1>6

\* An update worker that takes the free lock has no row yet.
LEMMA BeginKeeps ==
    ASSUME TypeOK, Order, NEW h \in Handlers, NEW c \in Chats, HandlerBegin(h, c)
    PROVE  Order'
<1> USE DEF Order
<1>1. /\ handlers[h] = NoChat /\ UNCHANGED <<replies, shown, unserialized>>
      /\ chatLock'[c] = h /\ \A d \in Chats \ {c} : chatLock'[d] = chatLock[d]
      /\ \A g \in Handlers \ {h} : handlers'[g] = handlers[g]
  BY DEF HandlerBegin, TypeOK, ghosts
<1>2. \A r \in ReplyIds : replies[r].status = "uncommitted" => replies[r].writer # h
  BY <1>1 DEF Rows
<1>3. Rows'
  BY <1>1, <1>2 DEF Rows, Committed
<1>4. Drawn' /\ ClaimedIsFirst' /\ NeverOvertaken'
  BY <1>1 DEF Drawn, ClaimedIsFirst, NeverOvertaken, Committed, IsOpen
<1>5. LockedIsLatest'
  BY <1>1, <1>2 DEF LockedIsLatest, Committed
<1> QED
  BY <1>3, <1>4, <1>5

\* A row is inserted with the sequence's next id, which is later than every other.
LEMMA InsertKeeps ==
    ASSUME TypeOK, Order, NEW h \in Handlers, NEW operation \in {"send_message", "edit_message"},
           InsertReply(h, operation)
    PROVE  Order'
<1> USE DEF Order
<1>1. PICK r \in ReplyIds : /\ replies[r].status = "unused"
                            /\ \A q \in ReplyIds : q < r => replies[q].status # "unused"
                            /\ replies' = [replies EXCEPT ![r] = NewReply(h, operation)]
  BY DEF InsertReply, NewReply
<1>2. /\ handlers[h] # NoChat /\ UNCHANGED <<handlers, chatLock, shown, unserialized>>
  BY DEF InsertReply, ghosts
<1>3. /\ replies'[r].status = "uncommitted" /\ replies'[r].chat = handlers[h]
      /\ replies'[r].writer = h /\ replies'[r].attempts = 0
      /\ \A q \in ReplyIds \ {r} : replies'[q] = replies[q]
  BY <1>1, NewReplyType DEF TypeOK
<1>4. \A q \in ReplyIds : q \in Nat /\ q > 0
  BY ReplyIdsAssumption
<1>5. \A q \in ReplyIds : replies[q].status # "unused" => q < r
  BY <1>1, <1>4 DEF Drawn
<1>6. \A q \in ReplyIds : /\ Committed(q)' <=> Committed(q)
                          /\ IsOpen(q)' <=> IsOpen(q)
                          /\ Committed(q) => q # r
  BY <1>1, <1>3 DEF Committed, IsOpen, OpenStatus, TerminalStatus
<1>7. \A q \in ReplyIds : IsOpen(q) => Committed(q)
  BY DEF IsOpen, Committed
<1>8. \A c \in Chats : shown[c] < r
  <2> SUFFICES ASSUME NEW c \in Chats PROVE shown[c] < r
    OBVIOUS
  <2>1. shown[c] \in ReplyIds \cup {0}
    BY DEF TypeOK
  <2> QED
    BY <1>4, <1>5, <2>1 DEF Drawn
<1>9. Rows'
  BY <1>2, <1>3, <1>6 DEF Rows
<1>10. Drawn'
  <2>1. ASSUME NEW p \in ReplyIds, NEW q \in ReplyIds, p < q, replies'[q].status # "unused"
        PROVE  replies'[p].status # "unused"
    BY <1>1, <1>3, <2>1 DEF Drawn
  <2>2. ASSUME NEW c \in Chats, shown[c] # 0 PROVE replies'[shown[c]].status # "unused"
    <3>1. shown[c] \in ReplyIds /\ shown[c] # r
      BY <1>4, <1>8, <2>2 DEF TypeOK
    <3> QED
      BY <1>3, <2>2, <3>1 DEF Drawn
  <2> QED
    BY <1>2, <2>1, <2>2 DEF Drawn
<1>11. LockedIsLatest'
  <2> SUFFICES ASSUME NEW c \in Chats \ unserialized, NEW p \in ReplyIds,
                      replies'[p].status = "uncommitted", replies'[p].chat = c,
                      chatLock[c] = replies'[p].writer
               PROVE  /\ \A q \in ReplyIds : Committed(q) /\ replies[q].chat = c => q < p
                      /\ shown[c] < p
    BY <1>2, <1>3, <1>6 DEF LockedIsLatest
  <2>1. CASE p = r
    <3>1. \A q \in ReplyIds : Committed(q) => replies[q].status # "unused"
      BY DEF Committed, OpenStatus, TerminalStatus
    <3> QED
      BY <1>5, <1>8, <2>1, <3>1
  <2>2. CASE p # r
    BY <1>3, <2>2 DEF LockedIsLatest
  <2> QED
    BY <2>1, <2>2
<1>12. ClaimedIsFirst'
  BY <1>2, <1>3, <1>6, <1>7 DEF ClaimedIsFirst
<1>13. NeverOvertaken'
  BY <1>2, <1>3, <1>6, <1>7 DEF NeverOvertaken
<1> QED
  BY <1>9, <1>10, <1>11, <1>12, <1>13

\* The rows of a transaction that held the lock to its end are later than what was claimed or
\* shown; a transaction that lost it marks its chat.
LEMMA EndKeeps ==
    ASSUME TypeOK, Order, NEW h \in Handlers, NEW committed \in BOOLEAN, HandlerEnd(h, committed)
    PROVE  Order'
<1> USE DEF Order
<1> DEFINE Own(r) == replies[r].status = "uncommitted" /\ replies[r].writer = h
<1>0. PICK d \in Chats : d = handlers[h] /\ d # NoChat
  BY DEF HandlerEnd, TypeOK
<1>1. /\ \A g \in Handlers \ {h} : handlers'[g] = handlers[g]
      /\ shown' = shown
      /\ \A c \in Chats \ {d} : chatLock'[c] = chatLock[c]
      /\ chatLock[d] = h => chatLock'[d] = "free"
      /\ chatLock[d] # h => d \in unserialized'
      /\ unserialized \subseteq unserialized'
  BY <1>0 DEF HandlerEnd, TypeOK
<1>2. \A r \in ReplyIds : Own(r) => replies[r].chat = d /\ replies[r].attempts = 0
  BY <1>0 DEF Rows
<1>3. ASSUME NEW r \in ReplyIds
      PROVE  /\ ~Own(r) => replies'[r] = replies[r]
             /\ Own(r) /\ committed => /\ replies'[r].status = "pending" /\ replies'[r].chat = d
                                       /\ replies'[r].attempts = 0
             /\ Own(r) /\ ~committed => replies'[r].status = "removed"
  BY <1>2, EndedRow
<1>4. ASSUME NEW r \in ReplyIds
      PROVE  /\ ~Own(r) => (Committed(r)' <=> Committed(r)) /\ (IsOpen(r)' <=> IsOpen(r))
             /\ Own(r) /\ ~committed => ~Committed(r)' /\ ~IsOpen(r)'
  BY <1>3 DEF Committed, IsOpen, OpenStatus, TerminalStatus
<1>5. \A r \in ReplyIds : (replies'[r].status = "unused") <=> (replies[r].status = "unused")
  BY <1>3
<1>6. ASSUME NEW r \in ReplyIds, replies'[r].status = "uncommitted"
      PROVE  ~Own(r) /\ replies'[r] = replies[r] /\ replies[r].writer # h
  BY <1>3, <1>6
<1> HIDE DEF Own
<1>7. Rows'
  <2> SUFFICES ASSUME NEW r \in ReplyIds
               PROVE  /\ Committed(r)' => replies'[r].chat \in Chats
                      /\ replies'[r].status = "uncommitted" =>
                            /\ replies'[r].writer \in Handlers
                            /\ replies'[r].chat = handlers'[replies'[r].writer]
                            /\ replies'[r].chat # NoChat /\ replies'[r].attempts = 0
    BY DEF Rows
  <2>1. Committed(r)' => replies'[r].chat \in Chats
    BY <1>3, <1>4 DEF Rows
  <2> QED
    BY <1>1, <1>6, <2>1 DEF Rows
<1>8. Drawn'
  <2>1. \A c \in Chats : shown[c] # 0 => shown[c] \in ReplyIds
    BY DEF TypeOK
  <2> QED
    BY <1>1, <1>5, <2>1 DEF Drawn
<1>9. LockedIsLatest'
  <2> SUFFICES ASSUME NEW c \in Chats \ unserialized', NEW r \in ReplyIds,
                      replies'[r].status = "uncommitted", replies'[r].chat = c,
                      chatLock'[c] = replies'[r].writer
               PROVE  /\ \A q \in ReplyIds : Committed(q)' /\ replies'[q].chat = c => q < r
                      /\ shown[c] < r
    BY <1>1 DEF LockedIsLatest
  <2>1. /\ replies[r].status = "uncommitted" /\ replies[r].chat = c /\ replies'[r] = replies[r]
        /\ replies[r].writer \in Handlers /\ c \notin unserialized
    BY <1>1, <1>6 DEF Rows
  <2>2. c # d
    BY <1>1, <2>1, ReplyActorsAssumption
  <2>3. /\ \A q \in ReplyIds : Committed(q) /\ replies[q].chat = c => q < r
        /\ shown[c] < r
    BY <1>1, <2>1, <2>2 DEF LockedIsLatest
  <2>4. ASSUME NEW q \in ReplyIds, Committed(q)', replies'[q].chat = c PROVE q < r
    BY <1>3, <1>4, <2>2, <2>3, <2>4
  <2> QED
    BY <2>3, <2>4
<1>10. ASSUME NEW q \in ReplyIds, IsOpen(q)', replies'[q].chat = d, d \notin unserialized', Own(q)
       PROVE  /\ \A r \in ReplyIds : Committed(r) /\ replies[r].chat = d => r < q
              /\ shown[d] < q
  <2>1. /\ replies[q].status = "uncommitted" /\ replies[q].writer = h /\ replies[q].chat = d
        /\ chatLock[d] = h /\ d \notin unserialized
    BY <1>1, <1>2, <1>10 DEF Own
  <2> QED
    BY <2>1 DEF LockedIsLatest
<1>11. \A q \in ReplyIds : q \in Nat
  BY ReplyIdsAssumption
<1>12. ClaimedIsFirst'
  <2> SUFFICES ASSUME NEW c \in Chats \ unserialized', NEW q \in ReplyIds, NEW r \in ReplyIds,
                      Committed(r)', replies'[r].chat = c, replies'[r].attempts >= 1,
                      q < r, replies'[q].chat = c, IsOpen(q)'
               PROVE  FALSE
    BY DEF ClaimedIsFirst
  <2>1. ~Own(r) /\ Committed(r) /\ replies[r].chat = c /\ replies[r].attempts >= 1
    BY <1>3, <1>4
  <2>2. CASE Own(q)
    <3>1. c = d
      BY <1>3, <1>4, <2>2
    <3>2. r < q
      BY <1>10, <2>1, <2>2, <3>1
    <3> QED
      BY <1>11, <3>2
  <2>3. CASE ~Own(q)
    <3>1. IsOpen(q) /\ replies[q].chat = c
      BY <1>3, <1>4, <2>3
    <3> QED
      BY <1>1, <2>1, <3>1 DEF ClaimedIsFirst
  <2> QED
    BY <2>2, <2>3
<1>13. NeverOvertaken'
  <2> SUFFICES ASSUME NEW c \in Chats \ unserialized', NEW q \in ReplyIds,
                      replies'[q].chat = c, q < shown[c], IsOpen(q)'
               PROVE  FALSE
    BY <1>1 DEF NeverOvertaken
  <2>0. shown[c] \in Nat
    BY <1>11 DEF TypeOK
  <2>1. CASE Own(q)
    <3>1. c = d
      BY <1>3, <1>4, <2>1
    <3>2. shown[c] < q
      BY <1>10, <2>1, <3>1
    <3> QED
      BY <1>11, <2>0, <3>2
  <2>2. CASE ~Own(q)
    <3>1. IsOpen(q) /\ replies[q].chat = c
      BY <1>3, <1>4, <2>2
    <3> QED
      BY <1>1, <3>1 DEF NeverOvertaken
  <2> QED
    BY <2>1, <2>2
<1> QED
  BY <1>7, <1>8, <1>9, <1>12, <1>13

\* A claim takes the first open reply of its chat.
LEMMA ClaimKeepsOrder ==
    ASSUME TypeOK, Order, NEW w \in Workers, NEW p \in ReplyIds, ClaimPendingTelegramReply(w, p)
    PROVE  Order'
<1> USE DEF Order
<1>1. /\ UNCHANGED <<handlers, chatLock, shown, unserialized>>
      /\ IsOpen(p) /\ Committed(p)
      /\ \A q \in ReplyIds : q < p /\ replies[q].chat = replies[p].chat => ~IsOpen(q)
  BY DEF ClaimPendingTelegramReply, Claimable, ghosts, IsOpen, Committed
<1>2. /\ replies'[p].status = "sending" /\ replies'[p].chat = replies[p].chat
      /\ \A q \in ReplyIds \ {p} : replies'[q] = replies[q]
  BY ClaimedRow
<1>3. \A q \in ReplyIds :
          /\ Committed(q)' <=> Committed(q)
          /\ IsOpen(q)' <=> IsOpen(q)
          /\ replies'[q].chat = replies[q].chat
          /\ (replies'[q].status = "unused") <=> (replies[q].status = "unused")
          /\ replies'[q].status = "uncommitted" => replies'[q] = replies[q]
  BY <1>1, <1>2 DEF Committed, IsOpen, OpenStatus, TerminalStatus
<1>4. Rows'
  BY <1>1, <1>3 DEF Rows
<1>5. Drawn'
  <2>1. \A c \in Chats : shown[c] # 0 => shown[c] \in ReplyIds
    BY DEF TypeOK
  <2> QED
    BY <1>1, <1>3, <2>1 DEF Drawn
<1>6. LockedIsLatest'
  BY <1>1, <1>3 DEF LockedIsLatest
<1>7. ClaimedIsFirst'
  <2> SUFFICES ASSUME NEW c \in Chats \ unserialized, NEW q \in ReplyIds, NEW r \in ReplyIds,
                      Committed(r), replies[r].chat = c, replies'[r].attempts >= 1,
                      q < r, replies[q].chat = c, IsOpen(q)
               PROVE  FALSE
    BY <1>1, <1>3 DEF ClaimedIsFirst
  <2>1. CASE r = p
    BY <1>1, <2>1
  <2>2. CASE r # p
    BY <1>2, <2>2 DEF ClaimedIsFirst
  <2> QED
    BY <2>1, <2>2
<1>8. NeverOvertaken'
  BY <1>1, <1>3 DEF NeverOvertaken
<1> QED
  BY <1>4, <1>5, <1>6, <1>7, <1>8

\* Every step keeps the order.
LEMMA OrderStep == ASSUME TypeOK, Fences, Order, Next PROVE Order'
<1>0. /\ ClaimsExist
      /\ \A w \in Workers : workers[w].pc # "idle" => workers[w].reply \in ReplyIds
  BY DEF Fences, ClaimsExist, Busy
<1>a. "free" \notin Handlers /\ "orphan" \notin Handlers /\ \A w \in Workers : w \notin Handlers
  BY ReplyActorsAssumption
<1>b. ASSUME UNCHANGED <<replies, handlers, shown, unserialized>>,
             \A c \in Chats : chatLock'[c] \in Handlers => chatLock'[c] = chatLock[c]
      PROVE  Order'
  BY <1>b, RowsSettle, SettlesKeeps
<1>1. ASSUME NEW h \in Handlers, HandlerStep(h) PROVE Order'
  <2>1. CASE LoseHandlerSession(h)
    <3>1. \A c \in Chats : chatLock'[c] \in Handlers => chatLock'[c] = chatLock[c]
      BY <1>a, <2>1 DEF LoseHandlerSession, TypeOK
    <3> QED
      BY <1>b, <2>1, <3>1 DEF LoseHandlerSession, ghosts
  <2> QED
    BY <1>1, <2>1, BeginKeeps, InsertKeeps DEF HandlerStep
<1>2. ASSUME NEW h \in Handlers, NEW committed \in BOOLEAN, HandlerEnd(h, committed) PROVE Order'
  BY <1>2, EndKeeps
<1>3. ASSUME NEW w \in Workers, NEW r \in ReplyIds, ClaimPendingTelegramReply(w, r) PROVE Order'
  BY <1>3, ClaimKeepsOrder
<1>4. ASSUME NEW w \in Workers, WorkerStep(w) PROVE Order'
  <2>1. CASE AcquireTelegramChatLock(w)
    <3>1. \A c \in Chats : chatLock'[c] \in Handlers => chatLock'[c] = chatLock[c]
      BY <1>a, <2>1 DEF AcquireTelegramChatLock, TypeOK
    <3> QED
      BY <1>b, <2>1, <3>1 DEF AcquireTelegramChatLock, ghosts
  <2>2. CASE ReleaseTelegramChatLock(w)
    <3>1. \A c \in Chats : chatLock'[c] \in Handlers => chatLock'[c] = chatLock[c]
      BY <1>a, <2>2 DEF ReleaseTelegramChatLock, TypeOK
    <3> QED
      BY <1>b, <2>2, <3>1 DEF ReleaseTelegramChatLock, ghosts
  <2>3. CASE SendAccepted(w) \/ SendNotModified(w)
    BY <1>0, <2>3, ApplyKeeps DEF SendAccepted, SendNotModified
  <2>4. ASSUME NEW reached \in BOOLEAN, SendFailed(w, reached) PROVE Order'
    BY <1>0, <1>b, <2>4, ApplyKeeps DEF SendFailed
  <2>5. CASE MarkTelegramReply(w)
    <3>1. workers[w].outcome \in {"pending", "failed"}
      BY <1>0, <2>5 DEF MarkTelegramReply, ClaimsExist, Busy, TypeOK, WorkerType
    <3>2. Settles
      BY <1>0, <2>5, <3>1, WriteSettles DEF MarkTelegramReply, ghosts
    <3> QED
      BY <3>2, SettlesKeeps
  <2>6. CASE FinalizeSent(w)
    BY <1>0, <2>6, WriteSettles, SettlesKeeps DEF FinalizeSent, ghosts
  <2>7. ASSUME NEW committed \in BOOLEAN, FinalizeError(w, committed) PROVE Order'
    BY <1>0, <1>b, <2>7, WriteSettles, SettlesKeeps DEF FinalizeError, ghosts
  <2> QED
    BY <1>4, <1>b, <2>1, <2>2, <2>3, <2>4, <2>5, <2>6, <2>7
    DEF WorkerStep, DeferTelegramReply, EnsureTelegramReplyClaimCurrent, BeginSend, SendRejected, ghosts
<1>5. ASSUME NEW w \in Workers, WorkerFault(w) PROVE Order'
  <2>1. CASE LoseLockSession(w)
    <3>1. \A c \in Chats : chatLock'[c] \in Handlers => chatLock'[c] = chatLock[c]
      BY <1>a, <2>1 DEF LoseLockSession, TypeOK
    <3> QED
      BY <1>b, <2>1, <3>1 DEF LoseLockSession
  <2>2. ASSUME NEW reached \in BOOLEAN, Crash(w, reached) PROVE Order'
    <3>1. \A c \in Chats : chatLock'[c] \in Handlers => chatLock'[c] = chatLock[c]
      BY <1>a, <2>2 DEF Crash, TypeOK
    <3> QED
      BY <1>0, <1>b, <2>2, <3>1, ApplyKeeps DEF Crash
  <2> QED
    BY <1>5, <1>b, <2>1, <2>2 DEF WorkerFault, MarkError, FinalizeGiveUp, Stall, ghosts
<1>6. ASSUME NEW r \in ReplyIds, CleanupTelegramReplyHistory(r) PROVE Order'
  <2>1. /\ UNCHANGED <<handlers, chatLock, shown, unserialized>> /\ replies[r].status \in TerminalStatus
        /\ replies'[r].status = "removed" /\ \A q \in ReplyIds \ {r} : replies'[q] = replies[q]
    BY <1>6 DEF CleanupTelegramReplyHistory, TypeOK, RemovedReply, UnusedReply
  <2>2. Settles
    BY <2>1, SameRow DEF Settles, Committed, IsOpen, OpenStatus, TerminalStatus
  <2> QED
    BY <2>2, SettlesKeeps
<1>7. ASSUME NEW c \in Chats, ReapSession(c) PROVE Order'
  <2>1. \A d \in Chats : chatLock'[d] \in Handlers => chatLock'[d] = chatLock[d]
    BY <1>a, <1>7 DEF ReapSession, TypeOK
  <2> QED
    BY <1>b, <1>7, <2>1 DEF ReapSession, ghosts
<1>8. CASE Tick
  <2>1. UNCHANGED <<handlers, chatLock, shown, unserialized>>
    BY <1>8 DEF Tick, ghosts
  <2>2. \A r \in ReplyIds : /\ replies'[r].status = replies[r].status /\ replies'[r].chat = replies[r].chat
                            /\ replies'[r].attempts = replies[r].attempts
                            /\ replies'[r].writer = replies[r].writer
    BY <1>8, TickedRow
  <2>3. Settles
    BY <2>1, <2>2 DEF Settles, Committed, IsOpen
  <2> QED
    BY <2>3, SettlesKeeps
<1> QED
  BY <1>1, <1>2, <1>3, <1>4, <1>5, <1>6, <1>7, <1>8 DEF Next

\* The invariant holds at the start: no row, no claim, every lock free.
LEMMA InitIInv == Init => IInv
<1> SUFFICES ASSUME Init PROVE IInv
  OBVIOUS
<1> USE DEF Init
<1>1. \A w \in Workers : workers[w].pc = "idle"
  BY DEF IdleWorker
<1>2. \A r \in ReplyIds : replies[r].status = "unused" /\ accepted[r] = {}
  BY DEF UnusedReply
<1>3. TypeOK
  BY UnusedType, IdleType, WindowTypes DEF TypeOK
<1>4. ClaimsExist /\ ClaimsDistinct /\ TokenCurrent
  BY <1>1, <1>2 DEF ClaimsExist, ClaimsDistinct, TokenCurrent, Busy
<1>5. LockOfOwnChat
  BY ReplyActorsAssumption DEF LockOfOwnChat
<1>6. CriticalLocked /\ LastClaimOpen /\ ValidatedIsLast /\ LeaseCoversSend
  BY <1>1 DEF CriticalLocked, LastClaimOpen, ValidatedIsLast, LeaseCoversSend, Working, Validated, Critical
<1>7. AcceptedIsLast
  BY <1>2 DEF AcceptedIsLast
<1>8. \A r \in ReplyIds : ~Committed(r) /\ ~IsOpen(r)
  BY <1>2 DEF Committed, IsOpen, OpenStatus, TerminalStatus
<1>9. Order
  BY <1>2, <1>8 DEF Order, Rows, Drawn, LockedIsLatest, ClaimedIsFirst, NeverOvertaken
<1> QED
  BY <1>3, <1>4, <1>5, <1>6, <1>7, <1>9 DEF IInv, Fences

\* Every step, and no step, keeps the invariant.
LEMMA NextIInv == ASSUME IInv, [Next]_vars PROVE IInv'
<1>1. CASE Next
  BY <1>1, TypeStep, FencesStep, OrderStep DEF IInv, Fences, Order
<1>2. CASE UNCHANGED vars
  <2>1. TypeOK'
    BY <1>2 DEF IInv, TypeOK, vars
  <2>2. RowSteps
    BY <1>2 DEF RowSteps, RowStep, vars
  <2>3. Settles
    BY <1>2, RowsSettle DEF vars
  <2> QED
    BY <2>1, <2>2, <2>3, RowStepsKeep, SettlesKeeps DEF IInv
<1> QED
  BY <1>1, <1>2

\* Every behaviour of the outbox keeps the inductive invariant: the fences around a claim, and
\* the order the chat's lock gives its replies.
THEOREM RepliesConsistent == Spec => []IInv
<1>1. IInv /\ [Next]_vars => IInv'
  BY NextIInv
<1> QED
  BY InitIInv, <1>1, PTL DEF Spec

-----------------------------------------------------------------------------
(* The properties *)

\* The rows of telegram_replies, the locks, the update workers and the workers keep their types.
THEOREM TypeCorrect == Spec => []TypeOK
<1>1. IInv => TypeOK
  BY DEF IInv
<1> QED
  BY <1>1, RepliesConsistent, PTL

\* A reply is never overtaken by a later one of its chat (claimPendingTelegramReply's NOT EXISTS,
\* the sequence and the chat lock of the update's transaction), for every number of workers,
\* retries, crashes and expired leases.
THEOREM RepliesInOrder == Spec => []NeverOvertaken
<1>1. IInv => NeverOvertaken
  BY DEF IInv, Order
<1> QED
  BY <1>1, RepliesConsistent, PTL

\* A worker whose send is applied late, that still holds the lock or was not paused since it
\* validated its claim, has the last claim of an open reply.
LEMMA AppliedIsOpen ==
    ASSUME IInv, NEW w \in Workers, workers[w].pc = "sending", ~workers[w].stalled \/ HoldsLock(w)
    PROVE  IsOpen(workers[w].reply)
<1>1. workers[w].attempts = ReplyOf(w).attempts
  BY DEF IInv, Fences, LeaseCoversSend, ValidatedIsLast, Validated
<1>2. ReplyOf(w).status = "sending"
  BY <1>1 DEF IInv, Fences, LastClaimOpen, Working, Critical
<1> QED
  BY <1>2 DEF ReplyOf, IsOpen, OpenStatus

\* What the user sees goes back to an earlier reply only when a worker is paused during its send
\* and has lost its lock session too.
THEOREM NeverBack == Spec => NeverGoesBack
<1> DEFINE Forward ==
               \A c \in Chats :
                   shown'[c] < shown[c] /\ c \notin unserialized
                   => \E w \in Workers : workers[w].pc = "sending" /\ workers[w].stalled /\ ~HoldsLock(w)
<1>1. ASSUME IInv, [Next]_vars PROVE [Forward]_vars
  <2> SUFFICES ASSUME Next, NEW c \in Chats, shown'[c] < shown[c], c \notin unserialized
               PROVE  \E w \in Workers : workers[w].pc = "sending" /\ workers[w].stalled /\ ~HoldsLock(w)
    BY <1>1
  <2>0. TypeOK /\ \A r \in ReplyIds : r \in Nat
    BY <1>1, ReplyIdsAssumption DEF IInv
  <2>1. shown' # shown
    <3>1. shown[c] \in Nat
      BY <2>0 DEF TypeOK
    <3> QED
      BY <3>1
  <2>2. \E w \in Workers : workers[w].pc = "sending" /\ Apply(w)
    <3>1. ASSUME NEW h \in Handlers, HandlerStep(h) PROVE FALSE
      BY <2>1, <3>1 DEF HandlerStep, HandlerBegin, InsertReply, LoseHandlerSession, ghosts
    <3>2. ASSUME NEW h \in Handlers, NEW committed \in BOOLEAN, HandlerEnd(h, committed) PROVE FALSE
      BY <2>1, <3>2 DEF HandlerEnd
    <3>3. ASSUME NEW w \in Workers, NEW r \in ReplyIds, ClaimPendingTelegramReply(w, r) PROVE FALSE
      BY <2>1, <3>3 DEF ClaimPendingTelegramReply, ghosts
    <3>4. ASSUME NEW w \in Workers, WorkerStep(w) PROVE workers[w].pc = "sending" /\ Apply(w)
      BY <2>1, <3>4
      DEF WorkerStep, AcquireTelegramChatLock, DeferTelegramReply, EnsureTelegramReplyClaimCurrent,
          BeginSend, SendAccepted, SendNotModified, SendRejected, SendFailed, MarkTelegramReply,
          FinalizeSent, FinalizeError, ReleaseTelegramChatLock, ghosts
    <3>5. ASSUME NEW w \in Workers, WorkerFault(w) PROVE workers[w].pc = "sending" /\ Apply(w)
      BY <2>1, <3>5
      DEF WorkerFault, MarkError, FinalizeGiveUp, LoseLockSession, Stall, Crash, ghosts
    <3>6. ASSUME NEW r \in ReplyIds, CleanupTelegramReplyHistory(r) PROVE FALSE
      BY <2>1, <3>6 DEF CleanupTelegramReplyHistory
    <3>7. ASSUME NEW d \in Chats, ReapSession(d) PROVE FALSE
      BY <2>1, <3>7 DEF ReapSession, ghosts
    <3>8. CASE Tick
      BY <2>1, <3>8 DEF Tick, ghosts
    <3> QED
      BY <3>1, <3>2, <3>3, <3>4, <3>5, <3>6, <3>7, <3>8 DEF Next
  <2>3. PICK w \in Workers : workers[w].pc = "sending" /\ Apply(w)
    BY <2>2
  <2>4. PICK r \in ReplyIds, d \in Chats : r = workers[w].reply /\ d = ChatOf(w)
    BY <1>1, <2>3 DEF IInv, Fences, ClaimsExist, Busy
  <2>5. shown'[d] = r /\ \A e \in Chats \ {d} : shown'[e] = shown[e]
    BY <2>0, <2>3, <2>4 DEF Apply, TypeOK
  <2>6. shown[c] \in Nat
    BY <2>0 DEF TypeOK
  <2>7. c = d /\ r < shown[c]
    BY <2>5, <2>6
  <2>8. replies[r].chat = c
    BY <2>4, <2>7 DEF ChatOf, ReplyOf
  <2>9. ~IsOpen(r)
    BY <1>1, <2>7, <2>8 DEF IInv, Order, NeverOvertaken
  <2> QED
    BY <1>1, <2>3, <2>4, <2>9, AppliedIsOpen
<1>2. IInv /\ [Next]_vars => [Forward]_vars
  BY <1>1
<1> QED
  BY <1>2, RepliesConsistent, PTL DEF Spec, NeverGoesBack

-----------------------------------------------------------------------------
(* The outbox delivers as DurableDelivery promises *)

\* A committed row stays, and never loses count of its claims.
Counts(r) ==
    Committed(r) => /\ replies'[r].status \in OpenStatus \cup TerminalStatus
                    /\ replies'[r].attempts >= replies[r].attempts

\* Steps that keep counts and accept nothing keep AcceptedOnce, when every worker they move to a
\* call before the answer or to the finalization was there before.
LEMMA CountsKeep ==
    ASSUME TypeOK, TypeOK', AcceptedOnce, accepted' = accepted, \A r \in ReplyIds : Counts(r),
           \A w \in Workers :
               \/ workers'[w].pc \notin {"claimed", "locked", "validated", "sending", "finalizing"}
               \/ /\ workers'[w].reply = workers[w].reply /\ workers'[w].attempts = workers[w].attempts
                  /\ workers'[w].pc = "finalizing" => workers[w].pc = "finalizing"
                  /\ workers'[w].pc # "finalizing"
                     => workers[w].pc \in {"claimed", "locked", "validated", "sending"}
    PROVE  AcceptedOnce'
<1>1. ASSUME NEW r \in ReplyIds
      PROVE  /\ replies'[r].status \notin OpenStatus \cup TerminalStatus => accepted[r] = {}
             /\ \A a \in accepted[r] : a <= replies'[r].attempts
  <2>1. CASE ~Committed(r)
    BY <2>1 DEF AcceptedOnce
  <2>2. CASE Committed(r)
    <3>1. /\ replies'[r].status \in OpenStatus \cup TerminalStatus
          /\ replies'[r].attempts >= replies[r].attempts
      BY <2>2 DEF Counts
    <3>2. replies[r].attempts \in Nat /\ replies'[r].attempts \in Nat /\ accepted[r] \subseteq Nat
      BY DEF TypeOK, ReplyType
    <3>3. \A a \in accepted[r] : a <= replies[r].attempts
      BY DEF AcceptedOnce
    <3>4. ASSUME NEW a \in accepted[r] PROVE a <= replies'[r].attempts
      BY <3>1, <3>2, <3>3
    <3> QED
      BY <3>1, <3>4
  <2> QED
    BY <2>1, <2>2
<1>2. ASSUME NEW w \in Workers
      PROVE  /\ workers'[w].pc \in {"claimed", "locked", "validated", "sending"}
                => workers'[w].attempts \notin accepted[workers'[w].reply]
             /\ workers'[w].pc = "finalizing" => workers'[w].attempts \in accepted[workers'[w].reply]
  BY DEF AcceptedOnce
<1> QED
  BY <1>1, <1>2 DEF AcceptedOnce, Committed

\* Every row keeps count in every step but its deletion.
LEMMA StepCounts ==
    ASSUME TypeOK, ClaimsExist, Next, NEW r \in ReplyIds
    PROVE  Counts(r) \/ CleanupTelegramReplyHistory(r)
<1>0. replies[r] \in ReplyType /\ replies[r].attempts \in Nat
  BY DEF TypeOK, ReplyType
<1>a. replies'[r] = replies[r] => Counts(r)
  BY <1>0 DEF Counts, Committed
<1>b. ASSUME replies'[r].status \in OpenStatus \cup TerminalStatus,
             replies'[r].attempts = replies[r].attempts
      PROVE  Counts(r)
  BY <1>0, <1>b DEF Counts
<1>c. replies[r].status \in {"unused", "uncommitted"} => Counts(r)
  BY DEF Counts, Committed, OpenStatus, TerminalStatus
<1>1. ASSUME NEW h \in Handlers, HandlerStep(h) PROVE Counts(r)
  <2>1. ASSUME NEW operation \in {"send_message", "edit_message"}, InsertReply(h, operation)
        PROVE  replies'[r] = replies[r] \/ replies[r].status = "unused"
    BY <2>1 DEF InsertReply, TypeOK
  <2> QED
    BY <1>1, <1>a, <1>c, <2>1 DEF HandlerStep, HandlerBegin, LoseHandlerSession
<1>2. ASSUME NEW h \in Handlers, NEW committed \in BOOLEAN, HandlerEnd(h, committed) PROVE Counts(r)
  BY <1>2, <1>a, <1>c, EndedRow
<1>3. ASSUME NEW w \in Workers, NEW q \in ReplyIds, ClaimPendingTelegramReply(w, q) PROVE Counts(r)
  <2>1. CASE q = r
    <3>1. replies'[r].status = "sending" /\ replies'[r].attempts = replies[r].attempts + 1
      BY <1>3, <2>1, ClaimedRow
    <3> QED
      BY <1>0, <3>1 DEF Counts, OpenStatus
  <2>2. CASE q # r
    BY <1>3, <1>a, <2>2, ClaimedRow
  <2> QED
    BY <2>1, <2>2
<1>4. ASSUME NEW w \in Workers, NEW status \in {"pending", "failed", "sent"},
             workers[w].reply \in ReplyIds, WriteOutcome(w, status)
      PROVE  Counts(r)
  <2>1. CASE ~Owns(w)
    BY <1>4, <1>a, <2>1 DEF WriteOutcome
  <2>2. CASE Owns(w)
    <3>0. PICK q \in ReplyIds : q = workers[w].reply
      BY <1>4
    <3>1. /\ replies'[q].status = status /\ replies'[q].attempts = replies[q].attempts
          /\ \A p \in ReplyIds \ {q} : replies'[p] = replies[p]
      BY <1>4, <2>2, <3>0, WrittenRow
    <3>2. status \in OpenStatus \cup TerminalStatus
      BY DEF OpenStatus, TerminalStatus
    <3> QED
      BY <1>a, <1>b, <3>1, <3>2
  <2> QED
    BY <2>1, <2>2
<1>5. ASSUME NEW w \in Workers, WorkerStep(w) PROVE Counts(r)
  <2>1. CASE MarkTelegramReply(w)
    <3>1. workers[w].outcome \in {"pending", "failed"} /\ workers[w].reply \in ReplyIds
      BY <2>1 DEF MarkTelegramReply, ClaimsExist, Busy, TypeOK, WorkerType
    <3>2. PICK status \in {"pending", "failed"} : status = workers[w].outcome
      BY <3>1
    <3> QED
      BY <1>4, <2>1, <3>1, <3>2 DEF MarkTelegramReply
  <2>2. CASE FinalizeSent(w)
    BY <1>4, <2>2 DEF FinalizeSent, ClaimsExist, Busy
  <2>3. ASSUME NEW committed \in BOOLEAN, FinalizeError(w, committed) PROVE Counts(r)
    BY <1>4, <1>a, <2>3 DEF FinalizeError, ClaimsExist, Busy
  <2> QED
    BY <1>5, <1>a, <2>1, <2>2, <2>3
    DEF WorkerStep, AcquireTelegramChatLock, DeferTelegramReply, EnsureTelegramReplyClaimCurrent,
        BeginSend, SendAccepted, SendNotModified, SendRejected, SendFailed, ReleaseTelegramChatLock
<1>6. ASSUME NEW w \in Workers, WorkerFault(w) PROVE Counts(r)
  BY <1>6, <1>a DEF WorkerFault, MarkError, FinalizeGiveUp, LoseLockSession, Stall, Crash
<1>7. ASSUME NEW q \in ReplyIds, CleanupTelegramReplyHistory(q)
      PROVE  Counts(r) \/ CleanupTelegramReplyHistory(r)
  BY <1>7, <1>a DEF CleanupTelegramReplyHistory, TypeOK
<1>8. ASSUME NEW c \in Chats, ReapSession(c) PROVE Counts(r)
  BY <1>8, <1>a DEF ReapSession
<1>9. CASE Tick
  <2>1. replies'[r].status = replies[r].status /\ replies'[r].attempts = replies[r].attempts
    BY <1>9, TickedRow
  <2> QED
    BY <1>0, <2>1 DEF Counts, Committed
<1> QED
  BY <1>1, <1>2, <1>3, <1>5, <1>6, <1>7, <1>8, <1>9 DEF Next

\* Every step keeps the accepted claims in order.
LEMMA AcceptedStep ==
    ASSUME IInv, AcceptedOnce, Next, TypeOK'
    PROVE  AcceptedOnce'
<1> DEFINE Before == {"claimed", "locked", "validated", "sending"}
<1>0. /\ TypeOK /\ ClaimsExist /\ ClaimsDistinct
      /\ \A w \in Workers : workers[w].pc # "idle" =>
             /\ workers[w].reply \in ReplyIds /\ Committed(workers[w].reply)
             /\ workers[w].attempts \in Nat /\ workers[w].attempts <= ReplyOf(w).attempts
  BY DEF IInv, Fences, ClaimsExist, Busy, TypeOK, WorkerType
<1>1. ASSUME NEW q \in ReplyIds, CleanupTelegramReplyHistory(q) PROVE AcceptedOnce'
  <2>1. /\ workers' = workers /\ \A w \in Workers : workers[w].reply # q
        /\ accepted'[q] = {}
        /\ \A r \in ReplyIds \ {q} : replies'[r] = replies[r] /\ accepted'[r] = accepted[r]
    BY <1>0, <1>1 DEF CleanupTelegramReplyHistory, TypeOK
  <2>2. \A w \in Workers :
            workers[w].pc # "idle" => accepted'[workers[w].reply] = accepted[workers[w].reply]
    BY <1>0, <2>1
  <2>3. \A r \in ReplyIds : /\ replies'[r].status \notin OpenStatus \cup TerminalStatus => accepted'[r] = {}
                            /\ \A a \in accepted'[r] : a <= replies'[r].attempts
    BY <2>1 DEF AcceptedOnce, Committed
  <2> QED
    BY <2>1, <2>2, <2>3 DEF AcceptedOnce, Committed
<1> SUFFICES ASSUME ~ \E q \in ReplyIds : CleanupTelegramReplyHistory(q) PROVE AcceptedOnce'
  BY <1>1
<1>2. \A r \in ReplyIds : Counts(r)
  BY <1>0, StepCounts
<1>3. ASSUME NEW w \in Workers, NEW q \in ReplyIds, ClaimPendingTelegramReply(w, q) PROVE AcceptedOnce'
  <2>1. /\ \A v \in Workers \ {w} : workers'[v] = workers[v]
        /\ workers'[w].pc = "claimed" /\ workers'[w].reply = q
        /\ workers'[w].attempts = replies[q].attempts + 1
        /\ accepted' = accepted
    BY <1>0, <1>3 DEF ClaimPendingTelegramReply, TypeOK, ghosts, IdleWorker
  <2>2. /\ replies'[q].status = "sending" /\ replies'[q].attempts = replies[q].attempts + 1
        /\ \A r \in ReplyIds \ {q} : replies'[r] = replies[r]
    BY <1>0, <1>3, ClaimedRow
  <2>3. /\ replies[q].attempts \in Nat /\ accepted[q] \subseteq Nat
        /\ \A a \in accepted[q] : a <= replies[q].attempts
    BY <1>0 DEF TypeOK, ReplyType, AcceptedOnce
  <2>4. replies[q].attempts + 1 \notin accepted[q] /\ \A a \in accepted[q] : a <= replies[q].attempts + 1
    BY <2>3
  <2>5. \A r \in ReplyIds : /\ replies'[r].status \notin OpenStatus \cup TerminalStatus => accepted[r] = {}
                            /\ \A a \in accepted[r] : a <= replies'[r].attempts
    BY <2>2, <2>4 DEF AcceptedOnce, Committed, OpenStatus
  <2>6. ASSUME NEW v \in Workers
        PROVE  /\ workers'[v].pc \in Before => workers'[v].attempts \notin accepted[workers'[v].reply]
               /\ workers'[v].pc = "finalizing" => workers'[v].attempts \in accepted[workers'[v].reply]
    BY <2>1, <2>4 DEF AcceptedOnce
  <2> QED
    BY <2>1, <2>5, <2>6 DEF AcceptedOnce, Committed
<1>4. ASSUME NEW w \in Workers, workers[w].pc = "sending", accepted' = Record(accepted, w),
             replies' = replies, \A v \in Workers \ {w} : workers'[v] = workers[v],
             Moves(w, "finalizing") \/ workers'[w].pc \in {"marking", "idle"}
      PROVE  AcceptedOnce'
  <2> DEFINE q == workers[w].reply
             n == workers[w].attempts
  <2>1. q \in ReplyIds /\ n \in Nat /\ Committed(q) /\ n <= replies[q].attempts
    BY <1>0, <1>4 DEF ReplyOf
  <2>2. accepted'[q] = accepted[q] \cup {n} /\ \A r \in ReplyIds \ {q} : accepted'[r] = accepted[r]
    BY <1>0, <1>4, <2>1 DEF Record, TypeOK
  <2>3. \A r \in ReplyIds : /\ ~Committed(r) => accepted'[r] = {}
                            /\ \A a \in accepted'[r] : a <= replies[r].attempts
    BY <2>1, <2>2 DEF AcceptedOnce
  <2>4. ASSUME NEW v \in Workers \ {w}
        PROVE  /\ workers[v].pc \in Before => workers[v].attempts \notin accepted'[workers[v].reply]
               /\ workers[v].pc = "finalizing" => workers[v].attempts \in accepted'[workers[v].reply]
    <3>1. CASE workers[v].pc = "idle"
      BY <3>1
    <3>2. CASE workers[v].pc # "idle"
      <4>1. workers[v].reply = q => workers[v].attempts # n
        BY <1>0, <1>4, <3>2 DEF ClaimsDistinct, Busy
      <4> QED
        BY <1>0, <2>2, <3>2, <4>1 DEF AcceptedOnce
    <3> QED
      BY <3>1, <3>2
  <2>5. /\ workers'[w].pc \notin Before
        /\ workers'[w].pc = "finalizing" => workers'[w].attempts \in accepted'[workers'[w].reply]
    BY <1>4, <2>2 DEF Moves
  <2>6. ASSUME NEW v \in Workers
        PROVE  /\ workers'[v].pc \in Before => workers'[v].attempts \notin accepted'[workers'[v].reply]
               /\ workers'[v].pc = "finalizing" => workers'[v].attempts \in accepted'[workers'[v].reply]
    BY <1>4, <2>4, <2>5
  <2> QED
    BY <1>4, <2>3, <2>6 DEF AcceptedOnce, Committed
<1>5. ASSUME accepted' = accepted, NEW w \in Workers, \A v \in Workers \ {w} : workers'[v] = workers[v],
             \/ workers'[w].pc \notin Before \cup {"finalizing"}
             \/ \E pc : Moves(w, pc) /\ (pc = "finalizing" => workers[w].pc = "finalizing")
                                     /\ (pc # "finalizing" => workers[w].pc \in Before)
      PROVE  AcceptedOnce'
  <2>1. ASSUME NEW v \in Workers \ {w}
        PROVE  /\ workers'[v] = workers[v]
               /\ \/ workers'[v].pc \notin Before \cup {"finalizing"}
                  \/ /\ workers'[v].pc = "finalizing" => workers[v].pc = "finalizing"
                     /\ workers'[v].pc # "finalizing" => workers[v].pc \in Before
    BY <1>5
  <2> QED
    BY <1>0, <1>2, <1>5, <2>1, CountsKeep DEF Moves
<1>6. ASSUME NEW w \in Workers, WorkerStep(w) PROVE AcceptedOnce'
  <2>1. CASE DeferTelegramReply(w) \/ SendRejected(w)
    BY <1>0, <1>5, <2>1, DecideMoves DEF DeferTelegramReply, SendRejected, ghosts, Moves
  <2>2. CASE AcquireTelegramChatLock(w)
    BY <1>0, <1>5, <2>2, GotoMoves DEF AcquireTelegramChatLock, ghosts, Moves
  <2>3. CASE EnsureTelegramReplyClaimCurrent(w)
    <3>1. CASE ClaimCurrent(w)
      <4>1. Moves(w, "validated")
        BY <1>0, <2>3, <3>1 DEF EnsureTelegramReplyClaimCurrent, Moves, TypeOK, WorkerType
      <4> QED
        BY <1>5, <2>3, <4>1 DEF EnsureTelegramReplyClaimCurrent, ghosts, Moves
    <3>2. CASE ~ClaimCurrent(w)
      BY <1>0, <1>5, <2>3, <3>2, GotoMoves DEF EnsureTelegramReplyClaimCurrent, ghosts, Moves
    <3> QED
      BY <3>1, <3>2
  <2>4. CASE BeginSend(w)
    BY <1>0, <1>5, <2>4, GotoMoves DEF BeginSend, ghosts, Moves
  <2>5. CASE SendAccepted(w) \/ SendNotModified(w)
    BY <1>0, <1>4, <2>5, GotoMoves DEF SendAccepted, SendNotModified, Apply, Moves
  <2>6. ASSUME NEW reached \in BOOLEAN, SendFailed(w, reached) PROVE AcceptedOnce'
    <3>1. Moves(w, "marking") /\ workers[w].pc = "sending" /\ replies' = replies
      BY <1>0, <2>6, DecideMoves DEF SendFailed
    <3> QED
      BY <1>4, <1>5, <2>6, <3>1 DEF SendFailed, Apply, Moves
  <2>7. CASE MarkTelegramReply(w) \/ FinalizeSent(w)
    BY <1>0, <1>5, <2>7, GotoMoves DEF MarkTelegramReply, FinalizeSent, ghosts, Moves
  <2>8. ASSUME NEW committed \in BOOLEAN, FinalizeError(w, committed) PROVE AcceptedOnce'
    <3>1. Moves(w, "finalizing")
      BY <1>0, <2>8 DEF FinalizeError, Moves, TypeOK, WorkerType
    <3> QED
      BY <1>5, <2>8, <3>1 DEF FinalizeError, ghosts, Moves
  <2>9. CASE ReleaseTelegramChatLock(w)
    <3>1. workers'[w].pc = "idle" /\ \A v \in Workers \ {w} : workers'[v] = workers[v]
      BY <1>0, <2>9 DEF ReleaseTelegramChatLock, TypeOK, IdleWorker
    <3> QED
      BY <1>5, <2>9, <3>1 DEF ReleaseTelegramChatLock, ghosts
  <2> QED
    BY <1>6, <2>1, <2>2, <2>3, <2>4, <2>5, <2>6, <2>7, <2>8, <2>9 DEF WorkerStep
<1>7. ASSUME NEW w \in Workers, WorkerFault(w) PROVE AcceptedOnce'
  <2>1. CASE MarkError(w) \/ FinalizeGiveUp(w)
    BY <1>0, <1>5, <2>1, GotoMoves DEF MarkError, FinalizeGiveUp, ghosts, Moves
  <2>2. CASE LoseLockSession(w) \/ Stall(w)
    <3>1. Moves(w, workers[w].pc) /\ accepted' = accepted
      BY <1>0, <2>2 DEF LoseLockSession, Stall, ghosts, Moves, TypeOK, WorkerType
    <3> QED
      BY <1>5, <3>1 DEF Moves
  <2>3. ASSUME NEW reached \in BOOLEAN, Crash(w, reached) PROVE AcceptedOnce'
    <3>1. workers'[w].pc = "idle" /\ \A v \in Workers \ {w} : workers'[v] = workers[v]
      BY <1>0, <2>3 DEF Crash, TypeOK, IdleWorker
    <3> QED
      BY <1>4, <1>5, <2>3, <3>1 DEF Crash, Apply
  <2> QED
    BY <1>7, <2>1, <2>2, <2>3 DEF WorkerFault
<1>8. ASSUME accepted' = accepted, workers' = workers PROVE AcceptedOnce'
  BY <1>0, <1>2, <1>8, CountsKeep
<1>9. ASSUME NEW h \in Handlers, HandlerStep(h) PROVE AcceptedOnce'
  BY <1>8, <1>9 DEF HandlerStep, HandlerBegin, InsertReply, LoseHandlerSession, ghosts
<1>10. ASSUME NEW h \in Handlers, NEW committed \in BOOLEAN, HandlerEnd(h, committed) PROVE AcceptedOnce'
  BY <1>8, <1>10 DEF HandlerEnd
<1>11. ASSUME NEW c \in Chats, ReapSession(c) PROVE AcceptedOnce'
  BY <1>8, <1>11 DEF ReapSession, ghosts
<1>12. CASE Tick
  <2>1. \A w \in Workers : /\ workers'[w].pc = workers[w].pc /\ workers'[w].reply = workers[w].reply
                           /\ workers'[w].attempts = workers[w].attempts
    BY <1>0, <1>12, TickedWorker
  <2> QED
    BY <1>0, <1>2, <1>12, <2>1, CountsKeep DEF Tick, ghosts
<1> QED
  BY <1>3, <1>6, <1>7, <1>9, <1>10, <1>11, <1>12 DEF Next

\* A step of the abstract delivery, or none.
Promised == [Delivery!Next]_(Delivery!vars)

SamePhases == \A r \in ReplyIds : Phase(r)' = Phase(r)

\* Claims, retries and time are not visible in a delivery.
LEMMA NothingPromised == ASSUME SamePhases, UNCHANGED <<accepted, disturbed>> PROVE Promised
<1>1. [r \in ReplyIds |-> Phase(r)]' = [r \in ReplyIds |-> Phase(r)]
  BY DEF SamePhases
<1> QED
  BY <1>1 DEF Promised, Delivery!vars

\* A fault that hides a claim's outcome puts the delivery in doubt.
LEMMA DoubtPromised ==
    ASSUME TypeOK, SamePhases, accepted' = accepted, NEW r \in ReplyIds, NEW n,
           disturbed' = [disturbed EXCEPT ![r] = @ \cup {n}]
    PROVE  Promised
<1>1. [q \in ReplyIds |-> Phase(q)]' = [q \in ReplyIds |-> Phase(q)]
  BY DEF SamePhases
<1>2. n \in disturbed'[r]
  BY DEF TypeOK
<1>3. Delivery!Doubt(r, n)
  BY <1>1 DEF Delivery!Doubt
<1> QED
  BY <1>2, <1>3 DEF Promised, Delivery!Next

\* An accepted message delivers a reply that exists.
LEMMA DeliverPromised ==
    ASSUME TypeOK, SamePhases, NEW r \in ReplyIds, Phase(r) # "none", NEW n, n \notin accepted[r],
           NEW inDoubt \in BOOLEAN, accepted[r] \ disturbed[r] = {} \/ inDoubt,
           accepted' = [accepted EXCEPT ![r] = @ \cup {n}],
           disturbed' = IF inDoubt THEN [disturbed EXCEPT ![r] = @ \cup {n}] ELSE disturbed
    PROVE  Promised
<1>1. [q \in ReplyIds |-> Phase(q)]' = [q \in ReplyIds |-> Phase(q)]
  BY DEF SamePhases
<1>2. n \in accepted'[r]
  BY DEF TypeOK
<1>3. Delivery!Deliver(r, n, inDoubt)
  BY <1>1 DEF Delivery!Deliver, Delivery!Certain
<1> QED
  BY <1>2, <1>3 DEF Promised, Delivery!Next

\* An open reply ends as sent when something was accepted, as failed when nothing certainly was.
LEMMA FinishPromised ==
    ASSUME UNCHANGED <<accepted, disturbed>>, NEW r \in ReplyIds, IsOpen(r), NEW end \in {"sent", "failed"},
           end = "sent" => accepted[r] # {},
           end = "failed" => accepted[r] \ disturbed[r] = {},
           Phase(r)' = end, \A q \in ReplyIds \ {r} : Phase(q)' = Phase(q)
    PROVE  Promised
<1>1. Phase(r) = "open"
  BY DEF Phase, IsOpen, OpenStatus, TerminalStatus
<1>2. [q \in ReplyIds |-> Phase(q)]' = [[q \in ReplyIds |-> Phase(q)] EXCEPT ![r] = end]
  OBVIOUS
<1>3. Delivery!Finish(r, end)
  BY <1>1, <1>2 DEF Delivery!Finish, Delivery!Certain
<1> QED
  BY <1>3 DEF Promised, Delivery!Next

\* The replies a transaction stored are promised together when it commits.
LEMMA EnqueuePromised ==
    ASSUME UNCHANGED <<accepted, disturbed>>, NEW some \in SUBSET ReplyIds,
           \A r \in some : replies[r].status = "uncommitted" /\ replies'[r].status = "pending",
           \A q \in ReplyIds \ some : Phase(q)' = Phase(q)
    PROVE  Promised
<1>1. \A r \in some : Phase(r) = "none" /\ Phase(r)' = "open"
  BY DEF Phase, IsOpen, OpenStatus, TerminalStatus
<1>2. [q \in ReplyIds |-> Phase(q)]'
          = [q \in ReplyIds |-> IF q \in some THEN "open" ELSE [r \in ReplyIds |-> Phase(r)][q]]
  BY <1>1
<1>3. \A r \in some : [q \in ReplyIds |-> Phase(q)][r] = "none"
  BY <1>1
<1>4. Delivery!Enqueue(some)
  BY <1>2, <1>3 DEF Delivery!Enqueue
<1> QED
  BY <1>4 DEF Promised, Delivery!Next

\* Retention forgets a reply that has ended.
LEMMA ForgetPromised ==
    ASSUME TypeOK, NEW r \in ReplyIds, CleanupTelegramReplyHistory(r)
    PROVE  Promised
<1>1. /\ replies[r].status \in TerminalStatus /\ replies'[r] = RemovedReply
      /\ \A q \in ReplyIds \ {r} : replies'[q] = replies[q]
  BY DEF CleanupTelegramReplyHistory, TypeOK
<1>2. RemovedReply.status = "removed"
  BY DEF RemovedReply, UnusedReply
<1>3. Phase(r) = replies[r].status /\ Phase(r)' = "none"
  BY <1>1, <1>2 DEF Phase, IsOpen, OpenStatus, TerminalStatus
<1>4. \A q \in ReplyIds \ {r} : Phase(q)' = Phase(q)
  BY <1>1 DEF Phase, IsOpen
<1>5. [q \in ReplyIds |-> Phase(q)]' = [[q \in ReplyIds |-> Phase(q)] EXCEPT ![r] = "none"]
  BY <1>3, <1>4
<1>6. Delivery!Forget(r)
  BY <1>1, <1>3, <1>5 DEF Delivery!Forget, Delivery!Ends, CleanupTelegramReplyHistory, TerminalStatus
<1> QED
  BY <1>6 DEF Promised, Delivery!Next

\* The phase of a row follows from its status.
LEMMA PhaseOf ==
    ASSUME NEW r \in ReplyIds
    PROVE  /\ replies'[r].status = replies[r].status => Phase(r)' = Phase(r)
           /\ replies[r].status \in OpenStatus /\ replies'[r].status \in OpenStatus => Phase(r)' = Phase(r)
           /\ replies'[r].status \in TerminalStatus => Phase(r)' = replies'[r].status
           /\ /\ replies[r].status \in {"unused", "uncommitted", "removed"}
              /\ replies'[r].status \in {"unused", "uncommitted", "removed"}
              => Phase(r)' = Phase(r)
           /\ Committed(r) => Phase(r) # "none"
  BY DEF Phase, IsOpen, OpenStatus, TerminalStatus, Committed

\* A sending worker's acceptance is the first of its claim, and a copy beyond the first is one
\* in doubt: the lock of its chat was lost with its session.
LEMMA SendPromised ==
    ASSUME IInv, AcceptedOnce, NEW w \in Workers, workers[w].pc = "sending",
           replies' = replies, accepted' = Record(accepted, w),
           disturbed' = disturbed \/ disturbed' = Record(disturbed, w)
    PROVE  Promised
<1> DEFINE r == workers[w].reply
           n == workers[w].attempts
<1>1. TypeOK /\ r \in ReplyIds /\ Committed(r) /\ SamePhases
  BY PhaseOf DEF IInv, Fences, ClaimsExist, Busy, SamePhases
<1>2. Phase(r) # "none"
  BY <1>1, PhaseOf
<1>3. n \notin accepted[r]
  BY DEF AcceptedOnce
<1>4. accepted' = [accepted EXCEPT ![r] = @ \cup {n}]
  BY DEF Record
<1>5. CASE disturbed' = Record(disturbed, w)
  BY <1>1, <1>2, <1>3, <1>4, <1>5, DeliverPromised DEF Record
<1>6. CASE disturbed' = disturbed /\ n \in disturbed[r]
  <2>1. disturbed' = [disturbed EXCEPT ![r] = @ \cup {n}]
    BY <1>1, <1>6 DEF TypeOK
  <2> QED
    BY <1>1, <1>2, <1>3, <1>4, <2>1, DeliverPromised
<1>7. CASE disturbed' = disturbed /\ n \notin disturbed[r]
  <2>1. HoldsLock(w)
    BY <1>7 DEF IInv, Fences, CriticalLocked, Critical
  <2>2. n = replies[r].attempts
    BY <2>1 DEF IInv, Fences, ValidatedIsLast, Validated, ReplyOf
  <2>3. accepted[r] \ disturbed[r] = {}
    BY <1>1, <1>3, <2>2 DEF IInv, Fences, AcceptedIsLast
  <2> QED
    BY <1>1, <1>2, <1>3, <1>4, <1>7, <2>3, DeliverPromised
<1> QED
  BY <1>5, <1>6, <1>7

\* A mark's transaction ends a reply as a delivery may end: sent by the worker whose message was
\* accepted, failed only if no copy was certain.
LEMMA WriteOutcomePromised ==
    ASSUME IInv, AcceptedOnce, NEW w \in Workers, UNCHANGED <<accepted, disturbed>>,
           NEW status \in {"pending", "failed", "sent"},
           status = "sent" => workers[w].pc = "finalizing",
           status # "sent" => workers[w].pc = "marking",
           WriteOutcome(w, status)
    PROVE  Promised
<1>0. PICK r \in ReplyIds : r = workers[w].reply
  BY DEF IInv, Fences, ClaimsExist, Busy
<1>1. TypeOK
  BY DEF IInv
<1>2. CASE ~Owns(w)
  <2>1. replies' = replies
    BY <1>2 DEF WriteOutcome
  <2> QED
    BY <2>1, PhaseOf, NothingPromised DEF SamePhases
<1>3. CASE Owns(w)
  <2>1. replies'[r].status = status /\ \A q \in ReplyIds \ {r} : replies'[q] = replies[q]
    BY <1>0, <1>1, <1>3, WrittenRow
  <2>2. /\ replies[r].status = "sending" /\ IsOpen(r) /\ replies[r].status \in OpenStatus
        /\ replies[r].attempts = workers[w].attempts
    BY <1>0, <1>3 DEF Owns, ReplyOf, IsOpen, OpenStatus
  <2>3. \A q \in ReplyIds \ {r} : Phase(q)' = Phase(q)
    BY <2>1, PhaseOf
  <2>4. CASE status = "pending"
    <3>1. Phase(r)' = Phase(r)
      BY <2>1, <2>2, <2>4, PhaseOf DEF OpenStatus
    <3>2. SamePhases
      BY <2>3, <3>1 DEF SamePhases
    <3> QED
      BY <3>2, NothingPromised
  <2>5. CASE status = "sent"
    <3>1. Phase(r)' = "sent"
      BY <2>1, <2>5, PhaseOf DEF TerminalStatus
    <3>2. accepted[r] # {}
      BY <1>0, <2>5 DEF AcceptedOnce
    <3> QED
      BY <2>2, <2>3, <3>1, <3>2, FinishPromised
  <2>6. CASE status = "failed"
    <3>1. Phase(r)' = "failed"
      BY <2>1, <2>6, PhaseOf DEF TerminalStatus
    <3>2. accepted[r] \ disturbed[r] = {}
      <4> SUFFICES ASSUME NEW a \in accepted[r] \ disturbed[r] PROVE FALSE
        OBVIOUS
      <4>1. a = replies[r].attempts /\ \E v \in Workers : /\ workers[v].pc = "finalizing"
                                                          /\ workers[v].reply = r /\ workers[v].attempts = a
        BY <2>2 DEF IInv, Fences, AcceptedIsLast
      <4> QED
        BY <1>0, <2>2, <2>6, <4>1 DEF IInv, Fences, ClaimsDistinct, Busy
    <3> QED
      BY <2>2, <2>3, <3>1, <3>2, FinishPromised
  <2> QED
    BY <2>4, <2>5, <2>6
<1> QED
  BY <1>2, <1>3

\* Every step of the outbox is a step of a delivery or none of its business.
LEMMA StepPromised ==
    ASSUME IInv, AcceptedOnce, Next
    PROVE  Promised
<1>0. /\ TypeOK /\ ClaimsExist
      /\ \A w \in Workers : workers[w].pc # "idle" => workers[w].reply \in ReplyIds
  BY DEF IInv, Fences, ClaimsExist, Busy
<1>a. (\A r \in ReplyIds : replies'[r].status = replies[r].status) => SamePhases
  BY PhaseOf DEF SamePhases
<1>b. replies' = replies /\ UNCHANGED <<accepted, disturbed>> => Promised
  BY <1>a, NothingPromised
<1>c. ASSUME NEW w \in Workers, workers[w].pc # "idle", replies' = replies, accepted' = accepted,
             disturbed' = Record(disturbed, w)
      PROVE  Promised
  BY <1>0, <1>a, <1>c, DoubtPromised DEF Record
<1>1. ASSUME NEW h \in Handlers, HandlerStep(h) PROVE Promised
  <2>1. ASSUME NEW operation \in {"send_message", "edit_message"}, InsertReply(h, operation)
        PROVE  Promised
    <3>0. PICK row : row = NewReply(h, operation)
      OBVIOUS
    <3>1. PICK r \in ReplyIds : replies[r].status = "unused" /\ replies' = [replies EXCEPT ![r] = row]
      BY <2>1, <3>0 DEF InsertReply, NewReply
    <3>2. row.status = "uncommitted"
      BY <1>0, <3>0, NewReplyType
    <3>3. replies'[r].status = "uncommitted" /\ \A q \in ReplyIds \ {r} : replies'[q] = replies[q]
      BY <1>0, <3>1, <3>2 DEF TypeOK
    <3>4. SamePhases
      BY <3>1, <3>3, PhaseOf DEF SamePhases
    <3> QED
      BY <2>1, <3>4, NothingPromised DEF InsertReply, ghosts
  <2> QED
    BY <1>1, <1>b, <2>1 DEF HandlerStep, HandlerBegin, LoseHandlerSession, ghosts
<1>2. ASSUME NEW h \in Handlers, NEW committed \in BOOLEAN, HandlerEnd(h, committed) PROVE Promised
  <2>0. PICK some \in SUBSET ReplyIds :
             some = {r \in ReplyIds : replies[r].status = "uncommitted" /\ replies[r].writer = h}
    OBVIOUS
  <2>1. /\ UNCHANGED <<accepted, disturbed>>
        /\ \A q \in ReplyIds \ some : replies'[q] = replies[q]
        /\ \A r \in some : replies[r].status = "uncommitted"
        /\ committed => \A r \in some : replies'[r].status = "pending"
        /\ ~committed => \A r \in some : replies'[r].status = "removed"
    <3>1. UNCHANGED <<accepted, disturbed>>
      BY <1>2 DEF HandlerEnd
    <3>2. ASSUME NEW q \in ReplyIds \ some PROVE replies'[q] = replies[q]
      BY <1>0, <1>2, <2>0, <3>2, EndedRow
    <3>3. ASSUME NEW r \in some
          PROVE  /\ replies[r].status = "uncommitted" /\ replies[r].writer = h
                 /\ committed => replies'[r].status = "pending"
                 /\ ~committed => replies'[r].status = "removed"
      BY <1>0, <1>2, <2>0, <3>3, EndedRow
    <3> QED
      BY <3>1, <3>2, <3>3
  <2>2. \A q \in ReplyIds \ some : Phase(q)' = Phase(q)
    BY <2>1, PhaseOf
  <2>3. CASE committed
    BY <2>1, <2>2, <2>3, EnqueuePromised
  <2>4. CASE ~committed
    <3>1. SamePhases
      BY <2>1, <2>2, <2>4, PhaseOf DEF SamePhases
    <3> QED
      BY <2>1, <3>1, NothingPromised
  <2> QED
    BY <2>3, <2>4
<1>3. ASSUME NEW w \in Workers, NEW r \in ReplyIds, ClaimPendingTelegramReply(w, r) PROVE Promised
  <2>1. /\ replies'[r].status = "sending" /\ \A q \in ReplyIds \ {r} : replies'[q] = replies[q]
        /\ replies[r].status \in OpenStatus /\ replies'[r].status \in OpenStatus
        /\ UNCHANGED <<accepted, disturbed>>
    BY <1>0, <1>3, ClaimedRow DEF ClaimPendingTelegramReply, Claimable, IsOpen, OpenStatus, ghosts
  <2>2. SamePhases
    BY <2>1, PhaseOf DEF SamePhases
  <2> QED
    BY <2>1, <2>2, NothingPromised
<1>4. ASSUME NEW w \in Workers, WorkerStep(w) PROVE Promised
  <2>1. CASE SendAccepted(w) \/ SendNotModified(w)
    BY <2>1, SendPromised DEF SendAccepted, SendNotModified, Apply
  <2>2. ASSUME NEW reached \in BOOLEAN, SendFailed(w, reached) PROVE Promised
    BY <1>b, <2>2, SendPromised DEF SendFailed, Apply
  <2>3. CASE MarkTelegramReply(w)
    <3>1. workers[w].outcome \in {"pending", "failed"}
      BY <1>0, <2>3 DEF MarkTelegramReply, ClaimsExist, Busy, TypeOK, WorkerType
    <3>2. PICK status \in {"pending", "failed"} : status = workers[w].outcome
      BY <3>1
    <3>3. WriteOutcome(w, status) /\ workers[w].pc = "marking" /\ UNCHANGED <<accepted, disturbed>>
      BY <2>3, <3>2 DEF MarkTelegramReply, ghosts
    <3> QED
      BY <3>3, WriteOutcomePromised
  <2>4. CASE FinalizeSent(w)
    BY <2>4, WriteOutcomePromised DEF FinalizeSent, ghosts
  <2>5. ASSUME NEW committed \in BOOLEAN, FinalizeError(w, committed) PROVE Promised
    BY <1>b, <2>5, WriteOutcomePromised DEF FinalizeError, ghosts
  <2> QED
    BY <1>4, <1>b, <2>1, <2>2, <2>3, <2>4, <2>5
    DEF WorkerStep, AcquireTelegramChatLock, DeferTelegramReply, EnsureTelegramReplyClaimCurrent,
        BeginSend, SendRejected, ReleaseTelegramChatLock, ghosts
<1>5. ASSUME NEW w \in Workers, WorkerFault(w) PROVE Promised
  <2>1. ASSUME NEW reached \in BOOLEAN, Crash(w, reached) PROVE Promised
    BY <1>c, <2>1, SendPromised DEF Crash, Apply
  <2> QED
    BY <1>5, <1>b, <1>c, <2>1 DEF WorkerFault, MarkError, FinalizeGiveUp, LoseLockSession, Stall, ghosts
<1>6. ASSUME NEW r \in ReplyIds, CleanupTelegramReplyHistory(r) PROVE Promised
  BY <1>0, <1>6, ForgetPromised
<1>7. ASSUME NEW c \in Chats, ReapSession(c) PROVE Promised
  BY <1>7, <1>b DEF ReapSession, ghosts
<1>8. CASE Tick
  <2>1. \A r \in ReplyIds : replies'[r].status = replies[r].status
    BY <1>0, <1>8, TickedRow
  <2> QED
    BY <1>8, <1>a, <2>1, NothingPromised DEF Tick, ghosts
<1> QED
  BY <1>1, <1>2, <1>3, <1>4, <1>5, <1>6, <1>7, <1>8 DEF Next

\* The reply outbox implements DurableDelivery for every number of workers, replies, faults and
\* updates: a reply ends once, sent only if accepted, failed only if no copy was certain, and a
\* copy beyond the first takes a doubt about it (markTelegramReplySentOnce and the claim fence).
THEOREM RepliesDelivered == Spec => ImplementsDelivery
<1>1. Init => Delivery!Init
  BY DEF Init, Delivery!Init, Phase, IsOpen, OpenStatus, TerminalStatus, UnusedReply
<1>2. Init => AcceptedOnce
  <2>1. Init => (\A w \in Workers : workers[w].pc = "idle") /\ \A r \in ReplyIds : accepted[r] = {}
    BY DEF Init, IdleWorker
  <2> QED
    BY <2>1 DEF AcceptedOnce
<1>3. IInv /\ TypeOK' /\ AcceptedOnce /\ [Next]_vars => AcceptedOnce'
  <2>1. ASSUME AcceptedOnce, UNCHANGED vars PROVE AcceptedOnce'
    BY <2>1 DEF vars, AcceptedOnce, Committed
  <2> QED
    BY <2>1, AcceptedStep
<1>4. IInv /\ AcceptedOnce /\ [Next]_vars => [Delivery!Next]_(Delivery!vars)
  <2>1. UNCHANGED vars => UNCHANGED Delivery!vars
    BY DEF vars, Delivery!vars, Phase, IsOpen
  <2> QED
    BY <2>1, StepPromised DEF Promised
<1>5. Spec => []AcceptedOnce
  BY <1>2, <1>3, RepliesConsistent, TypeCorrect, PTL DEF Spec
<1> QED
  BY <1>1, <1>4, <1>5, RepliesConsistent, PTL DEF Spec, ImplementsDelivery, Delivery!Spec
=============================================================================
