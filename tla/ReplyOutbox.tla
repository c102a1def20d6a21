----------------------------- MODULE ReplyOutbox -----------------------------
(***************************************************************************)
(* The reply outbox: the transaction that processes a user's update stores *)
(* the replies to it, and the reply workers of every replica claim, send   *)
(* and finalize them, the replies of one chat in the order of their ids.   *)
(*                                                                         *)
(* An id is drawn from a sequence when the row is inserted, and the row is *)
(* seen by others only when its transaction commits; the chat's advisory   *)
(* lock is what makes the two orders agree.  Times are held as in          *)
(* NotificationOutbox: the ticks left, -1 for a lease that has passed.     *)
(***************************************************************************)
EXTENDS Integers, FiniteSets

CONSTANTS
    Chats,
    Workers,              \* replyWorker goroutines of all replicas
    Handlers,             \* update workers of all replicas
    ReplyIds,             \* ids of telegram_replies: 1..n
    ClaimWindow,          \* TelegramReplyClaimWindow
    SafetyWindow,         \* TelegramSendLeaseSafetyWindow
    LockTimeout,          \* rest of the claiming call, and TelegramChatLockTimeout
    ValidationTimeout,    \* TelegramReplyClaimValidationTimeout
    SendTimeout,          \* HTTP timeout of the Telegram client
    MarkTimeout,          \* timeout of a mark* transaction and of an unlock
    FinalizationBudget,   \* sentFinalizationBudget
    MaxFinalizations,     \* tries of the sent transaction
    MaxAttempts,          \* TelegramReplyMaxAttempts
    Minute,               \* ticks in a minute
    MaxBackoff,           \* cap of the backoff, in minutes
    MaxRetryAfter,        \* bound: longest retry_after of a Telegram error, in ticks
    CandidateLimit,       \* OutboxClaimCandidateLimit
    MaxFaults             \* bound: faults of the environment

ASSUME ReplyIdsAssumption == ReplyIds \subseteq Nat \ {0}

ASSUME ReplyActorsAssumption ==
    /\ (Workers \cup Handlers) \cap {"free", "orphan"} = {}
    /\ Workers \cap Handlers = {}

ASSUME ReplyWindowsAssumption ==
    /\ {ClaimWindow, SafetyWindow, LockTimeout, ValidationTimeout, SendTimeout, MarkTimeout,
        FinalizationBudget, CandidateLimit, MaxRetryAfter, MaxFaults} \subseteq Nat
    /\ {MaxFinalizations, MaxAttempts, Minute, MaxBackoff} \subseteq Nat \ {0}

\* A claim found valid outlives the call that validated it and the send after it.
ASSUME ReplySafetyWindowAssumption == ValidationTimeout + SendTimeout <= SafetyWindow

\* The claim window covers the lock wait, the validation, the send and its finalization,
\* and a claim validated as late as its timeouts allow still has the safety margin.
ASSUME ReplyClaimWindowAssumption ==
    /\ \A last \in {MarkTimeout, FinalizationBudget} :
           LockTimeout + ValidationTimeout + SendTimeout + last <= ClaimWindow
    /\ LockTimeout + ValidationTimeout + SafetyWindow < ClaimWindow

VARIABLES
    replies,      \* rows of telegram_replies
    handlers,     \* per update worker: the chat of its transaction, or NoChat
    chatLock,     \* holder of each chat's advisory lock
    workers,      \* local state of each replyWorker
    shown,        \* per chat, the reply Telegram applied last
    accepted,     \* per reply, the claims whose message Telegram accepted
    disturbed,    \* per reply, the claims hit by a fault that hides their outcome
    unserialized, \* chats with a transaction that committed after losing its lock
    faults        \* faults so far

vars == <<replies, handlers, chatLock, workers, shown, accepted, disturbed, unserialized, faults>>
ghosts == <<shown, accepted, disturbed, unserialized>>

NoChat == "none"
OpenStatus == {"pending", "sending"}
TerminalStatus == {"sent", "failed"}
Critical == {"locked", "validated", "sending", "finalizing"}
Timed == {"claimed", "marking", "releasing"} \cup Critical

Least(a, b) == IF a < b THEN a ELSE b
Down(t, floor) == IF t > floor THEN t - 1 ELSE floor

UnusedReply == [status |-> "unused", chat |-> NoChat, operation |-> "send_message", writer |-> "none",
                attempts |-> 0, claim_token |-> 0, claimed_until |-> -1, next_attempt_at |-> 0]

\* A row rolled back or deleted; its id is not drawn again.
RemovedReply == [UnusedReply EXCEPT !.status = "removed"]

IdleWorker == [pc |-> "idle", reply |-> 0, attempts |-> 0, left |-> 0, finals |-> 0,
               outcome |-> "none", stalled |-> FALSE]

Init ==
    /\ replies = [r \in ReplyIds |-> UnusedReply]
    /\ handlers = [h \in Handlers |-> NoChat]
    /\ chatLock = [c \in Chats |-> "free"]
    /\ workers = [w \in Workers |-> IdleWorker]
    /\ shown = [c \in Chats |-> 0]
    /\ accepted = [r \in ReplyIds |-> {}]
    /\ disturbed = [r \in ReplyIds |-> {}]
    /\ unserialized = {}
    /\ faults = 0

IsOpen(r) == replies[r].status \in OpenStatus
ReplyOf(w) == replies[workers[w].reply]
ChatOf(w) == ReplyOf(w).chat
HoldsLock(w) == chatLock[ChatOf(w)] = w

\* WHERE status = 'sending' AND claim_token = $ AND attempts = $
Owns(w) == /\ ReplyOf(w).status = "sending"
           /\ ReplyOf(w).claim_token = workers[w].attempts
           /\ ReplyOf(w).attempts = workers[w].attempts

Goto(w, pc, left) == workers' = [workers EXCEPT ![w].pc = pc, ![w].left = left]
Fault == faults < MaxFaults /\ faults' = faults + 1
Record(log, w) == [log EXCEPT ![workers[w].reply] = @ \cup {workers[w].attempts}]

\* workers.RetryDelay: linear backoff, capped.
RetryDelay(attempts) == Least(IF attempts < 1 THEN 1 ELSE attempts, MaxBackoff) * Minute

-----------------------------------------------------------------------------
(* The producer: processTelegramUpdateJob around its transaction *)

HandlerBegin(h, c) ==
    /\ handlers[h] = NoChat /\ chatLock[c] = "free"
    /\ \E r \in ReplyIds : replies[r].status = "unused"
    /\ handlers' = [handlers EXCEPT ![h] = c]
    /\ chatLock' = [chatLock EXCEPT ![c] = h]
    /\ UNCHANGED <<replies, workers, ghosts, faults>>

\* Variant with a mistake: each session caches ids of its own.
InsertReplyCached(h, operation) ==
    /\ handlers[h] # NoChat
    /\ \E r \in ReplyIds :
         /\ replies[r].status = "unused"
         /\ replies' = [replies EXCEPT ![r] = [UnusedReply EXCEPT !.status = "uncommitted",
                            !.chat = handlers[h], !.operation = operation, !.writer = h]]
    /\ UNCHANGED <<handlers, chatLock, workers, ghosts, faults>>

\* One INSERT of completeTelegramUpdateTx: the id is the sequence's next value.
InsertReply(h, operation) ==
    /\ handlers[h] # NoChat
    /\ \E r \in ReplyIds :
         /\ replies[r].status = "unused"
         /\ \A q \in ReplyIds : q < r => replies[q].status # "unused"
         /\ replies' = [replies EXCEPT ![r] = [UnusedReply EXCEPT !.status = "uncommitted",
                            !.chat = handlers[h], !.operation = operation, !.writer = h]]
    /\ UNCHANGED <<handlers, chatLock, workers, ghosts, faults>>

\* The transaction ends and the lock is released: its rows appear together, or are gone.
HandlerEnd(h, committed) ==
    LET c == handlers[h] IN
    /\ c # NoChat
    /\ replies' = [r \in ReplyIds |->
           IF replies[r].status = "uncommitted" /\ replies[r].writer = h
           THEN IF committed THEN [replies[r] EXCEPT !.status = "pending", !.writer = "none"]
                             ELSE RemovedReply
           ELSE replies[r]]
    /\ handlers' = [handlers EXCEPT ![h] = NoChat]
    /\ chatLock' = IF chatLock[c] = h THEN [chatLock EXCEPT ![c] = "free"] ELSE chatLock
    /\ unserialized' = IF chatLock[c] = h THEN unserialized ELSE unserialized \cup {c}
    /\ UNCHANGED <<workers, shown, accepted, disturbed, faults>>

LoseHandlerSession(h) ==
    /\ handlers[h] # NoChat /\ chatLock[handlers[h]] = h
    /\ Fault
    /\ chatLock' = [chatLock EXCEPT ![handlers[h]] = "free"]
    /\ UNCHANGED <<replies, handlers, workers, ghosts>>

-----------------------------------------------------------------------------
(* A reply worker *)

\* Variant with a mistake: an expired lease is not taken over.
ClaimableIfPending(r) ==
    /\ replies[r].status = "pending" /\ replies[r].next_attempt_at = 0
    /\ \A q \in ReplyIds : q < r /\ replies[q].chat = replies[r].chat => ~IsOpen(q)

\* WHERE clause of the candidate query, repeated by the claiming UPDATE.
Claimable(r) ==
    /\ IsOpen(r)
    /\ replies[r].next_attempt_at = 0
    /\ replies[r].status = "pending" \/ replies[r].claimed_until = -1
    /\ \A q \in ReplyIds : q < r /\ replies[q].chat = replies[r].chat => ~IsOpen(q)

Older(r) == {q \in ReplyIds : q < r /\ Claimable(q)}

\* claimPendingTelegramReply: the first candidate whose chat lock is free.
ClaimPendingTelegramReply(w, r) ==
    /\ workers[w].pc = "idle"
    /\ Claimable(r)
    /\ Cardinality(Older(r)) < CandidateLimit
    /\ chatLock[replies[r].chat] = "free"
    /\ \A q \in Older(r) : chatLock[replies[q].chat] # "free"
    /\ replies' = [replies EXCEPT ![r].status = "sending", ![r].attempts = @ + 1,
                       ![r].claim_token = replies[r].attempts + 1, ![r].claimed_until = ClaimWindow]
    /\ workers' = [workers EXCEPT ![w] = [IdleWorker EXCEPT !.pc = "claimed", !.reply = r,
                       !.attempts = replies[r].attempts + 1, !.left = LockTimeout]]
    /\ UNCHANGED <<handlers, chatLock, ghosts, faults>>

AcquireTelegramChatLock(w) ==
    /\ workers[w].pc = "claimed"
    /\ chatLock[ChatOf(w)] = "free"
    /\ chatLock' = [chatLock EXCEPT ![ChatOf(w)] = w]
    /\ Goto(w, "locked", ValidationTimeout)
    /\ UNCHANGED <<replies, handlers, ghosts, faults>>

Decide(w, outcome) ==
    workers' = [workers EXCEPT ![w].pc = "marking", ![w].left = MarkTimeout, ![w].outcome = outcome]

RetryOrFail(w) == IF workers[w].attempts >= MaxAttempts THEN "failed" ELSE "pending"

\* deferTelegramReply: the lock wait or the validation timed out, failed, or was canceled
\* by a shutdown.
DeferTelegramReply(w) ==
    /\ workers[w].pc \in {"claimed", "locked", "validated"}
    /\ Decide(w, RetryOrFail(w))
    /\ UNCHANGED <<replies, handlers, chatLock, ghosts, faults>>

\* Variant with a mistake: no margin for the send.
ClaimCurrentToTheEnd(w) == Owns(w) /\ ReplyOf(w).claimed_until > 0

ClaimCurrent(w) == Owns(w) /\ ReplyOf(w).claimed_until > SafetyWindow

\* ensureTelegramReplyClaimCurrent, when the database evaluates it; a worker paused earlier
\* runs again by now.
EnsureTelegramReplyClaimCurrent(w) ==
    /\ workers[w].pc = "locked"
    /\ IF ClaimCurrent(w)
       THEN workers' = [workers EXCEPT ![w].pc = "validated", ![w].stalled = FALSE]
       ELSE Goto(w, "releasing", MarkTimeout)
    /\ UNCHANGED <<replies, handlers, chatLock, ghosts, faults>>

\* sendTelegramReply starts.
BeginSend(w) ==
    /\ workers[w].pc = "validated"
    /\ Goto(w, "sending", SendTimeout)
    /\ UNCHANGED <<replies, handlers, chatLock, ghosts, faults>>

\* The reply's text is in place at Telegram.
Apply(w) == /\ accepted' = Record(accepted, w)
            /\ shown' = [shown EXCEPT ![ChatOf(w)] = workers[w].reply]

SendAccepted(w) ==
    /\ workers[w].pc = "sending"
    /\ Apply(w)
    /\ Goto(w, "finalizing", FinalizationBudget)
    /\ UNCHANGED <<replies, handlers, chatLock, disturbed, unserialized, faults>>

\* Telegram answers "message is not modified": the message already reads so, which for an
\* edit is success.
SendNotModified(w) ==
    /\ workers[w].pc = "sending"
    /\ ReplyOf(w).operation = "edit_message"
    /\ Apply(w)
    /\ Goto(w, "finalizing", FinalizationBudget)
    /\ UNCHANGED <<replies, handlers, chatLock, disturbed, unserialized, faults>>

SendRejected(w) ==
    /\ workers[w].pc = "sending"
    /\ Decide(w, "failed")
    /\ UNCHANGED <<replies, handlers, chatLock, ghosts, faults>>

\* Variant with a mistake: an error is taken for success.
SendErrorIgnored(w, reached) ==
    /\ workers[w].pc = "sending"
    /\ Goto(w, "finalizing", FinalizationBudget)
    /\ IF reached THEN Apply(w) ELSE UNCHANGED <<accepted, shown>>
    /\ UNCHANGED <<replies, handlers, chatLock, disturbed, unserialized, faults>>

\* A transient error, after which Telegram may or may not have applied the message.
SendFailed(w, reached) ==
    /\ workers[w].pc = "sending"
    /\ Decide(w, RetryOrFail(w))
    /\ IF reached THEN Apply(w) /\ disturbed' = Record(disturbed, w)
                  ELSE UNCHANGED <<accepted, shown, disturbed>>
    /\ UNCHANGED <<replies, handlers, chatLock, unserialized, faults>>

\* telegramRetryDelay, as in NotificationOutbox.
RetryDelays(attempts) == {RetryDelay(attempts)} \cup (RetryDelay(attempts)..MaxRetryAfter)

\* The UPDATE of a mark*, which changes nothing when the claim is not current.
WriteOutcome(w, status) ==
    LET r == workers[w].reply IN
    IF Owns(w)
    THEN \E delay \in IF status = "pending" THEN RetryDelays(workers[w].attempts)
                                            ELSE {replies[r].next_attempt_at} :
             replies' = [replies EXCEPT ![r].status = status, ![r].claim_token = 0,
                             ![r].claimed_until = -1, ![r].next_attempt_at = delay]
    ELSE UNCHANGED replies

\* markTelegramReplyRetry, markTelegramReplyFailed.
MarkTelegramReply(w) ==
    /\ workers[w].pc = "marking"
    /\ WriteOutcome(w, workers[w].outcome)
    /\ Goto(w, "releasing", MarkTimeout)
    /\ UNCHANGED <<handlers, chatLock, ghosts, faults>>

MarkError(w) ==
    /\ workers[w].pc = "marking"
    /\ Fault
    /\ Goto(w, "releasing", MarkTimeout)
    /\ UNCHANGED <<replies, handlers, chatLock, ghosts>>

\* finalize: markTelegramReplySentOnce commits or finds the claim gone.
FinalizeSent(w) ==
    /\ workers[w].pc = "finalizing"
    /\ WriteOutcome(w, "sent")
    /\ Goto(w, "releasing", MarkTimeout)
    /\ UNCHANGED <<handlers, chatLock, ghosts, faults>>

\* A try that reports an error: rolled back, or committed with the answer lost.
FinalizeError(w, committed) ==
    /\ workers[w].pc = "finalizing"
    /\ workers[w].finals + 1 < MaxFinalizations
    /\ workers' = [workers EXCEPT ![w].finals = @ + 1]
    /\ IF committed THEN Owns(w) /\ WriteOutcome(w, "sent") ELSE UNCHANGED replies
    /\ UNCHANGED <<handlers, chatLock, ghosts, faults>>

\* The last try fails, or the budget runs out between two tries.
FinalizeGiveUp(w) ==
    /\ workers[w].pc = "finalizing"
    /\ workers[w].finals + 1 = MaxFinalizations \/ workers[w].left = 0
    /\ Fault
    /\ disturbed' = Record(disturbed, w)
    /\ Goto(w, "releasing", MarkTimeout)
    /\ UNCHANGED <<replies, handlers, chatLock, shown, accepted, unserialized>>

ReleaseTelegramChatLock(w) ==
    /\ workers[w].pc = "releasing"
    /\ chatLock' = IF HoldsLock(w) THEN [chatLock EXCEPT ![ChatOf(w)] = "free"] ELSE chatLock
    /\ workers' = [workers EXCEPT ![w] = IdleWorker]
    /\ UNCHANGED <<replies, handlers, ghosts, faults>>

-----------------------------------------------------------------------------
(* Faults, retention and time *)

\* The process dies; its lock session lingers until the server notices.
Crash(w, reached) ==
    /\ workers[w].pc # "idle"
    /\ reached => workers[w].pc = "sending"
    /\ Fault
    /\ chatLock' = IF HoldsLock(w) THEN [chatLock EXCEPT ![ChatOf(w)] = "orphan"] ELSE chatLock
    /\ IF reached THEN Apply(w) ELSE UNCHANGED <<accepted, shown>>
    /\ disturbed' = Record(disturbed, w)
    /\ workers' = [workers EXCEPT ![w] = IdleWorker]
    /\ UNCHANGED <<replies, handlers, unserialized>>

ReapSession(c) ==
    /\ chatLock[c] = "orphan"
    /\ chatLock' = [chatLock EXCEPT ![c] = "free"]
    /\ UNCHANGED <<replies, handlers, workers, ghosts, faults>>

\* The session that holds the lock is lost while its worker carries on unaware.
LoseLockSession(w) ==
    /\ workers[w].pc # "idle" /\ HoldsLock(w)
    /\ Fault
    /\ chatLock' = [chatLock EXCEPT ![ChatOf(w)] = "free"]
    /\ disturbed' = Record(disturbed, w)
    /\ UNCHANGED <<replies, handlers, workers, shown, accepted, unserialized>>

\* The worker is paused: from here on its timeouts do not bound the time it takes.
Stall(w) ==
    /\ workers[w].pc # "idle" /\ ~workers[w].stalled
    /\ Fault
    /\ workers' = [workers EXCEPT ![w].stalled = TRUE]
    /\ UNCHANGED <<replies, handlers, chatLock, ghosts>>

\* cleanupTelegramReplyHistory: terminal rows go after a week or a month, when no worker is
\* left in their job.
CleanupTelegramReplyHistory(r) ==
    /\ replies[r].status \in TerminalStatus
    /\ \A w \in Workers : workers[w].reply # r
    /\ replies' = [replies EXCEPT ![r] = RemovedReply]
    /\ accepted' = [accepted EXCEPT ![r] = {}]
    /\ disturbed' = [disturbed EXCEPT ![r] = {}]
    /\ UNCHANGED <<handlers, chatLock, workers, shown, unserialized, faults>>

\* One tick: no running call outlives its timeout, unless its worker is paused.
Tick ==
    /\ \A w \in Workers : workers[w].pc \in Timed /\ ~workers[w].stalled => workers[w].left > 0
    /\ replies' = [r \in ReplyIds |-> [replies[r] EXCEPT
           !.claimed_until = Down(@, -1), !.next_attempt_at = Down(@, 0)]]
    /\ workers' = [w \in Workers |-> [workers[w] EXCEPT !.left = Down(@, 0)]]
    /\ UNCHANGED <<handlers, chatLock, ghosts, faults>>

-----------------------------------------------------------------------------

WorkerStep(w) ==
    \/ AcquireTelegramChatLock(w) \/ DeferTelegramReply(w) \/ EnsureTelegramReplyClaimCurrent(w)
    \/ BeginSend(w) \/ SendAccepted(w) \/ SendNotModified(w) \/ SendRejected(w)
    \/ \E reached \in BOOLEAN : SendFailed(w, reached)
    \/ MarkTelegramReply(w) \/ FinalizeSent(w)
    \/ \E committed \in BOOLEAN : FinalizeError(w, committed)
    \/ ReleaseTelegramChatLock(w)

WorkerFault(w) ==
    \/ MarkError(w) \/ FinalizeGiveUp(w) \/ LoseLockSession(w) \/ Stall(w)
    \/ \E reached \in BOOLEAN : Crash(w, reached)

HandlerStep(h) ==
    \/ \E c \in Chats : HandlerBegin(h, c)
    \/ \E operation \in {"send_message", "edit_message"} : InsertReply(h, operation)
    \/ LoseHandlerSession(h)

Next ==
    \/ \E h \in Handlers : HandlerStep(h) \/ \E committed \in BOOLEAN : HandlerEnd(h, committed)
    \/ \E w \in Workers, r \in ReplyIds : ClaimPendingTelegramReply(w, r)
    \/ \E w \in Workers : WorkerStep(w) \/ WorkerFault(w)
    \/ \E r \in ReplyIds : CleanupTelegramReplyHistory(r)
    \/ \E c \in Chats : ReapSession(c)
    \/ Tick

Spec == Init /\ [][Next]_vars

\* As in NotificationOutbox: loops run, calls end by their timeouts, sessions of dead
\* processes close, transactions end, and a polling worker meets a moment at which the
\* chat is free when such moments come again and again.
Fairness ==
    /\ WF_vars(Tick)
    /\ \A w \in Workers : WF_vars(WorkerStep(w))
    /\ \A r \in ReplyIds : SF_vars(\E w \in Workers : ClaimPendingTelegramReply(w, r))
    /\ \A h \in Handlers : WF_vars(\E committed \in BOOLEAN : HandlerEnd(h, committed))
    /\ \A c \in Chats : WF_vars(ReapSession(c))

FairSpec == Spec /\ Fairness

-----------------------------------------------------------------------------
(* Properties *)

ReplyType == [status : {"unused", "uncommitted", "removed"} \cup OpenStatus \cup TerminalStatus,
              chat : Chats \cup {NoChat}, operation : {"send_message", "edit_message"},
              writer : Handlers \cup {"none"}, attempts : Nat, claim_token : Nat,
              claimed_until : -1..ClaimWindow, next_attempt_at : Nat]

WorkerType == [pc : {"idle"} \cup Timed, reply : ReplyIds \cup {0}, attempts : Nat, left : Nat,
               finals : Nat, outcome : {"none", "pending", "failed"}, stalled : BOOLEAN]

\* Every variable keeps its type.
TypeOK ==
    /\ replies \in [ReplyIds -> ReplyType]
    /\ handlers \in [Handlers -> Chats \cup {NoChat}]
    /\ chatLock \in [Chats -> Workers \cup Handlers \cup {"free", "orphan"}]
    /\ workers \in [Workers -> WorkerType]
    /\ shown \in [Chats -> ReplyIds \cup {0}]
    /\ accepted \in [ReplyIds -> SUBSET Nat]
    /\ disturbed \in [ReplyIds -> SUBSET Nat]
    /\ unserialized \subseteq Chats
    /\ faults \in 0..MaxFaults

\* Once a later reply of the chat has reached the user, no earlier one is open any more:
\* retries, crashes and expired leases never let a reply be overtaken.  Only an update
\* whose transaction ran on without its chat lock can commit replies late.
NeverOvertaken ==
    \A c \in Chats \ unserialized : \A r \in ReplyIds :
        replies[r].chat = c /\ r < shown[c] => ~IsOpen(r)

\* What the user sees never goes back from a later reply to an earlier one, even when an
\* old claim is carried out late: for that a worker must be paused between the validation
\* of its claim and the end of its send, and have lost its lock session too.
NeverGoesBack ==
    [][\A c \in Chats :
          shown'[c] < shown[c] /\ c \notin unserialized
          => \E w \in Workers : workers[w].pc = "sending" /\ workers[w].stalled /\ ~HoldsLock(w)]_vars

Phase(r) == CASE IsOpen(r) -> "open"
              [] replies[r].status \in TerminalStatus -> replies[r].status
              [] OTHER -> "none"

Delivery == INSTANCE DurableDelivery WITH
    Jobs <- ReplyIds, phase <- [r \in ReplyIds |-> Phase(r)], doubted <- disturbed

\* The outbox implements DurableDelivery: replies end once and for good, sent only if
\* accepted and failed only if no copy was certain, and no fault but a doubt about the
\* first copy makes a second one.
ImplementsDelivery == Delivery!Spec

\* Every committed reply is eventually sent or failed: a reply that cannot be delivered
\* holds the chat up only until its attempts are used up.
EveryReplyFinishes == \A r \in ReplyIds : IsOpen(r) ~> ~IsOpen(r)
=============================================================================
