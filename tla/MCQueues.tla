------------------------------ MODULE MCQueues ------------------------------
(* The inbox and the reply outbox for TLC, to see that each of them drains. *)
EXTENDS TelegramInbox

CONSTANTS Handlers, ReplyWorkers, ReplyIds

VARIABLES replies, handlers, replyLock, replyWorkers, shown, accepted, disturbed,
          unserialized, replyFaults

Outbox == INSTANCE ReplyOutbox WITH
    Workers <- ReplyWorkers,
    ClaimWindow <- 4, SafetyWindow <- 2, LockTimeout <- 0, ValidationTimeout <- 1, SendTimeout <- 1,
    MarkTimeout <- 0, FinalizationBudget <- 0, MaxFinalizations <- 2, Minute <- 1, MaxBackoff <- 1,
    MaxRetryAfter <- 2, CandidateLimit <- 2,
    chatLock <- replyLock, workers <- replyWorkers, faults <- replyFaults

outboxVars == <<replies, handlers, replyLock, replyWorkers, shown, accepted, disturbed,
                unserialized, replyFaults>>

\* A behaviour is one of the inbox or one of the outbox: each queue moves while the other is
\* still as it was at the start.  Where they meet, the chat's lock, each models the other side.
EitherNext ==
    \/ Next /\ Outbox!Init /\ UNCHANGED outboxVars
    \/ Outbox!Next /\ Init /\ UNCHANGED vars

QueuesSpec == /\ Init /\ Outbox!Init /\ [][EitherNext]_<<vars, outboxVars>>
              /\ Fairness /\ Outbox!Fairness

EveryReplyFinishes == Outbox!EveryReplyFinishes
=============================================================================
