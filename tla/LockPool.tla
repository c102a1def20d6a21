----------------------------- MODULE LockPool ------------------------------
(***************************************************************************)
(* The two connection pools of a replica.  Session-level advisory locks,   *)
(* one per chat and one for cron, live on connections of the lock pool;    *)
(* everything else, also what is done under a lock, takes connections of   *)
(* the query pool.  A worker waits for its chat's lock on its connection,  *)
(* a cron request only tries.                                              *)
(*                                                                         *)
(* PostgreSQL releases the locks of a session when its backend ends, which *)
(* may be a while after the connection was discarded (orphans).            *)
(*                                                                         *)
(* A worker that did not get its lock records the error in the query pool  *)
(* while it holds nothing, which is what the plain users do all the time.  *)
(***************************************************************************)
EXTENDS Integers, FiniteSets

CONSTANTS
    Workers,        \* update, notification and reply workers
    Crons,          \* /cron requests
    Plain,          \* users of the query pool only: webhook, claims, ticker, cleaner
    Chats,
    LockPoolSize,   \* DatabaseLockPoolMaxOpenConnections
    QueryPoolSize,  \* DatabaseQueryPoolMaxOpenConnections
    Reserve,        \* CronLockConnectionReserve + LockPoolOperationalReserve
    MaxFaults       \* bound: timeouts, errors and lost sessions

\* policy.go: the workers leave the reserve of the lock pool free.
ASSUME PoolAssumption ==
    /\ LockPoolSize \in Nat /\ QueryPoolSize \in Nat \ {0} /\ Reserve \in Nat /\ MaxFaults \in Nat
    /\ IsFiniteSet(Workers) /\ Cardinality(Workers) + Reserve <= LockPoolSize
    /\ "cron" \notin Chats
    /\ Workers \cap Crons = {} /\ Plain \cap (Workers \cup Crons) = {}

Keys == Chats \cup {"cron"}
Clients == Workers \cup Crons \cup Plain
Slots == 1..LockPoolSize

VARIABLES
    clients,   \* [pc, key, slot] of each user
    sessions,  \* connections of the lock pool: [use, held, dead]
    orphans,   \* keys still held by the backend of a discarded connection
    open,      \* per client, its connections of the query pool
    faults

vars == <<clients, sessions, orphans, open, faults>>

Idle == [pc |-> "idle", key |-> "none", slot |-> 0]
NoSession == [use |-> "none", held |-> {}, dead |-> FALSE]

Init ==
    /\ clients = [p \in Clients |-> Idle]
    /\ sessions = [i \in Slots |-> NoSession]
    /\ orphans = {}
    /\ open = [p \in Clients |-> 0]
    /\ faults = 0

Fault == faults < MaxFaults /\ faults' = faults + 1
Goto(p, pc) == clients' = [clients EXCEPT ![p].pc = pc]

-----------------------------------------------------------------------------
(* The lock pool *)

\* A worker has claimed a job of chat c; a cron request has been admitted.
WantLock(p, key) ==
    /\ clients[p].pc = "idle" /\ IF p \in Crons THEN key = "cron" ELSE key \in Chats
    /\ clients' = [clients EXCEPT ![p] = [pc |-> "connecting", key |-> key, slot |-> 0]]
    /\ UNCHANGED <<sessions, orphans, open, faults>>

\* lockDatabase().Conn: an idle connection, or a new one below the pool's limit.
Connect(p, i) ==
    /\ clients[p].pc = "connecting" /\ sessions[i].use # "used"
    /\ clients' = [clients EXCEPT ![p].pc = "locking", ![p].slot = i]
    /\ sessions' = [sessions EXCEPT ![i].use = "used"]
    /\ UNCHANGED <<orphans, open, faults>>

Grantable(p) == LET key == clients[p].key IN
    /\ key \notin orphans
    /\ \A i \in Slots \ {clients[p].slot} : key \notin sessions[i].held

\* What PostgreSQL does for pg_advisory_lock and a successful pg_try_advisory_lock.
Granted(p) == [sessions EXCEPT ![clients[p].slot].held = @ \cup {clients[p].key}]

\* Variant with a mistake: the lock is only tried, and the answer is not looked at.
LockChatTried(p) ==
    /\ p \in Workers /\ clients[p].pc = "locking" /\ ~sessions[clients[p].slot].dead
    /\ sessions' = IF Grantable(p) THEN Granted(p) ELSE sessions
    /\ Goto(p, "locked")
    /\ UNCHANGED <<orphans, open, faults>>

\* acquireTelegramChatAdvisoryLock: pg_advisory_lock waits until it is granted.
LockChat(p) ==
    /\ p \in Workers /\ clients[p].pc = "locking" /\ ~sessions[clients[p].slot].dead /\ Grantable(p)
    /\ sessions' = Granted(p)
    /\ Goto(p, "locked")
    /\ UNCHANGED <<orphans, open, faults>>

\* acquireCronAdvisoryLock: without the lock the connection goes back and the answer is 409.
TryCronLock(p) ==
    LET i == clients[p].slot IN
    /\ p \in Crons /\ clients[p].pc = "locking" /\ ~sessions[i].dead
    /\ IF Grantable(p)
       THEN sessions' = Granted(p) /\ Goto(p, "locked")
       ELSE sessions' = [sessions EXCEPT ![i].use = "idle"] /\ clients' = [clients EXCEPT ![p] = Idle]
    /\ UNCHANGED <<orphans, open, faults>>

\* Variant with a mistake: Close puts the connection back into the pool, its lock included.
PutBack(i) ==
    /\ sessions' = [sessions EXCEPT ![i].use = "idle"]
    /\ UNCHANGED orphans

\* Variant with a mistake: the connection is forgotten.
Forgotten(i) == UNCHANGED <<sessions, orphans>>

\* DiscardConnection: the connection leaves the pool; its backend ends now or a little later.
DiscardConnection(i) ==
    /\ sessions' = [sessions EXCEPT ![i] = NoSession]
    /\ \E left \in {{}, sessions[i].held} : orphans' = orphans \cup left

\* The pool stays exhausted until the context's deadline.
ConnectTimeout(p) ==
    /\ clients[p].pc = "connecting" /\ \A i \in Slots : sessions[i].use = "used"
    /\ Fault
    /\ clients' = [clients EXCEPT ![p] = Idle]
    /\ UNCHANGED <<sessions, orphans, open>>

\* The query for the lock fails on a lost session, or is given up at its deadline.
SessionError(p) ==
    /\ clients[p].pc = "locking" /\ sessions[clients[p].slot].dead
    /\ DiscardConnection(clients[p].slot)
    /\ clients' = [clients EXCEPT ![p] = Idle]
    /\ UNCHANGED <<open, faults>>

AcquireTimeout(p) ==
    /\ clients[p].pc = "locking" /\ ~sessions[clients[p].slot].dead
    /\ Fault
    /\ DiscardConnection(clients[p].slot)
    /\ clients' = [clients EXCEPT ![p] = Idle]
    /\ UNCHANGED open

\* The lock is granted but the answer does not arrive in time.
GrantedTooLate(p) ==
    /\ clients[p].pc = "locking" /\ ~sessions[clients[p].slot].dead /\ Grantable(p)
    /\ sessions' = Granted(p)
    /\ Goto(p, "late")
    /\ Fault
    /\ UNCHANGED <<orphans, open>>

GiveUpLate(p) ==
    /\ clients[p].pc = "late"
    /\ DiscardConnection(clients[p].slot)
    /\ clients' = [clients EXCEPT ![p] = Idle]
    /\ UNCHANGED <<open, faults>>

\* ReleaseAdvisoryLock: the connection goes back only after a confirmed unlock.
ReleaseAdvisoryLock(p) ==
    LET i == clients[p].slot IN
    /\ clients[p].pc = "unlocking"
    /\ IF sessions[i].dead
       THEN DiscardConnection(i)
       ELSE sessions' = [sessions EXCEPT ![i].use = "idle", ![i].held = @ \ {clients[p].key}]
            /\ UNCHANGED orphans
    /\ clients' = [clients EXCEPT ![p] = Idle]
    /\ UNCHANGED <<open, faults>>

\* The unlock fails, or its answer is lost.
ReleaseFails(p) ==
    /\ clients[p].pc = "unlocking"
    /\ Fault
    /\ DiscardConnection(clients[p].slot)
    /\ clients' = [clients EXCEPT ![p] = Idle]
    /\ UNCHANGED open

\* The session ends on PostgreSQL's side while the client goes on unaware.
LoseSession(i) ==
    /\ sessions[i].use = "used" /\ ~sessions[i].dead
    /\ Fault
    /\ sessions' = [sessions EXCEPT ![i].dead = TRUE, ![i].held = {}]
    /\ UNCHANGED <<clients, orphans, open>>

\* An idle connection reaches its maximal lifetime.
CloseIdle(i) ==
    /\ sessions[i].use = "idle"
    /\ sessions' = [sessions EXCEPT ![i] = NoSession]
    /\ UNCHANGED <<clients, orphans, open, faults>>

BackendEnds(key) ==
    /\ key \in orphans
    /\ orphans' = orphans \ {key}
    /\ UNCHANGED <<clients, sessions, open, faults>>

-----------------------------------------------------------------------------
(* The query pool *)

\* Number of connections in use; a client has at most two.
InUse == Cardinality({p \in Clients : open[p] >= 1}) + Cardinality({p \in Clients : open[p] >= 2})

\* Variant with a mistake: locks and queries share one pool (App.lockDB not set).
FreeInSharedPool == InUse + Cardinality({i \in Slots : sessions[i].use = "used"}) < QueryPoolSize

QueryConnectionFree == InUse < QueryPoolSize

\* A transaction begins: under a lock, or without one for a plain user of the pool.
BeginTx(p) ==
    /\ \/ clients[p].pc = "locked"
       \/ p \in Plain /\ clients[p].pc = "idle"
    /\ QueryConnectionFree
    /\ open' = [open EXCEPT ![p] = @ + 1]
    /\ Goto(p, "inTx")
    /\ UNCHANGED <<sessions, orphans, faults>>

AfterTx(p) == IF p \in Plain THEN "idle" ELSE "unlocking"

\* It commits.
EndTx(p) ==
    /\ clients[p].pc = "inTx"
    /\ open' = [open EXCEPT ![p] = @ - 1]
    /\ Goto(p, AfterTx(p))
    /\ UNCHANGED <<sessions, orphans, faults>>

RollBack(p) == open' = [open EXCEPT ![p] = @ - 1]

\* It fails: processTelegramUpdateJob rolls it back and then records the error with a
\* connection of its own.
TxFails(p) ==
    /\ p \in Workers /\ clients[p].pc = "inTx"
    /\ Fault
    /\ RollBack(p)
    /\ Goto(p, "failed")
    /\ UNCHANGED <<sessions, orphans>>

\* markTelegramUpdateProcessingError.
MarkError(p) ==
    /\ clients[p].pc = "failed" /\ QueryConnectionFree
    /\ open' = [open EXCEPT ![p] = @ + 1]
    /\ Goto(p, "marking")
    /\ UNCHANGED <<sessions, orphans, faults>>

EndMark(p) ==
    /\ clients[p].pc = "marking"
    /\ open' = [open EXCEPT ![p] = 0]
    /\ Goto(p, "unlocking")
    /\ UNCHANGED <<sessions, orphans, faults>>

-----------------------------------------------------------------------------
ClientStep(p) ==
    \/ \E i \in Slots : Connect(p, i)
    \/ LockChat(p) \/ TryCronLock(p) \/ SessionError(p) \/ GiveUpLate(p) \/ ReleaseAdvisoryLock(p)
    \/ BeginTx(p) \/ EndTx(p) \/ MarkError(p) \/ EndMark(p)

ClientFault(p) ==
    ConnectTimeout(p) \/ AcquireTimeout(p) \/ GrantedTooLate(p) \/ ReleaseFails(p) \/ TxFails(p)

Next ==
    \/ \E p \in Workers \cup Crons, key \in Keys : WantLock(p, key)
    \/ \E p \in Clients : ClientStep(p) \/ ClientFault(p)
    \/ \E i \in Slots : LoseSession(i) \/ CloseIdle(i)
    \/ \E key \in Keys : BackendEnds(key)

Spec == Init /\ [][Next]_vars

\* database/sql serves requests for a connection, and PostgreSQL those for a lock, in the order
\* they came, so a client that can go on again and again does (strong fairness).  No timeout is
\* counted on.
Fairness ==
    /\ \A p \in Clients : SF_vars(ClientStep(p))
    /\ \A key \in Keys : WF_vars(BackendEnds(key))

FairSpec == Spec /\ Fairness

-----------------------------------------------------------------------------
(* Properties *)

\* The variables keep their types.
TypeOK ==
    /\ clients \in [Clients -> [pc : {"idle", "connecting", "locking", "late", "locked", "inTx", "failed",
                                      "marking", "unlocking"},
                                key : Keys \cup {"none"}, slot : 0..LockPoolSize]]
    /\ sessions \in [Slots -> [use : {"none", "idle", "used"}, held : SUBSET Keys, dead : BOOLEAN]]
    /\ orphans \in SUBSET Keys
    /\ open \in [Clients -> 0..2]
    /\ faults \in 0..MaxFaults

\* ReleaseAdvisoryLock, DiscardConnection: whatever failed, a connection in the pool holds no
\* advisory lock and is not a lost one.  A lock that stays on an idle session would block its
\* chat, or cron, on every replica.
IdleSessionsHoldNoLock == \A i \in Slots :
    sessions[i].use # "used" => sessions[i].held = {} /\ ~sessions[i].dead

AtWork(p) == clients[p].pc \in {"locked", "inTx", "failed", "marking"} /\ p \notin Plain

\* Two clients never work under the same lock, unless one has lost its session unaware: no
\* two cron requests overlap and no two workers act for one chat.
LockIsExclusive == \A p, q \in Workers \cup Crons :
    p # q /\ AtWork(p) /\ AtWork(q) /\ clients[p].key = clients[q].key =>
        sessions[clients[p].slot].dead \/ sessions[clients[q].slot].dead

\* README: the lock budget covers the workers, a cron lock and a reserve.  As long as no more
\* cron requests than the reserve have a connection, a worker finds one at once: no error path
\* leaks a connection.
BudgetCoversWorkers ==
    Cardinality({p \in Crons : clients[p].slot # 0}) <= Reserve =>
        \A p \in Workers : clients[p].pc = "connecting" => \E i \in Slots : sessions[i].use # "used"

\* Everybody who asked for a connection or a lock gets through without the help of a timeout:
\* those who wait for a lock never hold what its holder needs.
EveryoneGetsThrough == \A p \in Clients : clients[p].pc # "idle" ~> clients[p].pc = "idle"
=============================================================================
