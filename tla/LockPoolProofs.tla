-------------------------- MODULE LockPoolProofs ---------------------------
(***************************************************************************)
(* The advisory locks of a replica, for any number of workers, cron        *)
(* requests, chats and connections and any number of faults: a connection  *)
(* in the pool holds no lock, no two clients work under the same one, and  *)
(* no error path leaks a connection.                                       *)
(***************************************************************************)
EXTENDS LockPool, FiniteSetTheorems, TLAPS

Lockers == Workers \cup Crons
Outside == {"idle", "connecting"}
Working == {"locked", "inTx", "failed", "marking", "unlocking"}
Places == Outside \cup {"locking", "late"} \cup Working
ClientType == [pc : Places, key : Keys \cup {"none"}, slot : 0..LockPoolSize]
SessionType == [use : {"none", "idle", "used"}, held : SUBSET Keys, dead : BOOLEAN]

\* A client that asked for a lock has a connection of its own from Connect to its release.
OwnSlot ==
    /\ \A p \in Plain : clients[p].pc \in {"idle", "inTx"}
    /\ \A p \in Lockers : clients[p].pc \notin Outside =>
           clients[p].slot \in Slots /\ sessions[clients[p].slot].use = "used" /\ clients[p].key \in Keys
    /\ \A p \in Lockers : clients[p].pc = "connecting" => clients[p].key \in Keys
    /\ \A p, q \in Lockers :
           clients[p].pc \notin Outside /\ clients[q].pc \notin Outside /\ p # q => clients[p].slot # clients[q].slot

\* Its session holds nothing while it waits, and its own key afterwards, unless it was lost.
OwnKeyOnly == \A p \in Lockers :
    /\ clients[p].pc = "locking" => sessions[clients[p].slot].held = {}
    /\ clients[p].pc \in Working \cup {"late"} =>
           \/ sessions[clients[p].slot].held = {clients[p].key}
           \/ sessions[clients[p].slot].held = {} /\ sessions[clients[p].slot].dead

\* PostgreSQL grants a key to one session.
GrantedOnce == \A i, j \in Slots : i # j => sessions[i].held \cap sessions[j].held = {}

\* The locks are where they belong.
LocksInv ==
    /\ clients \in [Clients -> ClientType] /\ sessions \in [Slots -> SessionType]
    /\ OwnSlot /\ OwnKeyOnly /\ GrantedOnce /\ IdleSessionsHoldNoLock

\* A client has a connection of the query pool exactly while it uses it.
QueriesInv ==
    /\ open \in [Clients -> 0..2]
    /\ \A p \in Clients : open[p] = IF clients[p].pc \in {"inTx", "marking"} THEN 1 ELSE 0
    /\ orphans \in SUBSET Keys /\ faults \in 0..MaxFaults

\* The inductive invariant.
IInv == LocksInv /\ QueriesInv

-----------------------------------------------------------------------------
(* The shapes of a step on the lock pool *)

\* Nobody has a connection at the start.
LEMMA InitIInv == Init => IInv
<1> SUFFICES ASSUME Init PROVE IInv
  OBVIOUS
<1> USE PoolAssumption DEF Init, Idle, NoSession
<1>1. clients \in [Clients -> ClientType] /\ sessions \in [Slots -> SessionType]
  BY DEF ClientType, SessionType, Places, Outside
<1>2. \A p \in Clients : clients[p].pc = "idle"
  OBVIOUS
<1>3. \A i \in Slots : sessions[i].held = {} /\ ~sessions[i].dead
  OBVIOUS
<1>4. OwnSlot /\ OwnKeyOnly
  BY <1>2 DEF OwnSlot, OwnKeyOnly, Lockers, Clients, Outside, Working
<1>5. GrantedOnce /\ IdleSessionsHoldNoLock
  BY <1>3 DEF GrantedOnce, IdleSessionsHoldNoLock
<1>6. QueriesInv
  BY <1>2 DEF QueriesInv
<1> QED BY <1>1, <1>4, <1>5, <1>6 DEF IInv, LocksInv

\* A client goes from one place under its lock to another, or a plain client begins or ends a
\* transaction.
LEMMA Moves ==
    ASSUME LocksInv, NEW p \in Clients, NEW place \in Working \cup {"idle"},
           \/ p \in Lockers /\ clients[p].pc \in Working /\ place \in Working
           \/ p \in Plain /\ place \in {"idle", "inTx"},
           Goto(p, place), UNCHANGED sessions
    PROVE  LocksInv'
<1> USE DEF LocksInv
<1>1. clients' = [clients EXCEPT ![p] = [clients[p] EXCEPT !.pc = place]]
  BY DEF Goto, ClientType
<1>2. clients' \in [Clients -> ClientType]
  BY <1>1 DEF ClientType, Places, Outside
<1>3. \A q \in Clients \ {p} : clients'[q] = clients[q]
  BY <1>1
<1>4. clients'[p].pc = place /\ clients'[p].slot = clients[p].slot /\ clients'[p].key = clients[p].key
  BY <1>1 DEF ClientType
<1>5. OwnSlot'
  BY <1>3, <1>4, PoolAssumption DEF OwnSlot, Lockers, Clients, Working, Outside
<1>6. OwnKeyOnly'
  BY <1>3, <1>4, PoolAssumption DEF OwnKeyOnly, Lockers, Clients, Working
<1>7. GrantedOnce' /\ IdleSessionsHoldNoLock'
  BY DEF GrantedOnce, IdleSessionsHoldNoLock
<1> QED BY <1>2, <1>5, <1>6, <1>7

\* A client gives its connection back, or away.
LEMMA Leaves ==
    ASSUME LocksInv, NEW p \in Lockers, clients[p].pc \notin Outside,
           NEW s \in SessionType, s.use # "used", s.held = {}, ~s.dead,
           clients' = [clients EXCEPT ![p] = Idle],
           sessions' = [sessions EXCEPT ![clients[p].slot] = s]
    PROVE  LocksInv'
<1> USE DEF LocksInv
<1> DEFINE i == clients[p].slot
<1>1. p \in Clients /\ i \in Slots
  BY DEF OwnSlot, Lockers, Clients
<1>2. clients' \in [Clients -> ClientType] /\ sessions' \in [Slots -> SessionType]
  BY <1>1, PoolAssumption DEF ClientType, Places, Outside, Idle
<1>3. clients'[p].pc = "idle" /\ \A q \in Clients \ {p} : clients'[q] = clients[q]
  BY <1>1 DEF Idle
<1>4. sessions'[i] = s /\ \A j \in Slots \ {i} : sessions'[j] = sessions[j]
  BY <1>1
<1>5. \A q \in Lockers \ {p} : clients'[q] = clients[q] /\ (clients[q].pc \notin Outside => clients[q].slot \in Slots \ {i})
  BY <1>1, <1>3 DEF OwnSlot, Lockers, Clients
<1>6. OwnSlot'
  <2>1. \A q \in Plain : clients'[q] = clients[q]
    BY <1>3, PoolAssumption DEF Lockers, Clients
  <2> QED BY <1>3, <1>4, <1>5, <2>1 DEF OwnSlot, Outside
<1>7. OwnKeyOnly'
  <2> SUFFICES ASSUME NEW q \in Lockers
               PROVE  /\ clients'[q].pc = "locking" => sessions'[clients'[q].slot].held = {}
                      /\ clients'[q].pc \in Working \cup {"late"} =>
                           \/ sessions'[clients'[q].slot].held = {clients'[q].key}
                           \/ sessions'[clients'[q].slot].held = {} /\ sessions'[clients'[q].slot].dead
    BY DEF OwnKeyOnly
  <2>1. CASE q = p
    BY <1>3, <2>1 DEF Working
  <2>2. CASE q # p /\ clients[q].pc \in Outside
    BY <1>5, <2>2 DEF Working, Outside
  <2>3. CASE q # p /\ clients[q].pc \notin Outside
    <3>1. clients'[q] = clients[q] /\ sessions'[clients[q].slot] = sessions[clients[q].slot]
      BY <1>4, <1>5, <2>3
    <3> QED BY <3>1 DEF OwnKeyOnly
  <2> QED BY <2>1, <2>2, <2>3
<1>8. GrantedOnce' /\ IdleSessionsHoldNoLock'
  BY <1>1, <1>4 DEF GrantedOnce, IdleSessionsHoldNoLock
<1> QED BY <1>2, <1>6, <1>7, <1>8

\* A connection is discarded.
LEMMA Discards ==
    ASSUME LocksInv, NEW p \in Lockers, clients[p].pc \notin Outside,
           clients' = [clients EXCEPT ![p] = Idle], DiscardConnection(clients[p].slot)
    PROVE  LocksInv'
<1>1. /\ NoSession \in SessionType /\ NoSession.use # "used" /\ NoSession.held = {} /\ ~NoSession.dead
      /\ sessions' = [sessions EXCEPT ![clients[p].slot] = NoSession]
  BY DEF NoSession, SessionType, DiscardConnection
<1> QED BY <1>1, Leaves

\* What a discarded session may leave behind.
LEMMA OrphansTyped ==
    ASSUME IInv, NEW i \in Slots, DiscardConnection(i)
    PROVE  orphans' \in SUBSET Keys
BY DEF IInv, LocksInv, QueriesInv, DiscardConnection, SessionType

\* A lock is granted.
LEMMA Grants ==
    ASSUME LocksInv, NEW p \in Lockers, clients[p].pc = "locking", ~sessions[clients[p].slot].dead,
           Grantable(p), sessions' = Granted(p), NEW place \in {"locked", "late"}, Goto(p, place)
    PROVE  LocksInv'
<1> USE DEF LocksInv
<1> DEFINE i == clients[p].slot
           key == clients[p].key
<1>1. p \in Clients /\ i \in Slots /\ key \in Keys /\ sessions[i].held = {} /\ sessions[i].use = "used"
  BY DEF OwnSlot, OwnKeyOnly, Lockers, Clients, Outside
<1>2. clients' = [clients EXCEPT ![p] = [clients[p] EXCEPT !.pc = place]]
  BY <1>1 DEF Goto, ClientType
<1>3. sessions' = [sessions EXCEPT ![i] = [sessions[i] EXCEPT !.held = {key}]]
  BY <1>1 DEF Granted, SessionType
<1>4. clients' \in [Clients -> ClientType]
  BY <1>1, <1>2 DEF ClientType, Places, Outside, Working
<1>5. sessions' \in [Slots -> SessionType]
  BY <1>1, <1>3 DEF SessionType
<1>6. /\ clients'[p].pc = place /\ clients'[p].slot = i /\ clients'[p].key = key
      /\ \A q \in Clients \ {p} : clients'[q] = clients[q]
  BY <1>1, <1>2 DEF ClientType
<1>7. /\ sessions'[i].held = {key} /\ sessions'[i].use = "used"
      /\ \A j \in Slots \ {i} : sessions'[j] = sessions[j]
  BY <1>1, <1>3 DEF SessionType
<1>8. \A q \in Lockers \ {p} : clients'[q] = clients[q] /\ (clients[q].pc \notin Outside => clients[q].slot \in Slots \ {i})
  BY <1>1, <1>6 DEF OwnSlot, Lockers, Clients, Outside
<1>9. OwnSlot'
  <2>1. \A q \in Plain : clients'[q] = clients[q]
    BY <1>6, PoolAssumption DEF Lockers, Clients
  <2> QED BY <1>1, <1>6, <1>7, <1>8, <2>1 DEF OwnSlot, Outside
<1>10. OwnKeyOnly'
  <2> SUFFICES ASSUME NEW q \in Lockers
               PROVE  /\ clients'[q].pc = "locking" => sessions'[clients'[q].slot].held = {}
                      /\ clients'[q].pc \in Working \cup {"late"} =>
                           \/ sessions'[clients'[q].slot].held = {clients'[q].key}
                           \/ sessions'[clients'[q].slot].held = {} /\ sessions'[clients'[q].slot].dead
    BY DEF OwnKeyOnly
  <2>1. CASE q = p
    BY <1>6, <1>7, <2>1
  <2>2. CASE q # p /\ clients[q].pc \in Outside
    BY <1>8, <2>2 DEF Working, Outside
  <2>3. CASE q # p /\ clients[q].pc \notin Outside
    <3>1. clients'[q] = clients[q] /\ sessions'[clients[q].slot] = sessions[clients[q].slot]
      BY <1>7, <1>8, <2>3
    <3> QED BY <3>1 DEF OwnKeyOnly
  <2> QED BY <2>1, <2>2, <2>3
<1>11. GrantedOnce'
  <2>1. \A j \in Slots \ {i} : key \notin sessions[j].held
    BY DEF Grantable
  <2> QED BY <1>1, <1>7, <2>1 DEF GrantedOnce
<1>12. IdleSessionsHoldNoLock'
  BY <1>7 DEF IdleSessionsHoldNoLock
<1> QED BY <1>4, <1>5, <1>9, <1>10, <1>11, <1>12

\* A client asks for a lock.
LEMMA Wants == ASSUME LocksInv, NEW p \in Lockers, NEW key \in Keys, WantLock(p, key) PROVE LocksInv'
<1> USE DEF LocksInv
<1>1. clients' = [clients EXCEPT ![p] = [pc |-> "connecting", key |-> key, slot |-> 0]] /\ UNCHANGED sessions
  BY DEF WantLock
<1>2. p \in Clients /\ 0 \in 0..LockPoolSize
  BY PoolAssumption DEF Lockers, Clients
<1>3. clients' \in [Clients -> ClientType]
  BY <1>1, <1>2 DEF ClientType, Places, Outside
<1>4. clients'[p].pc = "connecting" /\ clients'[p].key = key /\ \A q \in Clients \ {p} : clients'[q] = clients[q]
  BY <1>1, <1>2
<1>5. OwnSlot'
  BY <1>1, <1>4, PoolAssumption DEF OwnSlot, Lockers, Clients, Outside
<1>6. OwnKeyOnly'
  BY <1>1, <1>4 DEF OwnKeyOnly, Lockers, Clients, Working
<1>7. GrantedOnce' /\ IdleSessionsHoldNoLock'
  BY <1>1 DEF GrantedOnce, IdleSessionsHoldNoLock
<1> QED BY <1>1, <1>3, <1>5, <1>6, <1>7

\* It gets a connection, which holds nothing.
LEMMA Connects == ASSUME LocksInv, NEW p \in Lockers, NEW i \in Slots, Connect(p, i) PROVE LocksInv'
<1> USE DEF LocksInv
<1>1. p \in Clients /\ clients[p].pc = "connecting" /\ sessions[i].use # "used" /\ i \in 0..LockPoolSize
  BY PoolAssumption DEF Lockers, Clients, Connect, Slots
<1>2. clients' = [clients EXCEPT ![p] = [clients[p] EXCEPT !.pc = "locking", !.slot = i]]
  BY <1>1 DEF Connect, ClientType
<1>3. sessions' = [sessions EXCEPT ![i] = [sessions[i] EXCEPT !.use = "used"]]
  BY <1>1 DEF Connect, SessionType
<1>4. clients' \in [Clients -> ClientType] /\ sessions' \in [Slots -> SessionType]
  <2>1. clients' \in [Clients -> ClientType]
    BY <1>1, <1>2 DEF ClientType, Places, Outside
  <2>2. sessions' \in [Slots -> SessionType]
    BY <1>3 DEF SessionType
  <2> QED BY <2>1, <2>2
<1>5. /\ clients'[p].pc = "locking" /\ clients'[p].slot = i /\ clients'[p].key = clients[p].key
      /\ \A q \in Clients \ {p} : clients'[q] = clients[q]
  BY <1>1, <1>2 DEF ClientType
<1>6. /\ sessions'[i].use = "used" /\ sessions'[i].held = sessions[i].held /\ sessions[i].held = {}
      /\ \A j \in Slots \ {i} : sessions'[j] = sessions[j]
  BY <1>1, <1>3 DEF SessionType, IdleSessionsHoldNoLock
<1>7. \A q \in Lockers \ {p} : clients'[q] = clients[q] /\ (clients[q].pc \notin Outside => clients[q].slot \in Slots \ {i})
  BY <1>1, <1>5 DEF OwnSlot, Lockers, Clients
<1>8. OwnSlot'
  <2>1. \A q \in Plain : clients'[q] = clients[q]
    BY <1>5, PoolAssumption DEF Lockers, Clients
  <2>2. clients[p].key \in Keys
    BY <1>1 DEF OwnSlot
  <2> QED BY <1>5, <1>6, <1>7, <2>1, <2>2 DEF OwnSlot, Outside
<1>9. OwnKeyOnly'
  <2> SUFFICES ASSUME NEW q \in Lockers
               PROVE  /\ clients'[q].pc = "locking" => sessions'[clients'[q].slot].held = {}
                      /\ clients'[q].pc \in Working \cup {"late"} =>
                           \/ sessions'[clients'[q].slot].held = {clients'[q].key}
                           \/ sessions'[clients'[q].slot].held = {} /\ sessions'[clients'[q].slot].dead
    BY DEF OwnKeyOnly
  <2>1. CASE q = p
    BY <1>5, <1>6, <2>1 DEF Working
  <2>2. CASE q # p /\ clients[q].pc \in Outside
    BY <1>7, <2>2 DEF Working, Outside
  <2>3. CASE q # p /\ clients[q].pc \notin Outside
    <3>1. clients'[q] = clients[q] /\ sessions'[clients[q].slot] = sessions[clients[q].slot]
      BY <1>6, <1>7, <2>3
    <3> QED BY <3>1 DEF OwnKeyOnly
  <2> QED BY <2>1, <2>2, <2>3
<1>10. GrantedOnce' /\ IdleSessionsHoldNoLock'
  BY <1>6 DEF GrantedOnce, IdleSessionsHoldNoLock
<1> QED BY <1>4, <1>8, <1>9, <1>10

\* PostgreSQL ends a session that is in use, or the pool one that is not.
LEMMA SessionEnds ==
    ASSUME LocksInv, NEW i \in Slots, LoseSession(i) \/ CloseIdle(i)
    PROVE  LocksInv'
<1> USE DEF LocksInv
<1>1. UNCHANGED clients
  BY DEF LoseSession, CloseIdle
<1>2. /\ sessions' \in [Slots -> SessionType] /\ sessions'[i].held = {}
      /\ \/ sessions[i].use = "used" /\ sessions'[i].use = "used" /\ sessions'[i].dead
         \/ sessions[i].use # "used" /\ sessions'[i].use # "used" /\ ~sessions'[i].dead
  <2>1. CASE LoseSession(i)
    BY <2>1 DEF LoseSession, SessionType
  <2>2. CASE CloseIdle(i)
    BY <2>2 DEF CloseIdle, NoSession, SessionType
  <2> QED BY <2>1, <2>2
<1>3. \A j \in Slots \ {i} : sessions'[j] = sessions[j]
  BY DEF LoseSession, CloseIdle, SessionType
<1>4. OwnSlot'
  BY <1>1, <1>2, <1>3 DEF OwnSlot
<1>5. OwnKeyOnly'
  <2> SUFFICES ASSUME NEW q \in Lockers, clients[q].pc \notin Outside
               PROVE  /\ clients[q].pc = "locking" => sessions'[clients[q].slot].held = {}
                      /\ clients[q].pc \in Working \cup {"late"} =>
                           \/ sessions'[clients[q].slot].held = {clients[q].key}
                           \/ sessions'[clients[q].slot].held = {} /\ sessions'[clients[q].slot].dead
    BY <1>1 DEF OwnKeyOnly, Outside, Working
  <2>1. clients[q].slot \in Slots /\ sessions[clients[q].slot].use = "used"
    BY DEF OwnSlot
  <2>2. CASE clients[q].slot = i
    BY <1>2, <1>3, <2>1, <2>2
  <2>3. CASE clients[q].slot # i
    <3>1. sessions'[clients[q].slot] = sessions[clients[q].slot]
      BY <1>3, <2>1, <2>3
    <3> QED BY <3>1 DEF OwnKeyOnly
  <2> QED BY <2>2, <2>3
<1>6. GrantedOnce' /\ IdleSessionsHoldNoLock'
  BY <1>2, <1>3 DEF GrantedOnce, IdleSessionsHoldNoLock
<1> QED BY <1>1, <1>2, <1>4, <1>5, <1>6

-----------------------------------------------------------------------------
(* The actions *)

\* Only clients that asked for a lock are at a place of the lock's protocol.
LEMMA PlaceOfLocker ==
    ASSUME LocksInv, NEW p \in Clients, clients[p].pc \notin {"idle", "inTx"}
    PROVE  p \in Lockers
BY DEF LocksInv, OwnSlot, Clients, Lockers

\* A step of a client on the lock pool keeps the locks in order.
LEMMA LockSteps ==
    ASSUME LocksInv, NEW p \in Clients, ClientStep(p) \/ ClientFault(p)
    PROVE  LocksInv'
<1>1. ASSUME NEW i \in Slots, Connect(p, i) PROVE LocksInv'
  BY <1>1, PlaceOfLocker, Connects DEF Connect
<1>2. CASE LockChat(p) \/ GrantedTooLate(p)
  BY <1>2, PlaceOfLocker, Grants DEF LockChat, GrantedTooLate
<1>3. CASE TryCronLock(p)
  <2>1. p \in Lockers /\ clients[p].pc = "locking" /\ ~sessions[clients[p].slot].dead
    BY <1>3, PlaceOfLocker DEF TryCronLock
  <2>2. CASE Grantable(p)
    BY <1>3, <2>1, <2>2, Grants DEF TryCronLock
  <2>3. CASE ~Grantable(p)
    <3> DEFINE s == [sessions[clients[p].slot] EXCEPT !.use = "idle"]
    <3>1. clients[p].slot \in Slots /\ sessions[clients[p].slot].held = {}
      BY <2>1 DEF LocksInv, OwnSlot, OwnKeyOnly, Outside
    <3>2. s \in SessionType /\ s.use # "used" /\ s.held = {} /\ ~s.dead
      BY <2>1, <3>1 DEF LocksInv, SessionType
    <3>3. sessions' = [sessions EXCEPT ![clients[p].slot] = s] /\ clients' = [clients EXCEPT ![p] = Idle]
      BY <1>3, <2>3, <3>1 DEF TryCronLock, LocksInv, SessionType
    <3>4. clients[p].pc \notin Outside
      BY <2>1 DEF Outside
    <3> HIDE DEF s
    <3> QED BY <2>1, <3>2, <3>3, <3>4, Leaves
  <2> QED BY <2>2, <2>3
<1>4. CASE SessionError(p) \/ AcquireTimeout(p) \/ GiveUpLate(p) \/ ReleaseFails(p)
  <2>1. /\ clients[p].pc \in {"locking", "late", "unlocking"}
        /\ clients' = [clients EXCEPT ![p] = Idle] /\ DiscardConnection(clients[p].slot)
    BY <1>4 DEF SessionError, AcquireTimeout, GiveUpLate, ReleaseFails
  <2>2. p \in Lockers /\ clients[p].pc \notin Outside
    BY <2>1, PlaceOfLocker DEF Outside
  <2> QED BY <2>1, <2>2, Discards
<1>5. CASE ReleaseAdvisoryLock(p)
  <2>1. p \in Lockers /\ clients[p].pc = "unlocking" /\ clients[p].pc \notin Outside
    BY <1>5, PlaceOfLocker DEF ReleaseAdvisoryLock, Outside
  <2>2. CASE sessions[clients[p].slot].dead
    BY <1>5, <2>1, <2>2, Discards DEF ReleaseAdvisoryLock
  <2>3. CASE ~sessions[clients[p].slot].dead
    <3> DEFINE s == [sessions[clients[p].slot] EXCEPT !.use = "idle", !.held = {}]
    <3>1. clients[p].slot \in Slots /\ sessions[clients[p].slot].held = {clients[p].key}
      BY <2>1, <2>3 DEF LocksInv, OwnSlot, OwnKeyOnly, Working
    <3>2. s \in SessionType /\ s.use # "used" /\ s.held = {} /\ ~s.dead
      BY <2>3, <3>1 DEF LocksInv, SessionType
    <3>3. sessions' = [sessions EXCEPT ![clients[p].slot] = s] /\ clients' = [clients EXCEPT ![p] = Idle]
      BY <1>5, <2>3, <3>1 DEF ReleaseAdvisoryLock, LocksInv, SessionType
    <3> HIDE DEF s
    <3> QED BY <2>1, <3>2, <3>3, Leaves
  <2> QED BY <2>2, <2>3
<1>6. CASE BeginTx(p) \/ EndTx(p) \/ MarkError(p) \/ EndMark(p) \/ TxFails(p)
  <2>1. UNCHANGED sessions /\ (p \in Lockers \/ p \in Plain)
    BY <1>6 DEF BeginTx, EndTx, MarkError, EndMark, TxFails, Clients, Lockers
  <2>2. CASE p \in Lockers
    <3>1. p \notin Plain
      BY <2>2, PoolAssumption DEF Lockers
    <3>2. clients[p].pc \in Working /\ \E place \in Working : Goto(p, place)
      BY <1>6, <3>1 DEF BeginTx, EndTx, MarkError, EndMark, TxFails, AfterTx, Working
    <3> QED BY <2>1, <2>2, <3>2, Moves
  <2>3. CASE p \in Plain
    <3>1. clients[p].pc \in {"idle", "inTx"} /\ p \notin Workers
      BY <2>3, PoolAssumption DEF LocksInv, OwnSlot
    <3>2. \E place \in {"idle", "inTx"} : Goto(p, place)
      BY <1>6, <2>3, <3>1 DEF BeginTx, EndTx, MarkError, EndMark, TxFails, AfterTx
    <3> QED BY <2>1, <2>3, <3>2, Moves DEF Working
  <2> QED BY <2>1, <2>2, <2>3
<1>7. CASE ConnectTimeout(p)
  <2> USE DEF LocksInv
  <2>1. clients' = [clients EXCEPT ![p] = Idle] /\ UNCHANGED sessions
    BY <1>7 DEF ConnectTimeout
  <2>2. clients' \in [Clients -> ClientType]
    BY <2>1, PoolAssumption DEF ClientType, Places, Outside, Idle
  <2>3. clients'[p].pc = "idle" /\ \A q \in Clients \ {p} : clients'[q] = clients[q]
    BY <2>1 DEF Idle
  <2>4. OwnSlot' /\ OwnKeyOnly' /\ GrantedOnce' /\ IdleSessionsHoldNoLock'
    BY <2>1, <2>3 DEF OwnSlot, OwnKeyOnly, GrantedOnce, IdleSessionsHoldNoLock, Lockers, Clients, Outside, Working
  <2> QED BY <2>1, <2>2, <2>4
<1> QED BY <1>1, <1>2, <1>3, <1>4, <1>5, <1>6, <1>7 DEF ClientStep, ClientFault

\* The query pool: a client opens a connection where it begins to use one and closes it where
\* it ends.
LEMMA QuerySteps ==
    ASSUME IInv, NEW p \in Clients, ClientStep(p) \/ ClientFault(p)
    PROVE  QueriesInv'
<1>1. /\ clients \in [Clients -> ClientType] /\ open \in [Clients -> 0..2]
      /\ \A q \in Clients : open[q] = IF clients[q].pc \in {"inTx", "marking"} THEN 1 ELSE 0
      /\ orphans \in SUBSET Keys /\ faults \in 0..MaxFaults /\ MaxFaults \in Nat
  BY PoolAssumption DEF IInv, LocksInv, QueriesInv
<1>2. orphans' \in SUBSET Keys
  <2>1. CASE UNCHANGED orphans
    BY <1>1, <2>1
  <2>2. CASE clients[p].pc \notin {"idle", "inTx", "connecting"} /\ DiscardConnection(clients[p].slot)
    <3>1. clients[p].slot \in Slots
      BY <2>2, PlaceOfLocker DEF IInv, LocksInv, OwnSlot, Outside
    <3> QED BY <2>2, <3>1, OrphansTyped
  <2>3. CASE SessionError(p) \/ GiveUpLate(p) \/ AcquireTimeout(p) \/ ReleaseFails(p) \/ ReleaseAdvisoryLock(p)
    <3>1. clients[p].pc \in {"locking", "late", "unlocking"} /\ (UNCHANGED orphans \/ DiscardConnection(clients[p].slot))
      BY <2>3 DEF SessionError, GiveUpLate, AcquireTimeout, ReleaseFails, ReleaseAdvisoryLock
    <3> QED BY <2>1, <2>2, <3>1
  <2>4. UNCHANGED orphans \/ SessionError(p) \/ GiveUpLate(p) \/ AcquireTimeout(p) \/ ReleaseFails(p)
        \/ ReleaseAdvisoryLock(p)
    BY DEF ClientStep, ClientFault, Connect, LockChat, TryCronLock,
           BeginTx, EndTx, MarkError, EndMark, ConnectTimeout, GrantedTooLate, TxFails
  <2> QED BY <2>1, <2>3, <2>4
<1>3. faults' \in 0..MaxFaults
  <2>1. UNCHANGED faults \/ Fault
    BY DEF ClientStep, ClientFault, Connect, LockChat, TryCronLock, SessionError, GiveUpLate, ReleaseAdvisoryLock,
           BeginTx, EndTx, MarkError, EndMark, ConnectTimeout, AcquireTimeout, GrantedTooLate, ReleaseFails, TxFails
  <2> QED BY <1>1, <2>1 DEF Fault
<1>4. ASSUME NEW n \in 0..2, open' = [open EXCEPT ![p] = n],
             \A q \in Clients \ {p} : clients'[q] = clients[q],
             n = IF clients'[p].pc \in {"inTx", "marking"} THEN 1 ELSE 0
      PROVE  QueriesInv'
  BY <1>1, <1>2, <1>3, <1>4 DEF QueriesInv
<1>5. ASSUME NEW i \in Slots, Connect(p, i) PROVE QueriesInv'
  <2>1. clients'[p].pc = "locking" /\ open[p] = 0 /\ \A q \in Clients \ {p} : clients'[q] = clients[q]
    BY <1>1, <1>5 DEF Connect, ClientType
  <2> QED BY <1>1, <1>2, <1>3, <1>5, <2>1 DEF Connect, QueriesInv
<1>6. CASE LockChat(p) \/ TryCronLock(p) \/ SessionError(p) \/ GiveUpLate(p) \/ ReleaseAdvisoryLock(p)
           \/ ConnectTimeout(p) \/ AcquireTimeout(p) \/ GrantedTooLate(p) \/ ReleaseFails(p)
  <2>1. /\ clients[p].pc \in {"connecting", "locking", "late", "unlocking"} /\ UNCHANGED open
        /\ Goto(p, "locked") \/ Goto(p, "late") \/ clients' = [clients EXCEPT ![p] = Idle]
    BY <1>6 DEF LockChat, TryCronLock, SessionError, GiveUpLate, ReleaseAdvisoryLock, ConnectTimeout,
                AcquireTimeout, GrantedTooLate, ReleaseFails
  <2>2. clients'[p].pc \in {"locked", "late", "idle"} /\ \A q \in Clients \ {p} : clients'[q] = clients[q]
    BY <1>1, <2>1 DEF Goto, Idle, ClientType
  <2> QED BY <1>1, <1>2, <1>3, <2>1, <2>2 DEF QueriesInv
<1>7. CASE BeginTx(p)
  <2>1. clients[p].pc \in {"locked", "idle"} /\ Goto(p, "inTx") /\ open' = [open EXCEPT ![p] = open[p] + 1]
    BY <1>7 DEF BeginTx
  <2>2. clients'[p].pc = "inTx" /\ \A q \in Clients \ {p} : clients'[q] = clients[q]
    BY <1>1, <2>1 DEF Goto, ClientType
  <2>3. open' = [open EXCEPT ![p] = 1]
    <3>1. open[p] = 0
      BY <1>1, <2>1
    <3>2. open[p] + 1 = 1
      BY <3>1
    <3> QED BY <2>1, <3>2
  <2> QED BY <1>4, <2>2, <2>3
<1>8. CASE EndTx(p)
  <2>1. clients[p].pc = "inTx" /\ Goto(p, AfterTx(p)) /\ open' = [open EXCEPT ![p] = open[p] - 1]
    BY <1>8 DEF EndTx
  <2>2. clients'[p].pc \in {"idle", "unlocking"} /\ \A q \in Clients \ {p} : clients'[q] = clients[q]
    BY <1>1, <2>1 DEF Goto, ClientType, AfterTx
  <2>3. open' = [open EXCEPT ![p] = 0]
    <3>1. open[p] = 1
      BY <1>1, <2>1
    <3>2. open[p] - 1 = 0
      BY <3>1
    <3> QED BY <2>1, <3>2
  <2> QED BY <1>4, <2>2, <2>3
<1>9. CASE TxFails(p)
  <2>1. clients[p].pc = "inTx" /\ Goto(p, "failed") /\ open' = [open EXCEPT ![p] = open[p] - 1]
    BY <1>9 DEF TxFails, RollBack
  <2>2. clients'[p].pc = "failed" /\ \A q \in Clients \ {p} : clients'[q] = clients[q]
    BY <1>1, <2>1 DEF Goto, ClientType
  <2>3. open' = [open EXCEPT ![p] = 0]
    <3>1. open[p] = 1
      BY <1>1, <2>1
    <3>2. open[p] - 1 = 0
      BY <3>1
    <3> QED BY <2>1, <3>2
  <2> QED BY <1>4, <2>2, <2>3
<1>10. CASE MarkError(p)
  <2>1. clients[p].pc = "failed" /\ Goto(p, "marking") /\ open' = [open EXCEPT ![p] = open[p] + 1]
    BY <1>10 DEF MarkError
  <2>2. clients'[p].pc = "marking" /\ \A q \in Clients \ {p} : clients'[q] = clients[q]
    BY <1>1, <2>1 DEF Goto, ClientType
  <2>3. open' = [open EXCEPT ![p] = 1]
    <3>1. open[p] = 0
      BY <1>1, <2>1
    <3>2. open[p] + 1 = 1
      BY <3>1
    <3> QED BY <2>1, <3>2
  <2> QED BY <1>4, <2>2, <2>3
<1>11. CASE EndMark(p)
  <2>1. clients[p].pc = "marking" /\ Goto(p, "unlocking") /\ open' = [open EXCEPT ![p] = 0]
    BY <1>11 DEF EndMark
  <2>2. clients'[p].pc = "unlocking" /\ \A q \in Clients \ {p} : clients'[q] = clients[q]
    BY <1>1, <2>1 DEF Goto, ClientType
  <2> QED BY <1>1, <1>4, <2>1, <2>2
<1> QED BY <1>5, <1>6, <1>7, <1>8, <1>9, <1>10, <1>11 DEF ClientStep, ClientFault

\* The steps that are not a client's on its way: a new wish for a lock, the ends of sessions.
LEMMA OtherSteps ==
    ASSUME IInv,
           \/ \E p \in Lockers, key \in Keys : WantLock(p, key)
           \/ \E i \in Slots : LoseSession(i) \/ CloseIdle(i)
           \/ \E key \in Keys : BackendEnds(key)
    PROVE  IInv'
<1>1. /\ clients \in [Clients -> ClientType] /\ LocksInv /\ QueriesInv
  BY DEF IInv, LocksInv
<1>2. ASSUME NEW p \in Lockers, NEW key \in Keys, WantLock(p, key) PROVE IInv'
  <2>1. LocksInv'
    BY <1>1, <1>2, Wants
  <2>2. clients[p].pc = "idle" /\ clients'[p].pc = "connecting" /\ \A q \in Clients \ {p} : clients'[q] = clients[q]
    BY <1>1, <1>2 DEF WantLock, Lockers, Clients
  <2> QED BY <1>1, <1>2, <2>1, <2>2 DEF WantLock, QueriesInv, IInv
<1>3. ASSUME NEW i \in Slots, LoseSession(i) \/ CloseIdle(i) PROVE IInv'
  <2>1. LocksInv'
    BY <1>1, <1>3, SessionEnds
  <2>2. UNCHANGED <<clients, orphans, open>> /\ (UNCHANGED faults \/ Fault)
    BY <1>3 DEF LoseSession, CloseIdle
  <2>3. QueriesInv'
    BY <1>1, <2>2, PoolAssumption DEF QueriesInv, Fault
  <2> QED BY <2>1, <2>3 DEF IInv
<1>4. ASSUME NEW key \in Keys, BackendEnds(key) PROVE IInv'
  <2>1. UNCHANGED <<clients, sessions, open, faults>> /\ orphans' \subseteq orphans
    BY <1>4 DEF BackendEnds
  <2>2. LocksInv'
    BY <1>1, <2>1 DEF LocksInv, OwnSlot, OwnKeyOnly, GrantedOnce, IdleSessionsHoldNoLock
  <2> QED BY <1>1, <2>1, <2>2 DEF QueriesInv, IInv
<1> QED BY <1>2, <1>3, <1>4

-----------------------------------------------------------------------------
(* The theorems *)

\* The locks and the connections are where they belong, after every step.
THEOREM PoolInvariant == Spec => []IInv
<1>1. IInv /\ [Next]_vars => IInv'
  <2> SUFFICES ASSUME IInv, [Next]_vars PROVE IInv'
    OBVIOUS
  <2>1. ASSUME NEW p \in Clients, ClientStep(p) \/ ClientFault(p) PROVE IInv'
    BY <2>1, LockSteps, QuerySteps DEF IInv
  <2>2. CASE UNCHANGED vars
    BY <2>2 DEF vars, IInv, LocksInv, OwnSlot, OwnKeyOnly, GrantedOnce, IdleSessionsHoldNoLock, QueriesInv
  <2>3. CASE \/ \E p \in Lockers, key \in Keys : WantLock(p, key)
             \/ \E i \in Slots : LoseSession(i) \/ CloseIdle(i)
             \/ \E key \in Keys : BackendEnds(key)
    BY <2>3, OtherSteps
  <2> QED BY <2>1, <2>2, <2>3 DEF Next, Lockers
<1> QED BY InitIInv, <1>1, PTL DEF Spec

\* The variables of the pools keep their types.
THEOREM TypeCorrect == Spec => []TypeOK
<1>1. IInv => TypeOK
  BY DEF IInv, LocksInv, QueriesInv, TypeOK, ClientType, SessionType, Places, Outside, Working
<1> QED BY <1>1, PoolInvariant, PTL

\* ReleaseAdvisoryLock and DiscardConnection leave no lock on a connection in the pool.
THEOREM PoolIsClean == Spec => []IdleSessionsHoldNoLock
<1>1. IInv => IdleSessionsHoldNoLock
  BY DEF IInv, LocksInv
<1> QED BY <1>1, PoolInvariant, PTL

\* The chat locks and the cron lock exclude, except where a session was lost.
THEOREM LocksExclude == Spec => []LockIsExclusive
<1>1. IInv => LockIsExclusive
  <2> SUFFICES ASSUME IInv, NEW p \in Lockers, NEW q \in Lockers, p # q, AtWork(p), AtWork(q),
                      clients[p].key = clients[q].key,
                      ~sessions[clients[p].slot].dead, ~sessions[clients[q].slot].dead
               PROVE  FALSE
    BY DEF LockIsExclusive, Lockers
  <2>1. clients[p].pc \in Working /\ clients[q].pc \in Working /\ clients[p].pc \notin Outside /\ clients[q].pc \notin Outside
    BY DEF AtWork, Working, Outside
  <2>2. /\ clients[p].key \in sessions[clients[p].slot].held /\ clients[q].key \in sessions[clients[q].slot].held
        /\ clients[p].slot \in Slots /\ clients[q].slot \in Slots /\ clients[p].slot # clients[q].slot
    BY <2>1 DEF IInv, LocksInv, OwnSlot, OwnKeyOnly
  <2> QED BY <2>2 DEF IInv, LocksInv, GrantedOnce
<1> QED BY <1>1, PoolInvariant, PTL

-----------------------------------------------------------------------------
(* The budget *)

\* Who has a connection is past Connect, and a connection in use is somebody's.
Owned ==
    /\ \A p \in Lockers : clients[p].slot = 0 <=> clients[p].pc \in Outside
    /\ \A i \in Slots : sessions[i].use = "used" => \E p \in Lockers : clients[p].slot = i

\* Nobody's connection changes hands and no other connection is taken into use.
LEMMA OwnedStays ==
    ASSUME Owned,
           \A q \in Lockers : /\ clients'[q].slot = clients[q].slot
                              /\ clients'[q].pc \in Outside <=> clients[q].pc \in Outside,
           \A i \in Slots : sessions'[i].use = "used" => sessions[i].use = "used"
    PROVE  Owned'
BY DEF Owned

\* A client leaves and its connection is no longer in use.
LEMMA OwnedLeaves ==
    ASSUME LocksInv, Owned, NEW p \in Lockers, clients[p].pc \notin Outside,
           clients' = [clients EXCEPT ![p] = Idle],
           NEW s, s.use # "used", sessions' = [sessions EXCEPT ![clients[p].slot] = s]
    PROVE  Owned'
<1>1. p \in Clients /\ clients[p].slot \in Slots
  BY DEF LocksInv, OwnSlot, Lockers, Clients
<1>2. clients'[p] = Idle /\ \A q \in Lockers \ {p} : clients'[q] = clients[q]
  BY <1>1 DEF LocksInv, Lockers, Clients
<1>3. sessions'[clients[p].slot] = s /\ \A i \in Slots \ {clients[p].slot} : sessions'[i] = sessions[i]
  BY <1>1 DEF LocksInv
<1>4. \A q \in Lockers : clients'[q].slot = 0 <=> clients'[q].pc \in Outside
  BY <1>2 DEF Owned, Idle, Outside
<1>5. ASSUME NEW i \in Slots, sessions'[i].use = "used" PROVE \E q \in Lockers : clients'[q].slot = i
  <2>1. i # clients[p].slot /\ sessions[i].use = "used"
    BY <1>3, <1>5
  <2>2. PICK q \in Lockers : clients[q].slot = i
    BY <2>1 DEF Owned
  <2> QED BY <1>2, <2>1, <2>2
<1> QED BY <1>4, <1>5 DEF Owned

\* A client gets a connection that nobody had.
LEMMA OwnedConnects ==
    ASSUME LocksInv, Owned, NEW p \in Clients, NEW i \in Slots, Connect(p, i)
    PROVE  Owned'
<1>1. p \in Lockers /\ clients[p].pc = "connecting" /\ clients[p].slot = 0 /\ i # 0
  BY PlaceOfLocker DEF Connect, Owned, Outside, Slots
<1>2. /\ clients'[p].slot = i /\ clients'[p].pc = "locking"
      /\ \A q \in Lockers \ {p} : clients'[q] = clients[q]
  BY DEF Connect, LocksInv, ClientType, Lockers, Clients
<1>3. \A j \in Slots \ {i} : sessions'[j] = sessions[j]
  BY DEF Connect, LocksInv
<1>4. \A q \in Lockers : clients'[q].slot = 0 <=> clients'[q].pc \in Outside
  BY <1>1, <1>2 DEF Owned, Outside
<1>5. ASSUME NEW j \in Slots, sessions'[j].use = "used" PROVE \E q \in Lockers : clients'[q].slot = j
  <2>1. CASE j = i
    BY <1>1, <1>2, <2>1
  <2>2. CASE j # i
    <3>1. PICK q \in Lockers : clients[q].slot = j
      BY <1>3, <1>5, <2>2 DEF Owned
    <3>2. j # 0
      BY DEF Slots
    <3> QED BY <1>1, <1>2, <3>1, <3>2
  <2> QED BY <2>1, <2>2
<1> QED BY <1>4, <1>5 DEF Owned

\* No step of a client leaks a connection.
LEMMA OwnedClientSteps ==
    ASSUME LocksInv, Owned, NEW p \in Clients, ClientStep(p) \/ ClientFault(p)
    PROVE  Owned'
<1>1. ASSUME NEW i \in Slots, Connect(p, i) PROVE Owned'
  BY <1>1, OwnedConnects
<1>2. ASSUME NEW place, Goto(p, place), \A i \in Slots : sessions'[i].use = sessions[i].use,
             p \in Plain \/ (clients[p].pc \notin Outside /\ place \notin Outside)
      PROVE  Owned'
  <2>1. \A q \in Lockers : clients'[q].slot = clients[q].slot /\ (clients'[q].pc \in Outside <=> clients[q].pc \in Outside)
    BY <1>2, PoolAssumption DEF Goto, LocksInv, ClientType, Lockers, Clients
  <2> QED BY <1>2, <2>1, OwnedStays
<1>3. CASE Grantable(p) /\ (LockChat(p) \/ TryCronLock(p) \/ GrantedTooLate(p))
  <2>1. clients[p].pc = "locking" /\ sessions' = Granted(p) /\ (Goto(p, "locked") \/ Goto(p, "late"))
    BY <1>3 DEF LockChat, TryCronLock, GrantedTooLate
  <2>2. \A i \in Slots : sessions'[i].use = sessions[i].use
    BY <2>1 DEF Granted, LocksInv, SessionType
  <2> QED BY <1>2, <2>1, <2>2 DEF Outside
<1>4. ASSUME clients[p].pc \in {"locking", "late", "unlocking"}, clients' = [clients EXCEPT ![p] = Idle],
             NEW s, s.use # "used", sessions' = [sessions EXCEPT ![clients[p].slot] = s]
      PROVE  Owned'
  BY <1>4, PlaceOfLocker, OwnedLeaves DEF Outside
<1>5. CASE DiscardConnection(clients[p].slot) /\ clients[p].pc \in {"locking", "late", "unlocking"}
           /\ clients' = [clients EXCEPT ![p] = Idle]
  <2>1. NoSession.use # "used" /\ sessions' = [sessions EXCEPT ![clients[p].slot] = NoSession]
    BY <1>5 DEF DiscardConnection, NoSession
  <2> QED BY <1>4, <1>5, <2>1
<1>6. CASE TryCronLock(p) /\ ~Grantable(p)
  <2>1. clients[p].pc = "locking" /\ p \in Lockers /\ clients[p].slot \in Slots
    BY <1>6 DEF TryCronLock, Lockers, LocksInv, OwnSlot, Outside
  <2>2. sessions' = [sessions EXCEPT ![clients[p].slot] = [sessions[clients[p].slot] EXCEPT !.use = "idle"]]
        /\ clients' = [clients EXCEPT ![p] = Idle]
    BY <1>6 DEF TryCronLock
  <2>3. [sessions[clients[p].slot] EXCEPT !.use = "idle"].use # "used"
    BY <2>1 DEF LocksInv, SessionType
  <2> QED BY <1>4, <2>1, <2>2, <2>3
<1>7. CASE ReleaseAdvisoryLock(p) /\ ~sessions[clients[p].slot].dead
  <2> DEFINE s == [sessions[clients[p].slot] EXCEPT !.use = "idle", !.held = @ \ {clients[p].key}]
  <2>1. clients[p].pc = "unlocking" /\ clients[p].slot \in Slots
    BY <1>7, PlaceOfLocker DEF ReleaseAdvisoryLock, LocksInv, OwnSlot, Outside
  <2>2. sessions' = [sessions EXCEPT ![clients[p].slot] = s] /\ clients' = [clients EXCEPT ![p] = Idle]
    BY <1>7, <2>1 DEF ReleaseAdvisoryLock, LocksInv, SessionType
  <2>3. s.use # "used"
    BY <2>1 DEF LocksInv, SessionType
  <2> HIDE DEF s
  <2> QED BY <1>4, <2>1, <2>2, <2>3
<1>8. CASE SessionError(p) \/ AcquireTimeout(p) \/ GiveUpLate(p) \/ ReleaseFails(p)
           \/ (ReleaseAdvisoryLock(p) /\ sessions[clients[p].slot].dead)
  BY <1>5, <1>8 DEF SessionError, AcquireTimeout, GiveUpLate, ReleaseFails, ReleaseAdvisoryLock
<1>9. CASE BeginTx(p) \/ EndTx(p) \/ MarkError(p) \/ EndMark(p) \/ TxFails(p)
  <2>1. /\ UNCHANGED sessions
        /\ \E place : Goto(p, place) /\ (place \notin Outside \/ p \in Plain)
        /\ p \in Plain \/ clients[p].pc \notin Outside
    BY <1>9 DEF BeginTx, EndTx, MarkError, EndMark, TxFails, AfterTx, Outside
  <2> QED BY <1>2, <2>1
<1>10. CASE ConnectTimeout(p)
  <2>1. p \in Lockers /\ clients[p].slot = 0 /\ clients[p].pc \in Outside
    BY <1>10, PlaceOfLocker DEF ConnectTimeout, Owned, Outside
  <2>2. \A q \in Lockers : clients'[q].slot = clients[q].slot /\ (clients'[q].pc \in Outside <=> clients[q].pc \in Outside)
    BY <1>10, <2>1 DEF ConnectTimeout, LocksInv, Lockers, Clients, Idle, Outside
  <2> QED BY <1>10, <2>2, OwnedStays DEF ConnectTimeout
<1>11. LockChat(p) \/ GrantedTooLate(p) => Grantable(p)
  BY DEF LockChat, GrantedTooLate
<1> QED BY <1>1, <1>3, <1>6, <1>7, <1>8, <1>9, <1>10, <1>11 DEF ClientStep, ClientFault

\* Every connection in use has its client, after every step.
LEMMA OwnedInvariant == Spec => []Owned
<1>1. Init => Owned
  BY PoolAssumption DEF Init, Owned, Idle, NoSession, Outside, Lockers, Clients
<1>2. IInv /\ Owned /\ [Next]_vars => Owned'
  <2> SUFFICES ASSUME LocksInv, Owned, [Next]_vars PROVE Owned'
    BY DEF IInv
  <2>1. ASSUME NEW p \in Clients, ClientStep(p) \/ ClientFault(p) PROVE Owned'
    BY <2>1, OwnedClientSteps
  <2>2. ASSUME NEW p \in Lockers, NEW key \in Keys, WantLock(p, key) PROVE Owned'
    <3>1. clients[p].slot = 0 /\ clients[p].pc \in Outside
      BY <2>2 DEF WantLock, Owned, Outside
    <3>2. \A q \in Lockers : clients'[q].slot = clients[q].slot /\ (clients'[q].pc \in Outside <=> clients[q].pc \in Outside)
      BY <2>2, <3>1 DEF WantLock, LocksInv, Lockers, Clients, Outside
    <3> QED BY <2>2, <3>2, OwnedStays DEF WantLock
  <2>3. ASSUME NEW i \in Slots, LoseSession(i) \/ CloseIdle(i) PROVE Owned'
    <3>1. UNCHANGED clients /\ \A j \in Slots : sessions'[j].use = "used" => sessions[j].use = "used"
      BY <2>3 DEF LoseSession, CloseIdle, LocksInv, SessionType, NoSession
    <3> QED BY <3>1, OwnedStays
  <2>4. CASE UNCHANGED vars \/ \E key \in Keys : BackendEnds(key)
    BY <2>4, OwnedStays DEF vars, BackendEnds
  <2> QED BY <2>1, <2>2, <2>3, <2>4 DEF Next, Lockers
<1> QED BY <1>1, <1>2, PoolInvariant, PTL DEF Spec

\* Two finite sets together have at most as many elements as apart.
LEMMA UnionBound ==
    ASSUME NEW S, IsFiniteSet(S), NEW T, IsFiniteSet(T)
    PROVE  IsFiniteSet(S \cup T) /\ Cardinality(S \cup T) <= Cardinality(S) + Cardinality(T)
<1>1. IsFiniteSet(S \cap T)
  BY FS_Subset
<1>2. Cardinality(S \cap T) \in Nat /\ Cardinality(S) \in Nat /\ Cardinality(T) \in Nat
  BY <1>1, FS_CardinalityType
<1>3. IsFiniteSet(S \cup T) /\ Cardinality(S \cup T) = Cardinality(S) + Cardinality(T) - Cardinality(S \cap T)
  BY FS_Union
<1> QED BY <1>2, <1>3

\* A worker finds a connection as long as cron requests keep to the reserve: the connections in
\* use have different owners, and those are other workers and at most the reserve of cron
\* requests.
THEOREM BudgetSuffices == Spec => []BudgetCoversWorkers
<1>1. IInv /\ Owned => BudgetCoversWorkers
  <2> SUFFICES ASSUME LocksInv, Owned, Cardinality({p \in Crons : clients[p].slot # 0}) <= Reserve,
                      NEW p \in Workers, clients[p].pc = "connecting",
                      \A i \in Slots : sessions[i].use = "used"
               PROVE  FALSE
    BY DEF BudgetCoversWorkers, IInv
  <2> DEFINE ByCron == {q \in Crons : clients[q].slot # 0}
             ByWorker == {q \in Workers : clients[q].slot # 0}
             slotOf(S) == [q \in S |-> clients[q].slot]
  <2>1. \A q, r \in ByCron \cup ByWorker :
            clients[q].slot \in Slots /\ (clients[q].slot = clients[r].slot => q = r)
    BY DEF LocksInv, OwnSlot, Owned, Lockers
  <2>2. IsFiniteSet(Slots) /\ Cardinality(Slots) = LockPoolSize
    BY FS_Interval, PoolAssumption DEF Slots
  <2>3. IsFiniteSet(ByCron)
    <3>1. slotOf(ByCron) \in Injection(ByCron, Slots)
      BY <2>1 DEF Injection, IsInjective
    <3> QED BY <2>2, <3>1, FS_Injection
  <2>4. IsFiniteSet(ByWorker) /\ Cardinality(ByWorker) <= Cardinality(Workers) - 1
    <3>1. p \notin ByWorker
      BY DEF Owned, Lockers, Outside
    <3>2. IsFiniteSet(Workers \ {p}) /\ Cardinality(Workers \ {p}) = Cardinality(Workers) - 1
      BY PoolAssumption, FS_RemoveElement
    <3>3. ByWorker \in SUBSET (Workers \ {p})
      BY <3>1
    <3> QED BY <3>2, <3>3, FS_Subset
  <2>5. slotOf(ByCron \cup ByWorker) \in Surjection(ByCron \cup ByWorker, Slots)
    <3>1. \A i \in Slots : \E q \in ByCron \cup ByWorker : clients[q].slot = i
      BY DEF Owned, Lockers, Slots
    <3> QED BY <2>1, <3>1 DEF Surjection
  <2>6. /\ IsFiniteSet(ByCron \cup ByWorker)
        /\ Cardinality(ByCron \cup ByWorker) <= Cardinality(ByCron) + Cardinality(ByWorker)
    <3> HIDE DEF ByCron, ByWorker
    <3> QED BY <2>3, <2>4, UnionBound
  <2>7. LockPoolSize <= Cardinality(ByCron \cup ByWorker)
    BY <2>2, <2>5, <2>6, FS_Surjection
  <2>8. Cardinality(ByCron) \in Nat /\ Cardinality(ByWorker) \in Nat /\ Cardinality(Workers) \in Nat
        /\ Cardinality(ByCron \cup ByWorker) \in Nat
    BY <2>3, <2>4, <2>6, PoolAssumption, FS_CardinalityType
  <2>9. Cardinality(ByCron) <= Reserve
    OBVIOUS
  <2> HIDE DEF ByCron, ByWorker
  <2> QED BY <2>4, <2>6, <2>7, <2>8, <2>9, PoolAssumption
<1> QED BY <1>1, PoolInvariant, OwnedInvariant, PTL
=============================================================================
