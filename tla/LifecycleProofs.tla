-------------------------- MODULE LifecycleProofs --------------------------
(***************************************************************************)
(* The shutdown of one process, for any number of requests, probes and     *)
(* goroutines and any budget longer than a probe's ping.                   *)
(***************************************************************************)
EXTENDS Lifecycle, FiniteSetTheorems, TLAPS

RequestType == [pc : {"none", "arrived", "admitted", "working", "pinging", "pinged", "ready", "done"},
                timer : 0..PingTimeout]
Mains == {"serving", "stopping", "shutdown", "drainProducers", "drainRuntime", "forced", "closing", "returned"}
Accepting == {"serving", "stopping"}
Ending == {"closing", "returned"}

Flags ==
    /\ signaled \in BOOLEAN /\ runCanceled \in BOOLEAN /\ workersCanceled \in BOOLEAN
    /\ serverErr \in BOOLEAN /\ runErr \in BOOLEAN /\ shuttingDown \in BOOLEAN
    /\ drainErr \in BOOLEAN /\ closed \in BOOLEAN

Types ==
    /\ main \in Mains
    /\ server \in {"listening", "failed", "closing", "stopped"}
    /\ producerMu \in Producers \cup {"nobody"}
    /\ producerWG \in Nat
    /\ requests \in [Requests -> RequestType]
    /\ goroutines \in [Goroutines -> {"idle", "busy", "stopped"}]
    /\ left \in 0..Grace

\* Where producers and probes can be.
Paths ==
    /\ \A q \in Producers : requests[q].pc \in {"none", "arrived", "admitted", "working", "done"}
    /\ \A q \in Probes : requests[q].pc \in {"none", "arrived", "pinging", "pinged", "ready", "done"}

\* stopAcceptingProducers is what makes main leave its first two places, and no request is
\* between the check of the flag and its registration at that moment.
Stopping ==
    /\ shuttingDown <=> main \notin Accepting
    /\ \A q \in Producers : requests[q].pc = "admitted" <=> producerMu = q
    /\ shuttingDown => producerMu = "nobody"

AtWork == {q \in Producers : requests[q].pc = "working"}

\* The wait group counts the admitted requests.
Counted == producerWG = Cardinality(AtWork)

\* A ping that began before the shutdown ends before its budget: that is why Shutdown, which
\* waits for handlers only as long as the budget lasts, leaves no probe behind.
PingsEnd ==
    /\ main \in Accepting => left = Grace
    /\ \A q \in Probes : requests[q].pc = "pinging" =>
           main \in Accepting \/ (main = "shutdown" /\ requests[q].timer < left)

\* A drain that ran out of the budget is made up for before the pools are closed.
Drains ==
    /\ main = "drainRuntime" /\ ~drainErr => producerWG = 0
    /\ main \in Ending => producerWG = 0 /\ RuntimeStopped
    /\ closed => main = "returned"
    /\ main # "serving" /\ ~signaled => runErr

\* The inductive invariant.
IInv == Flags /\ Types /\ Paths /\ Stopping /\ Counted /\ PingsEnd /\ Drains

-----------------------------------------------------------------------------
(* Counting the requests at work *)

\* A request joins or leaves the others at work.
LEMMA CountChanges ==
    ASSUME NEW q \in Producers
    PROVE  /\ AtWork' = AtWork \cup {q} /\ q \notin AtWork => Cardinality(AtWork') = Cardinality(AtWork) + 1
           /\ AtWork' = AtWork \ {q} /\ q \in AtWork => Cardinality(AtWork') = Cardinality(AtWork) - 1
           /\ Cardinality(AtWork) \in Nat
<1>1. IsFiniteSet(AtWork)
  BY LifecycleAssumption, FS_Subset DEF AtWork
<1>2. Cardinality(AtWork) \in Nat
  BY <1>1, FS_CardinalityType
<1>3. q \notin AtWork => Cardinality(AtWork \cup {q}) = Cardinality(AtWork) + 1
  BY <1>1, FS_AddElement
<1>4. q \in AtWork => Cardinality(AtWork \ {q}) = Cardinality(AtWork) - 1
  BY <1>1, FS_RemoveElement
<1> QED BY <1>2, <1>3, <1>4

\* While the requests at work stay the same, so does their number.
LEMMA CountStays ==
    ASSUME Types, Paths, Counted, UNCHANGED producerWG,
           \A q \in Producers : requests'[q].pc = "working" <=> requests[q].pc = "working"
    PROVE  Counted'
<1>1. AtWork' = AtWork
  BY DEF AtWork
<1> QED BY <1>1 DEF Counted

-----------------------------------------------------------------------------
(* Steps *)

\* At the start nobody is at work.
LEMMA InitIInv == Init => IInv
<1> SUFFICES ASSUME Init PROVE IInv
  OBVIOUS
<1> USE LifecycleAssumption DEF Init
<1>1. Types
  BY DEF Types, Mains, RequestType
<1>5. Flags
  BY DEF Flags
<1>2. Paths /\ Stopping /\ PingsEnd /\ Drains
  BY DEF Paths, Stopping, PingsEnd, Drains, Accepting, Ending, Requests
<1>3. AtWork = {}
  BY DEF AtWork, Requests
<1>4. Counted
  BY <1>3, FS_EmptySet DEF Counted
<1> QED BY <1>1, <1>2, <1>4, <1>5 DEF IInv

\* The server takes a request only while it listens.
LEMMA ArriveStep == ASSUME IInv, NEW q \in Requests, Arrive(q) PROVE IInv'
<1> USE DEF IInv, Arrive, Goto, run
<1>1. Types' /\ Flags'
  BY DEF Types, Flags, RequestType
<1>2. requests[q].pc = "none" /\ requests'[q].pc = "arrived" /\ \A p \in Requests \ {q} : requests'[p] = requests[p]
  BY DEF Types, RequestType
<1>3. Paths' /\ Stopping'
  BY <1>2 DEF Paths, Stopping, Requests
<1>4. Counted'
  BY <1>2, CountStays DEF Requests
<1>5. PingsEnd' /\ Drains'
  BY <1>2 DEF PingsEnd, Drains, RuntimeStopped, Requests
<1> QED BY <1>1, <1>3, <1>4, <1>5

\* Only before the shutdown does a request take the mutex along.
LEMMA CheckShuttingDownStep == ASSUME IInv, NEW q \in Producers, CheckShuttingDown(q) PROVE IInv'
<1> USE DEF IInv, CheckShuttingDown, Goto, run
<1>1. Types' /\ Flags'
  BY DEF Types, Flags, RequestType, Requests
<1>2. /\ requests[q].pc = "arrived" /\ requests'[q].pc = IF shuttingDown THEN "done" ELSE "admitted"
      /\ \A p \in Requests \ {q} : requests'[p] = requests[p]
  BY DEF Types, RequestType, Requests
<1>3. Paths'
  BY <1>2, LifecycleAssumption DEF Paths, Requests
<1>4. Stopping'
  BY <1>2, LifecycleAssumption DEF Stopping, Requests
<1>5. Counted'
  BY <1>2, CountStays DEF Requests
<1>6. PingsEnd' /\ Drains'
  BY <1>2, LifecycleAssumption DEF PingsEnd, Drains, RuntimeStopped, Requests
<1> QED BY <1>1, <1>3, <1>4, <1>5, <1>6

\* A request is counted under producerMu, before the flag can be set.
LEMMA RegisterStep == ASSUME IInv, NEW q \in Producers, Register(q) PROVE IInv'
<1> USE DEF IInv, Register, Goto, run
<1>1. Types' /\ Flags'
  BY DEF Types, Flags, RequestType, Requests
<1>2. /\ requests[q].pc = "admitted" /\ requests'[q].pc = "working"
      /\ \A p \in Requests \ {q} : requests'[p] = requests[p]
  BY DEF Types, RequestType, Requests
<1>3. Paths'
  BY <1>2, LifecycleAssumption DEF Paths, Requests
<1>4. ~shuttingDown /\ producerMu = q
  BY <1>2, LifecycleAssumption DEF Stopping
<1>5. Stopping'
  BY <1>2, <1>4, LifecycleAssumption DEF Stopping, Requests
<1>6. Counted'
  <2>1. AtWork' = AtWork \cup {q} /\ q \notin AtWork
    BY <1>2 DEF AtWork, Requests
  <2> QED BY <2>1, CountChanges DEF Counted
<1>7. PingsEnd' /\ Drains'
  BY <1>2, <1>4, LifecycleAssumption DEF PingsEnd, Drains, Stopping, Accepting, Ending, Requests
<1> QED BY <1>1, <1>3, <1>5, <1>6, <1>7

\* A finished request is no longer counted.
LEMMA FinishStep == ASSUME IInv, NEW q \in Producers, Finish(q) PROVE IInv'
<1> USE DEF IInv, Finish, Goto, run
<1>1. /\ requests[q].pc = "working" /\ requests'[q].pc = "done"
      /\ \A p \in Requests \ {q} : requests'[p] = requests[p]
  BY DEF Types, RequestType, Requests
<1>2. AtWork' = AtWork \ {q} /\ q \in AtWork
  BY <1>1 DEF AtWork, Requests
<1>3. Counted' /\ producerWG > 0
  <2>1. Counted' /\ Cardinality(AtWork') = Cardinality(AtWork) - 1
    BY <1>2, CountChanges DEF Counted
  <2>2. IsFiniteSet(AtWork')
    BY LifecycleAssumption, FS_Subset DEF AtWork
  <2>3. Cardinality(AtWork') \in Nat
    BY <2>2, FS_CardinalityType
  <2> QED BY <2>1, <2>3, CountChanges DEF Counted
<1>4. Types' /\ Flags'
  BY <1>3 DEF Types, Flags, RequestType, Requests
<1>5. Paths' /\ Stopping'
  BY <1>1, LifecycleAssumption DEF Paths, Stopping, Requests
<1>6. PingsEnd' /\ Drains'
  BY <1>1, <1>3, LifecycleAssumption DEF PingsEnd, Drains, RuntimeStopped, Requests
<1> QED BY <1>3, <1>4, <1>5, <1>6

\* The steps of a readiness probe.  A ping begins only before the shutdown.
LEMMA ProbeSteps == ASSUME IInv, NEW q \in Probes, ProbeStep(q) PROVE IInv'
<1> USE DEF IInv, run
<1>1. Types' /\ Flags'
  <2>1. CASE ProbeBegins(q)
    BY <2>1, LifecycleAssumption DEF ProbeBegins, Types, Flags, RequestType, Requests
  <2>2. CASE \E ok \in BOOLEAN : PingEnds(q, ok)
    BY <2>2, LifecycleAssumption DEF PingEnds, Types, Flags, RequestType, Requests
  <2>3. CASE AnswerReady(q)
    BY <2>3 DEF AnswerReady, Goto, Types, Flags, RequestType, Requests
  <2> QED BY <2>1, <2>2, <2>3 DEF ProbeStep
<1>2. /\ UNCHANGED <<main, run, shuttingDown, producerMu, producerWG, goroutines, left, drainErr, closed>>
      /\ \A p \in Requests \ {q} : requests'[p] = requests[p]
      /\ requests'[q].pc \in {"done", "pinging", "pinged", "ready"}
      /\ requests'[q].pc = "pinging" => ~shuttingDown
  <2>1. CASE ProbeBegins(q)
    BY <2>1, LifecycleAssumption DEF ProbeBegins, Types, RequestType, Requests
  <2>2. CASE \E ok \in BOOLEAN : PingEnds(q, ok)
    BY <2>2, LifecycleAssumption DEF PingEnds, Types, RequestType, Requests
  <2>3. CASE AnswerReady(q)
    BY <2>3 DEF AnswerReady, Goto, Types, RequestType, Requests
  <2> QED BY <2>1, <2>2, <2>3 DEF ProbeStep
<1>3. \A p \in Producers : requests'[p] = requests[p]
  BY <1>2, LifecycleAssumption DEF Requests
<1>4. Paths' /\ Stopping'
  BY <1>2, <1>3 DEF Paths, Stopping, Requests
<1>5. Counted'
  BY <1>2, <1>3, CountStays
<1>6. PingsEnd' /\ Drains'
  BY <1>2 DEF PingsEnd, Drains, Stopping, RuntimeStopped, Requests
<1> QED BY <1>1, <1>4, <1>5, <1>6

\* A goroutine that has stopped stays so.
LEMMA GoroutineSteps ==
    ASSUME IInv, NEW g \in Goroutines, Work(g) \/ Rest(g) \/ Stop(g)
    PROVE  IInv'
<1> USE DEF IInv, Work, Rest, Stop, run
<1>1. Types' /\ Flags'
  BY DEF Types, Flags
<1>2. RuntimeStopped => RuntimeStopped'
  BY DEF RuntimeStopped, Types
<1>3. Paths' /\ Stopping' /\ PingsEnd' /\ Drains'
  BY <1>2 DEF Paths, Stopping, PingsEnd, Drains
<1>4. Counted'
  BY CountStays
<1> QED BY <1>1, <1>3, <1>4

\* The server's goroutine and the signal.
LEMMA ServerSteps ==
    ASSUME IInv, ServerFails \/ ServerStep \/ Signal
    PROVE  IInv'
<1> USE DEF IInv, ServerFails, ServerStep, ServerStopsRun, ServerStops, Signal
<1>1. Types'
  BY DEF Types
<1>2. Flags'
  BY DEF Flags
<1>3. Paths' /\ Stopping' /\ PingsEnd'
  BY DEF Paths, Stopping, PingsEnd
<1>4. Drains'
  BY DEF Drains, RuntimeStopped, Flags
<1>5. Counted'
  BY CountStays
<1> QED BY <1>1, <1>2, <1>3, <1>4, <1>5

\* Whoever wakes Run up, without a signal there is an error to return.
LEMMA WakeStep == ASSUME IInv, Wake PROVE IInv'
<1> USE DEF IInv, Wake, WakeByContext, WakeByServer
<1>1. Types'
  BY DEF Types, Mains
<1>2. Flags'
  BY DEF Flags
<1>3. Paths' /\ Stopping' /\ PingsEnd'
  BY DEF Paths, Stopping, PingsEnd, Accepting
<1>4. Drains'
  BY DEF Drains, Flags, Ending
<1>5. Counted'
  BY CountStays
<1> QED BY <1>1, <1>2, <1>3, <1>4, <1>5

\* The flag is set while nobody holds the mutex, and the budget starts.
LEMMA StopAcceptingProducersStep == ASSUME IInv, StopAcceptingProducers PROVE IInv'
<1> USE DEF IInv, StopAcceptingProducers
<1>1. Types'
  BY DEF Types, Mains
<1>2. Flags'
  BY DEF Flags
<1>3. Paths' /\ Stopping'
  BY DEF Paths, Stopping, Accepting
<1>4. PingsEnd'
  BY LifecycleAssumption DEF PingsEnd, Accepting, Types, RequestType, Requests
<1>5. Drains'
  BY DEF Drains, Ending
<1>6. Counted'
  BY CountStays
<1> QED BY <1>1, <1>2, <1>3, <1>4, <1>5, <1>6

\* Shutdown returns when no ping is left, even if it returns for its budget.
LEMMA ShutdownServerStep == ASSUME IInv, ShutdownServer PROVE IInv'
<1> USE DEF IInv, ShutdownServer, run
<1>1. Types'
  BY DEF Types, Mains
<1>2. Flags'
  BY DEF Flags
<1>3. Paths' /\ Stopping'
  BY DEF Paths, Stopping, Accepting
<1>4. \A q \in Probes : requests[q].pc # "pinging"
  BY DEF PingsEnd, Accepting, InHandler, Requests, Types, RequestType
<1>5. PingsEnd'
  BY <1>4 DEF PingsEnd, Accepting
<1>6. Drains'
  BY DEF Drains, Ending
<1>7. Counted'
  BY CountStays
<1> QED BY <1>1, <1>2, <1>3, <1>5, <1>6, <1>7

\* The rest of the shutdown.
LEMMA DrainSteps ==
    ASSUME IInv, WaitForProducers \/ WaitForRuntime \/ ForcedDrain \/ ClosePools
    PROVE  IInv'
<1> USE DEF IInv, WaitForProducers, WaitForRuntime, ForcedDrain, ClosePools, run
<1>1. Types'
  BY DEF Types, Mains
<1>2. Flags'
  BY DEF Flags, WorkersCanceled
<1>3. Paths' /\ Stopping'
  BY DEF Paths, Stopping, Accepting
<1>4. PingsEnd'
  BY DEF PingsEnd, Accepting
<1>5. Drains'
  BY DEF Drains, Ending, Drained, RuntimeStopped, Flags
<1>6. Counted'
  BY CountStays
<1> QED BY <1>1, <1>2, <1>3, <1>4, <1>5, <1>6

\* Time passes for a ping and for the budget alike.
LEMMA TickStep == ASSUME IInv, Tick PROVE IInv'
<1> USE DEF IInv, Tick, run
<1>1. /\ \A q \in Requests : requests'[q].pc = requests[q].pc
      /\ \A q \in Requests : requests[q].pc # "pinging" => requests'[q] = requests[q]
      /\ \A q \in Probes : requests[q].pc = "pinging" => requests'[q].timer = requests[q].timer - 1 /\ requests[q].timer > 0
  BY DEF Pinging, Types, RequestType, Requests
<1>2. \A q \in Requests : requests'[q] \in RequestType
  <2> SUFFICES ASSUME NEW q \in Requests PROVE requests'[q] \in RequestType
    OBVIOUS
  <2>1. CASE requests[q].pc # "pinging"
    BY <1>1, <2>1 DEF Types
  <2>2. CASE requests[q].pc = "pinging"
    <3>1. q \in Probes
      BY <2>2 DEF Paths, Requests
    <3>2. requests'[q] = [requests[q] EXCEPT !.timer = @ - 1]
      BY <2>2 DEF Pinging
    <3> QED BY <1>1, <2>2, <3>1, <3>2, LifecycleAssumption DEF Types, RequestType
  <2> QED BY <2>1, <2>2
<1>3. Types'
  <2>1. requests' \in [Requests -> RequestType]
    BY <1>2
  <2>2. left' \in 0..Grace
    BY LifecycleAssumption DEF Types
  <2> QED BY <2>1, <2>2 DEF Types
<1>4. Flags'
  BY DEF Flags
<1>5. Paths' /\ Stopping'
  BY <1>1 DEF Paths, Stopping, Requests
<1>6. PingsEnd'
  BY <1>1, LifecycleAssumption DEF PingsEnd, Draining, Accepting, Requests, Types, RequestType
<1>7. Drains'
  BY DEF Drains, RuntimeStopped
<1>8. Counted'
  BY <1>1, CountStays DEF Requests
<1> QED BY <1>3, <1>4, <1>5, <1>6, <1>7, <1>8

-----------------------------------------------------------------------------
(* Theorems *)

\* The invariant holds in every state of every behaviour.
LEMMA Invariance == Spec => []IInv
<1>1. IInv /\ [Next]_vars => IInv'
  <2> SUFFICES ASSUME IInv, [Next]_vars PROVE IInv'
    OBVIOUS
  <2>1. CASE \E q \in Requests : Arrive(q)
    BY <2>1, ArriveStep
  <2>2. CASE \E q \in Producers : ProducerStep(q)
    BY <2>2, CheckShuttingDownStep, RegisterStep, FinishStep DEF ProducerStep
  <2>3. CASE \E q \in Probes : ProbeStep(q)
    BY <2>3, ProbeSteps
  <2>4. CASE \E g \in Goroutines : Work(g) \/ Rest(g) \/ Stop(g)
    BY <2>4, GoroutineSteps
  <2>5. CASE ServerFails \/ ServerStep \/ Signal
    BY <2>5, ServerSteps
  <2>6. CASE MainStep
    BY <2>6, WakeStep, StopAcceptingProducersStep, ShutdownServerStep, DrainSteps DEF MainStep
  <2>7. CASE Tick
    BY <2>7, TickStep
  <2>8. CASE UNCHANGED vars
    <3>1. Types' /\ Flags' /\ Paths' /\ Stopping' /\ PingsEnd' /\ Drains'
      BY <2>8 DEF IInv, vars, run, Types, Flags, Paths, Stopping, PingsEnd, Drains, RuntimeStopped
    <3>2. Counted'
      BY <2>8, CountStays DEF IInv, vars
    <3> QED BY <3>1, <3>2 DEF IInv
  <2> QED BY <2>1, <2>2, <2>3, <2>4, <2>5, <2>6, <2>7, <2>8 DEF Next
<1> QED BY InitIInv, <1>1, PTL DEF Spec

\* The variables of the lifecycle keep their types.
THEOREM TypeCorrect == Spec => []TypeOK
<1>1. IInv => TypeOK
  <2> SUFFICES ASSUME IInv PROVE TypeOK
    OBVIOUS
  <2>1. {signaled, runCanceled, workersCanceled, serverErr, runErr, shuttingDown, drainErr, closed} \subseteq BOOLEAN
    BY DEF IInv, Flags
  <2> QED BY <2>1 DEF IInv, Types, TypeOK, RequestType, Mains
<1> QED BY Invariance, <1>1, PTL

\* Run's deferred Close never pulls the pools away from a request, a worker or a probe: those
\* that are counted have been waited for, and a ping is shorter than the budget.
THEOREM PoolsOutliveUsers == Spec => []ClosedOnlyWhenUnused
<1>1. IInv => ClosedOnlyWhenUnused
  <2> SUFFICES ASSUME IInv, closed
               PROVE  /\ \A q \in Requests : ~UsesDatabase(q)
                      /\ \A g \in Goroutines : goroutines[g] # "busy"
    BY DEF ClosedOnlyWhenUnused
  <2>1. main = "returned" /\ producerWG = 0 /\ RuntimeStopped
    BY DEF IInv, Drains, Ending
  <2>2. AtWork = {}
    <3>1. IsFiniteSet(AtWork)
      BY LifecycleAssumption, FS_Subset DEF AtWork
    <3> QED BY <2>1, <3>1, FS_EmptySet DEF IInv, Counted
  <2>3. \A q \in Producers : ~UsesDatabase(q)
    BY <2>2 DEF IInv, Paths, AtWork, UsesDatabase
  <2>4. \A q \in Probes : ~UsesDatabase(q)
    BY <2>1 DEF IInv, Paths, PingsEnd, Accepting, UsesDatabase
  <2> QED BY <2>1, <2>3, <2>4 DEF RuntimeStopped, Requests
<1> QED BY Invariance, <1>1, PTL

\* An error of the HTTP server is never lost between the two cases of Run's select.
THEOREM ErrorIsReturned == Spec => []ServerErrorReturned
<1>1. IInv => ServerErrorReturned
  BY DEF IInv, Drains, ServerErrorReturned
<1> QED BY Invariance, <1>1, PTL

\* Once Run waits for the producers no request is added to those it waits for.
THEOREM NoLateProducer == Spec => NoProducerAfterStop
<1>1. IInv /\ [Next]_vars => [main \notin {"serving", "stopping"} => producerWG' <= producerWG]_vars
  <2> SUFFICES ASSUME IInv, Next, main \notin {"serving", "stopping"}
               PROVE  producerWG' <= producerWG
    OBVIOUS
  <2>1. \A q \in Producers : requests[q].pc # "admitted"
    BY LifecycleAssumption DEF IInv, Stopping, Accepting
  <2>2. producerWG' = producerWG \/ producerWG' = producerWG - 1
    BY <2>1 DEF Next, Arrive, ProducerStep, CheckShuttingDown, Register, Finish, ProbeStep, ProbeBegins,
        PingEnds, AnswerReady, Work, Rest, Stop, ServerFails, ServerStep, ServerStopsRun, ServerStops,
        Signal, MainStep, Wake, StopAcceptingProducers, ShutdownServer, WaitForProducers,
        WaitForRuntime, ForcedDrain, ClosePools, Tick
  <2> QED BY <2>2 DEF IInv, Types
<1> QED BY Invariance, <1>1, PTL DEF Spec, NoProducerAfterStop

\* A stopping process is never reported as ready.
THEOREM NeverReadyWhenStopping == Spec => NeverReadyAfterStop
<1>1. IInv /\ [Next]_vars =>
        [\A q \in Probes : requests[q].pc # "ready" /\ requests'[q].pc = "ready" => ~shuttingDown]_vars
  <2> SUFFICES ASSUME IInv, Next, NEW q \in Probes, requests[q].pc # "ready", requests'[q].pc = "ready"
               PROVE  ~shuttingDown
    OBVIOUS
  <2>1. AnswerReady(q)
    <3> USE DEF IInv, Types, RequestType
    <3>1. CASE \E p \in Requests : Arrive(p)
      BY <3>1 DEF Arrive, Goto, Requests
    <3>2. CASE \E p \in Producers : ProducerStep(p)
      BY <3>2 DEF ProducerStep, CheckShuttingDown, Register, Finish, Goto, Requests
    <3>3. CASE \E p \in Probes : ProbeStep(p)
      BY <3>3 DEF ProbeStep, ProbeBegins, PingEnds, AnswerReady, Goto, Requests
    <3>4. CASE Tick
      BY <3>4 DEF Tick, Requests
    <3>5. CASE ServerFails \/ ServerStep \/ Signal \/ MainStep \/ \E g \in Goroutines : Work(g) \/ Rest(g) \/ Stop(g)
      BY <3>5 DEF Work, Rest, Stop, ServerFails, ServerStep, ServerStopsRun, ServerStops, Signal, MainStep,
          Wake, StopAcceptingProducers, ShutdownServer, WaitForProducers, WaitForRuntime, ForcedDrain, ClosePools
    <3> QED BY <3>1, <3>2, <3>3, <3>4, <3>5 DEF Next
  <2> QED BY <2>1 DEF AnswerReady, Goto, IInv, Types, RequestType, Requests
<1> QED BY Invariance, <1>1, PTL DEF Spec, NeverReadyAfterStop
=============================================================================
