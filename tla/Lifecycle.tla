----------------------------- MODULE Lifecycle -----------------------------
(***************************************************************************)
(* The life of one process after its start: HTTP requests that produce     *)
(* work, readiness probes, the background goroutines, and the shutdown     *)
(* that Run goes through when a signal arrives or the HTTP server fails.   *)
(*                                                                         *)
(* What a request or a goroutine does with the database is modelled in the *)
(* other modules; here it only uses the pools for a while.  The budget of  *)
(* the shutdown and the timeout of a probe's ping are counted in ticks.    *)
(***************************************************************************)
EXTENDS Integers, FiniteSets

CONSTANTS
    Producers,    \* /cron and /webhook requests
    Probes,       \* /ready requests
    Workers,      \* goroutines of workerCtx: update, reply and alert workers
    Background,   \* goroutines of runCtx: ticker, retention cleaner, menu sync
    Once,         \* those that return after one turn: the menu sync
    Grace,        \* GracefulShutdownTimeout
    PingTimeout   \* timeout of a probe's PingContext

ASSUME LifecycleAssumption == /\ Grace \in Nat /\ PingTimeout \in Nat /\ PingTimeout < Grace
                              /\ Producers \cap Probes = {} /\ Workers \cap Background = {}
                              /\ Once \subseteq Background
                              /\ "nobody" \notin Producers
                              /\ IsFiniteSet(Producers)

Requests == Producers \cup Probes
Goroutines == Workers \cup Background

VARIABLES
    main,         \* where Run is
    signaled,     \* the signal context is done
    runCanceled,  \* runCtx is done
    workersCanceled, \* workerCtx is done
    server,       \* goroutine of ListenAndServe
    serverErr,    \* the channel holds an error
    runErr,       \* Run has received the server's error
    shuttingDown, \* App.shuttingDown
    producerMu,   \* the request that holds App.producerMu, or "nobody"
    producerWG,   \* counter of App.producerWG
    requests,     \* per request [pc, timer]
    goroutines,   \* "idle", "busy" with the database, or "stopped"
    left,         \* what is left of shutdownCtx
    drainErr,     \* a drain ran out of the budget
    closed        \* the pools are closed

run == <<signaled, runCanceled, workersCanceled, server, serverErr, runErr>>
vars == <<main, run, shuttingDown, producerMu, producerWG, requests, goroutines, left, drainErr, closed>>

Init ==
    /\ main = "serving"
    /\ signaled = FALSE
    /\ runCanceled = FALSE
    /\ workersCanceled = FALSE
    /\ server = "listening"
    /\ serverErr = FALSE
    /\ runErr = FALSE
    /\ shuttingDown = FALSE
    /\ producerMu = "nobody"
    /\ producerWG = 0
    /\ requests = [q \in Requests |-> [pc |-> "none", timer |-> 0]]
    /\ goroutines = [g \in Goroutines |-> "idle"]
    /\ left = Grace
    /\ drainErr = FALSE
    /\ closed = FALSE

-----------------------------------------------------------------------------
(* Requests *)

Goto(q, pc) == requests' = [requests EXCEPT ![q].pc = pc]

\* The server hands a request to its handler; Shutdown and Close close the listener first.
Arrive(q) ==
    /\ server = "listening" /\ requests[q].pc = "none"
    /\ Goto(q, "arrived")
    /\ UNCHANGED <<main, run, shuttingDown, producerMu, producerWG, goroutines, left, drainErr, closed>>

\* Variant with a mistake: the flag is read and the counter raised without the mutex.
CheckShuttingDownUnlocked(q) ==
    /\ requests[q].pc = "arrived"
    /\ Goto(q, IF shuttingDown THEN "done" ELSE "admitted")
    /\ UNCHANGED <<main, run, shuttingDown, producerMu, producerWG, goroutines, left, drainErr, closed>>

\* producerMiddleware locks producerMu and looks at shuttingDown; a refused request leaves at
\* once with 503.
CheckShuttingDown(q) ==
    /\ requests[q].pc = "arrived" /\ producerMu = "nobody"
    /\ Goto(q, IF shuttingDown THEN "done" ELSE "admitted")
    /\ producerMu' = IF shuttingDown THEN "nobody" ELSE q
    /\ UNCHANGED <<main, run, shuttingDown, producerWG, goroutines, left, drainErr, closed>>

\* producerWG.Add(1), unlock, and the handler begins: handleCron or handleWebhook.
Register(q) ==
    /\ requests[q].pc = "admitted"
    /\ producerWG' = producerWG + 1
    /\ producerMu' = "nobody"
    /\ Goto(q, "working")
    /\ UNCHANGED <<main, run, shuttingDown, goroutines, left, drainErr, closed>>

\* The handler has answered, released what it held, and producerWG.Done() runs.
Finish(q) ==
    /\ requests[q].pc = "working"
    /\ producerWG' = producerWG - 1
    /\ Goto(q, "done")
    /\ UNCHANGED <<main, run, shuttingDown, producerMu, goroutines, left, drainErr, closed>>

\* /ready: isShuttingDown, then a ping of the database with its own timeout.
ProbeBegins(q) ==
    /\ requests[q].pc = "arrived" /\ producerMu = "nobody"
    /\ requests' = [requests EXCEPT ![q] =
           IF shuttingDown THEN [pc |-> "done", timer |-> 0] ELSE [pc |-> "pinging", timer |-> PingTimeout]]
    /\ UNCHANGED <<main, run, shuttingDown, producerMu, producerWG, goroutines, left, drainErr, closed>>

PingEnds(q, ok) ==
    /\ requests[q].pc = "pinging"
    /\ requests' = [requests EXCEPT ![q] = [pc |-> IF ok THEN "pinged" ELSE "done", timer |-> 0]]
    /\ UNCHANGED <<main, run, shuttingDown, producerMu, producerWG, goroutines, left, drainErr, closed>>

\* Variant with a mistake: the flag is not read again after the ping.
AnswerByFirstCheck(q) ==
    /\ requests[q].pc = "pinged" /\ producerMu = "nobody"
    /\ Goto(q, "ready")
    /\ UNCHANGED <<main, run, shuttingDown, producerMu, producerWG, goroutines, left, drainErr, closed>>

\* The flag is read again and the answer written under producerMu.
AnswerReady(q) ==
    /\ requests[q].pc = "pinged" /\ producerMu = "nobody"
    /\ Goto(q, IF shuttingDown THEN "done" ELSE "ready")
    /\ UNCHANGED <<main, run, shuttingDown, producerMu, producerWG, goroutines, left, drainErr, closed>>

-----------------------------------------------------------------------------
(* Goroutines *)

Canceled(g) == IF g \in Workers THEN workersCanceled ELSE runCanceled

\* The next turn of the loop; a canceled context makes its first query fail.
Work(g) ==
    /\ goroutines[g] = "idle" /\ ~Canceled(g)
    /\ goroutines' = [goroutines EXCEPT ![g] = "busy"]
    /\ UNCHANGED <<main, run, shuttingDown, producerMu, producerWG, requests, left, drainErr, closed>>

\* The job, cycle or cleanup in progress ends, canceled or not; the menu sync then returns.
Rest(g) ==
    /\ goroutines[g] = "busy"
    /\ goroutines' = [goroutines EXCEPT ![g] = IF g \in Once THEN "stopped" ELSE "idle"]
    /\ UNCHANGED <<main, run, shuttingDown, producerMu, producerWG, requests, left, drainErr, closed>>

\* The goroutine returns and runtimeWG.Done() runs.
Stop(g) ==
    /\ goroutines[g] = "idle" /\ Canceled(g)
    /\ goroutines' = [goroutines EXCEPT ![g] = "stopped"]
    /\ UNCHANGED <<main, run, shuttingDown, producerMu, producerWG, requests, left, drainErr, closed>>

\* ListenAndServe fails: the error goes to the channel first, then stopRun.
ServerFails ==
    /\ server = "listening"
    /\ server' = "failed" /\ serverErr' = TRUE
    /\ UNCHANGED <<main, signaled, runCanceled, workersCanceled, runErr, shuttingDown, producerMu,
                   producerWG, requests, goroutines, left, drainErr, closed>>

ServerStopsRun ==
    /\ server = "failed"
    /\ server' = "stopped" /\ runCanceled' = TRUE
    /\ UNCHANGED <<main, signaled, workersCanceled, serverErr, runErr, shuttingDown, producerMu,
                   producerWG, requests, goroutines, left, drainErr, closed>>

\* Shutdown or Close was called: ListenAndServe returns ErrServerClosed.
ServerStops ==
    /\ server = "closing"
    /\ server' = "stopped"
    /\ UNCHANGED <<main, signaled, runCanceled, workersCanceled, serverErr, runErr, shuttingDown, producerMu,
                   producerWG, requests, goroutines, left, drainErr, closed>>

Signal ==
    /\ ~signaled
    /\ signaled' = TRUE /\ runCanceled' = TRUE
    /\ UNCHANGED <<main, workersCanceled, server, serverErr, runErr, shuttingDown, producerMu,
                   producerWG, requests, goroutines, left, drainErr, closed>>

-----------------------------------------------------------------------------
(* The shutdown of Run *)

\* Variant with a mistake: a done runCtx is taken for a signal.
WakeByContextForgetsError ==
    /\ runCanceled
    /\ UNCHANGED <<serverErr, runErr, runCanceled>>

\* case <-runCtx.Done(): without a signal the error is received from the channel.
WakeByContext ==
    /\ runCanceled /\ (signaled \/ serverErr)
    /\ runErr' = ~signaled
    /\ serverErr' = (serverErr /\ signaled)
    /\ UNCHANGED runCanceled

\* case runErr = <-serverErr.
WakeByServer ==
    /\ serverErr
    /\ runErr' = TRUE /\ serverErr' = FALSE /\ runCanceled' = TRUE

Wake ==
    /\ main = "serving"
    /\ WakeByContext \/ WakeByServer
    /\ main' = "stopping"
    /\ UNCHANGED <<signaled, workersCanceled, server, shuttingDown, producerMu, producerWG, requests,
                   goroutines, left, drainErr, closed>>

\* stopAcceptingProducers, under producerMu; then server.Shutdown closes the listener.
StopAcceptingProducers ==
    /\ main = "stopping" /\ producerMu = "nobody"
    /\ shuttingDown' = TRUE
    /\ main' = "shutdown"
    /\ server' = IF server = "listening" THEN "closing" ELSE server
    /\ UNCHANGED <<signaled, runCanceled, workersCanceled, serverErr, runErr, producerMu, producerWG,
                   requests, goroutines, left, drainErr, closed>>

InHandler(q) == requests[q].pc \notin {"none", "done", "ready"}

\* server.Shutdown returns: every connection is idle, or the budget is used up and
\* server.Close drops the connections without waiting for their handlers.
ShutdownServer ==
    /\ main = "shutdown"
    /\ left = 0 \/ ~\E q \in Requests : InHandler(q)
    /\ main' = "drainProducers"
    /\ UNCHANGED <<run, shuttingDown, producerMu, producerWG, requests, goroutines, left, drainErr, closed>>

\* Variant with a mistake: the workers' context is left alone.
WorkersNotCanceled == workersCanceled

WorkersCanceled == TRUE

\* waitForProducers, then stopWorkers.
WaitForProducers ==
    /\ main = "drainProducers"
    /\ \/ producerWG = 0 /\ UNCHANGED drainErr
       \/ left = 0 /\ drainErr' = TRUE
    /\ workersCanceled' = WorkersCanceled
    /\ main' = "drainRuntime"
    /\ UNCHANGED <<signaled, runCanceled, server, serverErr, runErr, shuttingDown, producerMu, producerWG,
                   requests, goroutines, left, closed>>

RuntimeStopped == server = "stopped" /\ \A g \in Goroutines : goroutines[g] = "stopped"

\* waitForWaitGroup(runtimeWG).
WaitForRuntime ==
    /\ main = "drainRuntime"
    /\ \/ RuntimeStopped /\ UNCHANGED drainErr
       \/ left = 0 /\ drainErr' = TRUE
    /\ main' = IF drainErr' THEN "forced" ELSE "closing"
    /\ UNCHANGED <<run, shuttingDown, producerMu, producerWG, requests, goroutines, left, closed>>

\* Variant with a mistake: after the budget nobody is waited for.
ForcedWithoutWaiting == TRUE

Drained == producerWG = 0 /\ RuntimeStopped

\* A drain timed out: producerWG.Wait() and runtimeWG.Wait() without a limit.
ForcedDrain ==
    /\ main = "forced" /\ Drained
    /\ main' = "closing"
    /\ UNCHANGED <<run, shuttingDown, producerMu, producerWG, requests, goroutines, left, drainErr, closed>>

\* The deferred Close of both pools; Run returns.
ClosePools ==
    /\ main = "closing"
    /\ closed' = TRUE
    /\ main' = "returned"
    /\ UNCHANGED <<run, shuttingDown, producerMu, producerWG, requests, goroutines, left, drainErr>>

Draining == main \in {"shutdown", "drainProducers", "drainRuntime"}
Pinging(q) == requests[q].pc = "pinging"

\* Time passes for the pings and, once it is running, for the budget.
Tick ==
    /\ (Draining /\ left > 0) \/ \E q \in Probes : Pinging(q)
    /\ \A q \in Probes : Pinging(q) => requests[q].timer > 0
    /\ left' = IF Draining /\ left > 0 THEN left - 1 ELSE left
    /\ requests' = [q \in Requests |-> IF Pinging(q) THEN [requests[q] EXCEPT !.timer = @ - 1] ELSE requests[q]]
    /\ UNCHANGED <<main, run, shuttingDown, producerMu, producerWG, goroutines, drainErr, closed>>

-----------------------------------------------------------------------------
ProducerStep(q) == CheckShuttingDown(q) \/ Register(q) \/ Finish(q)
ProbeStep(q) == ProbeBegins(q) \/ (\E ok \in BOOLEAN : PingEnds(q, ok)) \/ AnswerReady(q)
MainStep ==
    \/ Wake \/ StopAcceptingProducers \/ ShutdownServer \/ WaitForProducers \/ WaitForRuntime
    \/ ForcedDrain \/ ClosePools
ServerStep == ServerStopsRun \/ ServerStops

Next ==
    \/ \E q \in Requests : Arrive(q)
    \/ \E q \in Producers : ProducerStep(q)
    \/ \E q \in Probes : ProbeStep(q)
    \/ \E g \in Goroutines : Work(g) \/ Rest(g) \/ Stop(g)
    \/ ServerFails \/ ServerStep \/ Signal \/ MainStep \/ Tick

Spec == Init /\ [][Next]_vars

\* Handlers and jobs have timeouts, so each of their steps is eventually taken; nothing is
\* assumed of arrivals, of the server's failure or of the signal.
Fairness ==
    /\ \A q \in Producers : WF_vars(ProducerStep(q))
    /\ \A q \in Probes : WF_vars(ProbeStep(q))
    /\ \A g \in Goroutines : WF_vars(Rest(g)) /\ WF_vars(Stop(g))
    /\ WF_vars(ServerStep) /\ WF_vars(MainStep) /\ WF_vars(Tick)

FairSpec == Spec /\ Fairness

-----------------------------------------------------------------------------
(* Properties *)

\* The variables keep their types.
TypeOK ==
    /\ main \in {"serving", "stopping", "shutdown", "drainProducers", "drainRuntime", "forced",
                 "closing", "returned"}
    /\ {signaled, runCanceled, workersCanceled, serverErr, runErr, shuttingDown, drainErr, closed} \subseteq BOOLEAN
    /\ server \in {"listening", "failed", "closing", "stopped"}
    /\ producerMu \in Producers \cup {"nobody"}
    /\ producerWG \in Nat
    /\ requests \in [Requests -> [pc : {"none", "arrived", "admitted", "working", "pinging", "pinged", "ready", "done"},
                                  timer : 0..PingTimeout]]
    /\ goroutines \in [Goroutines -> {"idle", "busy", "stopped"}]
    /\ left \in 0..Grace

UsesDatabase(q) == requests[q].pc \in {"working", "pinging"}

\* run.go:148: the pools are closed only when nothing uses them any more: no admitted request,
\* no worker, no ticker, and no readiness probe, which nobody counts.
ClosedOnlyWhenUnused == closed =>
    /\ \A q \in Requests : ~UsesDatabase(q)
    /\ \A g \in Goroutines : goroutines[g] # "busy"

\* producerWG counts the requests at work, and once Run waits for them the counter only falls:
\* no request slips past stopAcceptingProducers (an Add that races with Wait).
NoProducerAfterStop == [][main \notin {"serving", "stopping"} => producerWG' <= producerWG]_vars

\* Once stopAcceptingProducers has run, no probe is answered with 200, however long its ping
\* took: the load balancer is never told that a stopping process is ready.
NeverReadyAfterStop == [][\A q \in Probes :
    requests[q].pc # "ready" /\ requests'[q].pc = "ready" => ~shuttingDown]_vars

\* A failure of the HTTP server that nobody asked for is returned by Run, whichever case of
\* the select noticed it.
ServerErrorReturned == main = "returned" /\ ~signaled => runErr

\* A shutdown that has begun ends: producers, workers, server and Run never wait for each other
\* for ever.
ShutdownCompletes == (runCanceled \/ serverErr) ~> closed
=============================================================================
