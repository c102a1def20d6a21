--------------------------- MODULE DurableDelivery ---------------------------
(***************************************************************************)
(* What a durable outbox promises, whatever claims, leases, locks and      *)
(* retries it uses: a message is delivered at least once unless its job is *)
(* given up or canceled, and a copy beyond the first takes a doubt.  A     *)
(* delivery is in doubt when something hid its outcome from the outbox: a  *)
(* lost answer, a dead process, a lost session.                            *)
(***************************************************************************)
EXTENDS Integers, FiniteSets

CONSTANT Jobs

VARIABLES
    phase,     \* "none", "open" or how the job ended
    accepted,  \* per job, the tries Telegram accepted
    doubted    \* per job, the tries in doubt

vars == <<phase, accepted, doubted>>

Ends == {"sent", "failed", "canceled"}

Init ==
    /\ phase = [j \in Jobs |-> "none"]
    /\ accepted = [j \in Jobs |-> {}]
    /\ doubted = [j \in Jobs |-> {}]

\* Copies the outbox knows it delivered.
Certain(j) == accepted[j] \ doubted[j]

Enqueue(new) ==
    /\ \A j \in new : phase[j] = "none"
    /\ phase' = [j \in Jobs |-> IF j \in new THEN "open" ELSE phase[j]]
    /\ UNCHANGED <<accepted, doubted>>

\* Telegram accepts try n: a second certain copy is impossible.
Deliver(j, n, inDoubt) ==
    /\ phase[j] # "none"
    /\ n \notin accepted[j]
    /\ Certain(j) = {} \/ inDoubt
    /\ accepted' = [accepted EXCEPT ![j] = @ \cup {n}]
    /\ doubted' = IF inDoubt THEN [doubted EXCEPT ![j] = @ \cup {n}] ELSE doubted
    /\ UNCHANGED phase

Doubt(j, n) ==
    /\ doubted' = [doubted EXCEPT ![j] = @ \cup {n}]
    /\ UNCHANGED <<phase, accepted>>

\* A job ends once: as sent if a copy was accepted, as failed if none certainly was.
Finish(j, end) ==
    /\ phase[j] = "open"
    /\ end = "sent" => accepted[j] # {}
    /\ end = "failed" => Certain(j) = {}
    /\ phase' = [phase EXCEPT ![j] = end]
    /\ UNCHANGED <<accepted, doubted>>

Cancel(unwanted) ==
    /\ \A j \in unwanted : phase[j] = "open"
    /\ phase' = [j \in Jobs |-> IF j \in unwanted THEN "canceled" ELSE phase[j]]
    /\ UNCHANGED <<accepted, doubted>>

\* Retention forgets a job that has ended.
Forget(j) ==
    /\ phase[j] \in Ends
    /\ phase' = [phase EXCEPT ![j] = "none"]
    /\ accepted' = [accepted EXCEPT ![j] = {}]
    /\ doubted' = [doubted EXCEPT ![j] = {}]

Next ==
    \/ \E some \in SUBSET Jobs : Enqueue(some) \/ Cancel(some)
    \/ \E j \in Jobs : \E n \in accepted'[j] : \E inDoubt \in BOOLEAN : Deliver(j, n, inDoubt)
    \/ \E j \in Jobs : \E n \in doubted'[j] : Doubt(j, n)
    \/ \E j \in Jobs : Forget(j) \/ \E end \in {"sent", "failed"} : Finish(j, end)

Spec == Init /\ [][Next]_vars
=============================================================================
