--------------------------- MODULE OneShotAlerts ---------------------------
(***************************************************************************)
(* What the price alerts promise their users, whatever replicas, tickers   *)
(* and workers do: an alert triggers at most once, its message is queued   *)
(* by the very step that triggers it, a canceled alert has no message left *)
(* to send, and a finished message is never queued again.                  *)
(***************************************************************************)
CONSTANT Alerts

VARIABLES
    status,   \* of each alert: "absent", "active", "triggered" or "canceled"
    message   \* of each alert: "none", "open", "sent", "failed" or "canceled"

vars == <<status, message>>

Init == /\ status = [a \in Alerts |-> "absent"]
        /\ message = [a \in Alerts |-> "none"]

Create(a) ==
    /\ status[a] = "absent"
    /\ status' = [status EXCEPT ![a] = "active"]
    /\ UNCHANGED message

Trigger(a) ==
    /\ status[a] = "active" /\ message[a] = "none"
    /\ status' = [status EXCEPT ![a] = "triggered"]
    /\ message' = [message EXCEPT ![a] = "open"]

Finish(a) ==
    /\ status[a] = "triggered" /\ message[a] = "open"
    /\ \E outcome \in {"sent", "failed"} : message' = [message EXCEPT ![a] = outcome]
    /\ UNCHANGED status

Cancel(a) ==
    /\ \/ status[a] = "active" /\ UNCHANGED message
       \/ status[a] = "triggered" /\ message[a] = "open" /\ message' = [message EXCEPT ![a] = "canceled"]
    /\ status' = [status EXCEPT ![a] = "canceled"]

\* Retention: the message first, then the alert.
Forget(a) ==
    \/ /\ message[a] \in {"sent", "failed", "canceled"}
       /\ message' = [message EXCEPT ![a] = "none"]
       /\ UNCHANGED status
    \/ /\ status[a] \in {"triggered", "canceled"} /\ message[a] = "none"
       /\ status' = [status EXCEPT ![a] = "absent"]
       /\ UNCHANGED message

Next == \E a \in Alerts : Create(a) \/ Trigger(a) \/ Finish(a) \/ Cancel(a) \/ Forget(a)

Spec == Init /\ [][Next]_vars
=============================================================================
