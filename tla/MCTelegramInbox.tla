--------------------------- MODULE MCTelegramInbox ---------------------------
(* Instances of TelegramInbox for TLC. *)
EXTENDS TelegramInbox, TLC

\* Workers are interchangeable in every formula checked for safety.
WorkerSymmetry == Permutations(Workers)

\* The interleavings kept: every one of three subscription and interval commands without
\* faults, or of two when one sets the language or creates an alert; of any two (numbered
\* from 1) with two faults; and of three around a quiet week with one worker busy at a time.
Busy == {w \in Workers : workers[w].pc # "idle"}
Sent(cmd) == \E n \in 1..Len(events) : events[n].cmd = cmd
Scenarios ==
    /\ Sent("language") => Len(events) <= 2 /\ ~Sent("alert")
    /\ Sent("alert") => Len(events) <= 2 /\ weeks = 0
    /\ faults + losses <= 2
    /\ faults + losses > 0 => Len(events) <= 2 /\ \A n \in 1..Len(events) : events[n].id = n
    /\ weeks > 0 => faults + losses = 0 /\ Cardinality(Busy) <= 1
=============================================================================
