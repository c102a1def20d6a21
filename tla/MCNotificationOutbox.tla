------------------------ MODULE MCNotificationOutbox ------------------------
(* Instances of NotificationOutbox for TLC. *)
EXTENDS NotificationOutbox, TLC

\* Workers are interchangeable in every formula checked for safety.
WorkerSymmetry == Permutations(Workers)
=============================================================================
