---------------------------- MODULE MCReplyOutbox ----------------------------
(* Instances of ReplyOutbox for TLC. *)
EXTENDS ReplyOutbox, TLC

\* Reply workers are interchangeable, and so are update workers.
ActorSymmetry == Permutations(Workers) \cup Permutations(Handlers)
=============================================================================
