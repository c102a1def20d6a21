---------------------------- MODULE RateLimiter ----------------------------
(***************************************************************************)
(* ClientRateLimiter: a token bucket per client of the webhook.  Clients   *)
(* that have been quiet for ttl are forgotten, by a cleanup that runs with *)
(* a request and at most once per ttl; a forgotten client starts again     *)
(* with a full bucket.                                                     *)
(*                                                                         *)
(* Allow is one step: the bucket is taken under the mutex and asked after  *)
(* it, and only a pause of ttl in between could make that a difference.    *)
(* Times are kept as ticks since then, up to TTL.                          *)
(***************************************************************************)
EXTENDS Integers

CONSTANTS
    Clients,
    Burst,    \* size of a bucket
    Rate,     \* tokens added per tick
    TTL       \* how long a client must be quiet to be forgotten

\* What the theorems assume of the constants.  Handler: 50 tokens a second, a burst of 100 and
\* ten minutes.
LimiterAssumption ==
    /\ Burst \in Nat \ {0} /\ Rate \in Nat /\ TTL \in Nat \ {0}
    /\ Burst <= Rate * TTL

VARIABLES
    known,         \* the clients with an entry
    tokens,        \* bucket of each entry
    quiet,         \* ticks since lastSeen
    sinceCleanup,  \* ticks since lastCleanup
    budget         \* ghost: the bucket a limiter that forgets nobody would have

vars == <<known, tokens, quiet, sinceCleanup, budget>>

Init ==
    /\ known = {}
    /\ tokens = [c \in Clients |-> Burst]
    /\ quiet = [c \in Clients |-> 0]
    /\ sinceCleanup = TTL
    /\ budget = [c \in Clients |-> Burst]

UpTo(n, bound) == IF n < bound THEN n ELSE bound

\* Time passes and every bucket is refilled.
Tick ==
    /\ tokens' = [c \in Clients |-> UpTo(tokens[c] + Rate, Burst)]
    /\ budget' = [c \in Clients |-> UpTo(budget[c] + Rate, Burst)]
    /\ quiet' = [c \in Clients |-> UpTo(quiet[c] + 1, TTL)]
    /\ sinceCleanup' = UpTo(sinceCleanup + 1, TTL)
    /\ UNCHANGED known

\* The entries that are left after the cleanup, if one is due.
Kept == IF sinceCleanup >= TTL THEN {c \in known : quiet[c] < TTL} ELSE known

\* Allow(c): the cleanup, the client's entry, new with a full bucket if it has none, and a
\* token of its bucket if there is one.
Allow(c) ==
    LET bucket == IF c \in Kept THEN tokens[c] ELSE Burst
        allowed == bucket >= 1
    IN
    /\ sinceCleanup' = IF sinceCleanup >= TTL THEN 0 ELSE sinceCleanup
    /\ known' = Kept \cup {c}
    /\ quiet' = [quiet EXCEPT ![c] = 0]
    /\ tokens' = [tokens EXCEPT ![c] = IF allowed THEN bucket - 1 ELSE bucket]
    /\ budget' = [budget EXCEPT ![c] = IF allowed THEN @ - 1 ELSE @]

Next == Tick \/ \E c \in Clients : Allow(c)

Spec == Init /\ [][Next]_vars

-----------------------------------------------------------------------------
(* Properties *)

\* The variables keep their types.
TypeOK ==
    /\ known \in SUBSET Clients
    /\ tokens \in [Clients -> 0..Burst]
    /\ quiet \in [Clients -> 0..TTL]
    /\ sinceCleanup \in 0..TTL
    /\ budget \in [Clients -> Int]

\* A client never gets more than its burst and rate allow, although it may be forgotten in
\* between and start with a full bucket.
NeverOverBudget == \A c \in Clients : budget[c] >= 0

\* Why: an entry's bucket is what it would be without forgetting, and refills while the client
\* is quiet; a client without an entry has its whole budget.
BucketInv == \A c \in Clients :
    /\ budget[c] \in 0..Burst
    /\ c \in known => tokens[c] = budget[c] /\ tokens[c] >= UpTo(Rate * quiet[c], Burst)
    /\ c \notin known => budget[c] = Burst
=============================================================================
