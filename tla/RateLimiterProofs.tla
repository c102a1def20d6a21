------------------------- MODULE RateLimiterProofs -------------------------
(***************************************************************************)
(* For every burst, rate and ttl that fit together, forgetting quiet       *)
(* clients never gives anybody more than a limiter without forgetting.     *)
(***************************************************************************)
EXTENDS RateLimiter, TLAPS

\* The inductive invariant.
IInv == TypeOK /\ BucketInv

\* A product with the rate, a tick later.
LEMMA RateStep ==
    ASSUME LimiterAssumption, NEW q \in Nat
    PROVE  Rate * q \in Nat /\ Rate * (q + 1) = Rate * q + Rate
BY LimiterAssumption DEF LimiterAssumption

\* A client that was quiet for ttl has a full bucket again.
LEMMA QuietIsFull ==
    ASSUME LimiterAssumption, BucketInv, TypeOK, NEW c \in known, quiet[c] = TTL
    PROVE  budget[c] = Burst
<1>1. c \in Clients /\ tokens[c] = budget[c] /\ tokens[c] >= UpTo(Rate * TTL, Burst) /\ tokens[c] \in 0..Burst
  BY DEF BucketInv, TypeOK
<1>2. Rate * TTL \in Nat /\ Burst <= Rate * TTL /\ Burst \in Nat
  BY LimiterAssumption DEF LimiterAssumption
<1> QED BY <1>1, <1>2 DEF UpTo

\* The limiter starts with full buckets.
LEMMA InitIInv == ASSUME LimiterAssumption PROVE Init => IInv
<1> SUFFICES ASSUME Init PROVE IInv
  OBVIOUS
<1> QED BY LimiterAssumption DEF LimiterAssumption, Init, IInv, TypeOK, BucketInv

\* Time fills the buckets and the budgets alike.
LEMMA TickIInv == ASSUME LimiterAssumption PROVE IInv /\ Tick => IInv'
<1> SUFFICES ASSUME TypeOK, BucketInv, Tick PROVE TypeOK' /\ BucketInv'
  BY DEF IInv
<1>1. TypeOK'
  BY LimiterAssumption DEF LimiterAssumption, TypeOK, BucketInv, Tick, UpTo
<1>2. ASSUME NEW c \in Clients
      PROVE  /\ budget'[c] \in 0..Burst
             /\ c \in known' => tokens'[c] = budget'[c] /\ tokens'[c] >= UpTo(Rate * quiet'[c], Burst)
             /\ c \notin known' => budget'[c] = Burst
  <2>1. /\ budget'[c] = UpTo(budget[c] + Rate, Burst) /\ tokens'[c] = UpTo(tokens[c] + Rate, Burst)
        /\ quiet'[c] = UpTo(quiet[c] + 1, TTL) /\ known' = known
    BY DEF Tick
  <2>2. budget[c] \in 0..Burst /\ tokens[c] \in 0..Burst /\ quiet[c] \in 0..TTL
    BY DEF TypeOK, BucketInv
  <2>3. budget'[c] \in 0..Burst
    BY <2>1, <2>2, LimiterAssumption DEF LimiterAssumption, UpTo
  <2>4. c \notin known' => budget'[c] = Burst
    <3>1. c \notin known => budget[c] = Burst
      BY DEF BucketInv
    <3> QED BY <2>1, <2>2, <3>1, LimiterAssumption DEF LimiterAssumption, UpTo
  <2>5. ASSUME c \in known
        PROVE  tokens'[c] = budget'[c] /\ tokens'[c] >= UpTo(Rate * quiet'[c], Burst)
    <3>1. tokens[c] = budget[c] /\ tokens[c] >= UpTo(Rate * quiet[c], Burst)
      BY <2>5 DEF BucketInv
    <3>2. /\ Rate * quiet[c] \in Nat
          /\ Rate * (quiet[c] + 1) = Rate * quiet[c] + Rate
      <4>1. quiet[c] \in Nat
        BY <2>2, LimiterAssumption DEF LimiterAssumption
      <4> QED BY <4>1, LimiterAssumption, RateStep
    <3>3. quiet'[c] = quiet[c] + 1 \/ quiet'[c] = quiet[c]
      BY <2>1, <2>2, LimiterAssumption DEF LimiterAssumption, UpTo
    <3>4. CASE quiet'[c] = quiet[c] + 1
      <4>1. Rate * quiet'[c] = Rate * quiet[c] + Rate
        BY <3>2, <3>4
      <4> QED BY <2>1, <2>2, <3>1, <3>2, <4>1, LimiterAssumption DEF LimiterAssumption, UpTo
    <3>5. CASE quiet'[c] = quiet[c]
      <4>1. Rate * quiet'[c] = Rate * quiet[c]
        BY <3>5
      <4> QED BY <2>1, <2>2, <3>1, <3>2, <4>1, LimiterAssumption DEF LimiterAssumption, UpTo
    <3> QED BY <3>3, <3>4, <3>5
  <2> QED BY <2>1, <2>3, <2>4, <2>5
<1> QED BY <1>1, <1>2 DEF BucketInv

\* A request: those the cleanup forgets have their whole budget, and a client's new bucket is
\* as full as its budget.
LEMMA AllowIInv == ASSUME LimiterAssumption, IInv, NEW c \in Clients, Allow(c) PROVE IInv'
<1> DEFINE bucket == IF c \in Kept THEN tokens[c] ELSE Burst
<1>1. TypeOK /\ BucketInv
  BY DEF IInv
<1>2. Kept \subseteq known /\ known \subseteq Clients
  BY <1>1 DEF Kept, TypeOK
<1>3. \A d \in Clients \ Kept : budget[d] = Burst
  <2> SUFFICES ASSUME NEW d \in Clients, d \notin Kept PROVE budget[d] = Burst
    OBVIOUS
  <2>1. CASE d \notin known
    BY <1>1, <2>1 DEF BucketInv
  <2>2. CASE d \in known
    <3>1. quiet[d] = TTL
      BY <1>1, <2>2, LimiterAssumption DEF LimiterAssumption, Kept, TypeOK
    <3> QED BY <1>1, <2>2, <3>1, QuietIsFull
  <2> QED BY <2>1, <2>2
<1>4. bucket = budget[c] /\ bucket \in 0..Burst
  BY <1>1, <1>2, <1>3, LimiterAssumption DEF LimiterAssumption, BucketInv
<1>5. /\ sinceCleanup' = IF sinceCleanup >= TTL THEN 0 ELSE sinceCleanup
      /\ known' = Kept \cup {c}
      /\ quiet' = [quiet EXCEPT ![c] = 0]
      /\ tokens' = [tokens EXCEPT ![c] = IF bucket >= 1 THEN bucket - 1 ELSE bucket]
      /\ budget' = [budget EXCEPT ![c] = IF bucket >= 1 THEN @ - 1 ELSE @]
  BY DEF Allow
<1> HIDE DEF bucket
<1>6. TypeOK'
  BY <1>1, <1>2, <1>4, <1>5, LimiterAssumption DEF LimiterAssumption, TypeOK
<1>7. ASSUME NEW d \in Clients
      PROVE  /\ budget'[d] \in 0..Burst
             /\ d \in known' => tokens'[d] = budget'[d] /\ tokens'[d] >= UpTo(Rate * quiet'[d], Burst)
             /\ d \notin known' => budget'[d] = Burst
  <2>1. CASE d = c
    <3>1. /\ budget'[c] = (IF bucket >= 1 THEN bucket - 1 ELSE bucket) /\ tokens'[c] = budget'[c]
          /\ quiet'[c] = 0 /\ c \in known'
      BY <1>1, <1>4, <1>5 DEF TypeOK
    <3>2. Rate * quiet'[c] = 0
      BY <3>1, LimiterAssumption DEF LimiterAssumption
    <3> QED BY <1>4, <2>1, <3>1, <3>2, LimiterAssumption DEF LimiterAssumption, UpTo
  <2>2. CASE d # c
    <3>1. budget'[d] = budget[d] /\ tokens'[d] = tokens[d] /\ quiet'[d] = quiet[d] /\ (d \in known' <=> d \in Kept)
      BY <1>1, <1>5, <2>2 DEF TypeOK
    <3> QED BY <1>1, <1>2, <1>3, <3>1, LimiterAssumption DEF LimiterAssumption, BucketInv
  <2> QED BY <2>1, <2>2
<1> QED BY <1>6, <1>7 DEF IInv, BucketInv

\* ClientRateLimiter: the entries, their buckets and the cleanup stay consistent.
THEOREM BucketsConsistent == ASSUME LimiterAssumption PROVE Spec => []IInv
<1>1. Init => IInv
  BY InitIInv
<1>2. IInv /\ [Next]_vars => IInv'
  <2> SUFFICES ASSUME IInv, [Next]_vars PROVE IInv'
    OBVIOUS
  <2>1. CASE Tick
    BY <2>1, TickIInv
  <2>2. ASSUME NEW c \in Clients, Allow(c) PROVE IInv'
    BY <2>2, AllowIInv
  <2>3. CASE UNCHANGED vars
    BY <2>3 DEF vars, IInv, TypeOK, BucketInv
  <2> QED BY <2>1, <2>2, <2>3 DEF Next
<1> QED BY <1>1, <1>2, PTL DEF Spec

\* ClientRateLimiter.Allow: the variables keep their types.
THEOREM TypeCorrect == ASSUME LimiterAssumption PROVE Spec => []TypeOK
<1>1. IInv => TypeOK
  BY DEF IInv
<1> QED BY <1>1, BucketsConsistent, PTL

\* ClientRateLimiter.Allow: no client gets more than its burst and its rate, forgotten or not.
THEOREM ForgettingIsSafe == ASSUME LimiterAssumption PROVE Spec => []NeverOverBudget
<1>1. IInv => NeverOverBudget
  <2> SUFFICES ASSUME BucketInv, NEW c \in Clients PROVE budget[c] >= 0
    BY DEF IInv, NeverOverBudget
  <2>1. budget[c] \in 0..Burst /\ Burst \in Nat
    BY LimiterAssumption DEF LimiterAssumption, BucketInv
  <2> QED BY <2>1
<1> QED BY <1>1, BucketsConsistent, PTL
=============================================================================
