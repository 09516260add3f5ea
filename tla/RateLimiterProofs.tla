--------------------------- MODULE RateLimiterProofs ---------------------------
(* The rate limiter never grants more than it may, for any limit, any set   *)
(* of tokens and any movement of the clock.                                 *)
EXTENDS RateLimiter, TLAPS

(* GrantsBounded is not inductive: it does not know what is left in the     *)
(* bucket, nor what the next refill will add.  BucketPaidFor does.          *)
RateInv == TypeOK /\ BucketPaidFor

(* Products with Limit, which the arithmetic of the provers treats as       *)
(* uninterpreted: what the steps below need of them.                        *)
LEMMA LimitTimes ==
    /\ \A a \in Nat : Limit * a \in Nat
    /\ \A a, b \in Nat : Limit * (a + b) = Limit * a + Limit * b
    /\ \A a, b \in Nat : a <= b => Limit * a <= Limit * b
    /\ Limit * 0 = 0
<1>. Limit \in Nat
  BY RateAssumption
<1>1. \A a \in Nat : Limit * a \in Nat
  OBVIOUS
<1>2. \A a, b \in Nat : Limit * (a + b) = Limit * a + Limit * b
  OBVIOUS
<1>3. ASSUME NEW a \in Nat, NEW b \in Nat, a <= b PROVE Limit * a <= Limit * b
  <2>1. b - a \in Nat /\ b = a + (b - a)
    BY <1>3
  <2>. DEFINE d == b - a
  <2>2. Limit * (a + d) = Limit * a + Limit * d /\ Limit * d \in Nat
    BY <1>1, <1>2, <2>1
  <2>. QED
    BY <1>1, <2>1, <2>2
<1>. QED
  BY <1>1, <1>2, <1>3

(* The refill never pays more than what was pending, and stays in range.    *)
LEMMA RefillIsPending ==
    ASSUME RateInv, NEW t \in Tokens
    PROVE  /\ Refilled(t) \in 0..Capacity
           /\ t \in exists => Refilled(t) <= amount[t] + Limit * Pending(t)
           /\ t \notin exists => Refilled(t) = Capacity
<1>1. /\ now \in Nat /\ last[t] \in Nat
      /\ amount[t] \in 0..Capacity /\ Capacity \in Nat /\ Limit \in Nat
  BY RateAssumption DEF RateInv, TypeOK, Capacity
<1>2. CASE t \notin exists
  <2>1. Refilled(t) = Capacity
    BY <1>2 DEF Refilled, Elapsed, Found
  <2>. QED
    BY <1>1, <1>2, <2>1
<1>3. CASE t \in exists /\ now > last[t]
  <2>. DEFINE e == now - last[t]
  <2>1. e \in Nat /\ e > 0 /\ Elapsed(t) = e /\ Pending(t) = e /\ Found(t) = amount[t]
    BY <1>1, <1>3 DEF Elapsed, Pending, Found
  <2>2. Limit * e \in Nat /\ e * Limit = Limit * e
    BY <1>1, <2>1
  <2>3. Refilled(t) = MinOf(Capacity, amount[t] + Limit * e)
    BY <2>1, <2>2 DEF Refilled
  <2>. HIDE DEF e
  <2>. DEFINE x == Limit * e
  <2>4. Refilled(t) = MinOf(Capacity, amount[t] + x) /\ x \in Nat
    BY <2>2, <2>3
  <2>. HIDE DEF x
  <2>5. Refilled(t) \in 0..Capacity /\ Refilled(t) <= amount[t] + x
    BY <1>1, <2>4 DEF MinOf
  <2>. QED
    BY <1>3, <2>1, <2>5 DEF x
<1>4. CASE t \in exists /\ ~(now > last[t])
  <2>1. Refilled(t) = amount[t] /\ Pending(t) = 0
    BY <1>1, <1>4 DEF Refilled, Elapsed, Found, Pending
  <2>. QED
    BY <1>1, <1>4, <2>1, LimitTimes
<1>. QED
  BY <1>2, <1>3, <1>4

LEMMA RateInvAllow ==
    ASSUME RateInv, NEW t \in Tokens, Allow(t)
    PROVE  RateInv'
<1>. DEFINE R == Refilled(t)
<1>1. /\ R \in 0..Capacity
      /\ t \in exists => R <= amount[t] + Limit * Pending(t)
      /\ t \notin exists => R = Capacity
  BY RefillIsPending
<1>2. /\ now' = now /\ forward' = forward
      /\ exists' = exists \cup {t}
      /\ last' = [last EXCEPT ![t] = now]
  BY DEF Allow
<1>3. \/ /\ R >= 60
         /\ amount' = [amount EXCEPT ![t] = R - 60]
         /\ granted' = [granted EXCEPT ![t] = granted[t] + 1]
      \/ R < 60 /\ amount' = [amount EXCEPT ![t] = R] /\ granted' = granted
  BY DEF Allow, RateInv, TypeOK
<1>. HIDE DEF R
<1>4. Capacity \in Nat /\ Limit \in Nat
  BY RateAssumption DEF Capacity
<1>5. TypeOK'
  BY <1>1, <1>2, <1>3, <1>4 DEF RateInv, TypeOK
<1>6. ASSUME NEW u \in Tokens
      PROVE  IF u \in exists'
             THEN 60 * granted'[u] + amount'[u] + Limit * Pending(u)' <= Capacity + Limit * forward'
             ELSE granted'[u] = 0
  <2>1. CASE u # t
    <3>1. /\ granted'[u] = granted[u] /\ amount'[u] = amount[u] /\ last'[u] = last[u]
          /\ u \in exists' <=> u \in exists
      BY <1>2, <1>3, <2>1 DEF RateInv, TypeOK
    <3>2. Pending(u)' = Pending(u)
      BY <1>2, <3>1 DEF Pending
    <3>. QED
      BY <1>2, <3>1, <3>2 DEF RateInv, BucketPaidFor
  <2>2. CASE u = t
    <3>1. 60 * granted'[t] + amount'[t] = 60 * granted[t] + R
      BY <1>1, <1>3, <1>4 DEF RateInv, TypeOK
    <3>2. Pending(t)' = 0 /\ t \in exists'
      BY <1>2 DEF Pending, RateInv, TypeOK
    <3>3. 60 * granted[t] + R <= Capacity + Limit * forward
      <4>. DEFINE x == Limit * Pending(t)
                  y == Limit * forward
      <4>0. Pending(t) \in Nat /\ forward \in Nat
        BY DEF RateInv, TypeOK, Pending
      <4>1. x \in Nat /\ y \in Nat
        BY <4>0, LimitTimes
      <4>2. t \in exists => R <= amount[t] + x /\ 60 * granted[t] + amount[t] + x <= Capacity + y
        BY <1>1 DEF RateInv, BucketPaidFor
      <4>3. t \notin exists => R = Capacity /\ granted[t] = 0
        BY <1>1 DEF RateInv, BucketPaidFor
      <4>. HIDE DEF x, y
      <4>4. 60 * granted[t] + R <= Capacity + y
        BY <1>1, <1>4, <4>1, <4>2, <4>3 DEF RateInv, TypeOK
      <4>. QED
        BY <4>4 DEF y
    <3>4. Limit * Pending(t)' = 0
      BY <3>2, LimitTimes
    <3>5. 60 * granted'[t] + amount'[t] + Limit * Pending(t)' = 60 * granted[t] + R
      BY <1>1, <1>4, <3>1, <3>4 DEF RateInv, TypeOK
    <3>. QED
      BY <1>2, <2>2, <3>2, <3>3, <3>5
  <2>. QED
    BY <2>1, <2>2
<1>. QED
  BY <1>5, <1>6 DEF RateInv, BucketPaidFor

(* Moving the clock by d in either direction adds at most d to what is      *)
(* pending; only a forward move adds anything.                              *)
LEMMA RateInvClock ==
    ASSUME RateInv, NEW d \in Nat,
           \/ now' = now + d /\ forward' = forward + d
           \/ now - d >= 0 /\ now' = now - d /\ forward' = forward,
           UNCHANGED <<amount, last, exists, granted>>
    PROVE  RateInv'
<1>1. TypeOK'
  BY DEF RateInv, TypeOK
<1>2. ASSUME NEW t \in Tokens, t \in exists
      PROVE  60 * granted[t] + amount[t] + Limit * Pending(t)' <= Capacity + Limit * forward'
  <2>. DEFINE g == forward' - forward
  <2>1. /\ g \in Nat /\ forward \in Nat /\ forward' = forward + g
        /\ Pending(t) \in Nat /\ Pending(t)' \in Nat /\ Pending(t)' <= Pending(t) + g
    BY DEF RateInv, TypeOK, Pending
  <2>. HIDE DEF g
  <2>. DEFINE x == Limit * Pending(t)
              y == Limit * forward
              z == Limit * g
              w == Limit * Pending(t)'
  <2>2. x \in Nat /\ y \in Nat /\ z \in Nat /\ w \in Nat
    BY <2>1, LimitTimes
  <2>3. w <= x + z
    BY <2>1, LimitTimes
  <2>4. Limit * forward' = y + z
    BY <2>1, LimitTimes
  <2>5. 60 * granted[t] + amount[t] + x <= Capacity + y
    BY <1>2 DEF RateInv, BucketPaidFor
  <2>. HIDE DEF x, y, z, w
  <2>6. 60 * granted[t] + amount[t] + w <= Capacity + (y + z)
    BY <2>2, <2>3, <2>5, RateAssumption DEF RateInv, TypeOK, Capacity
  <2>. QED
    BY <2>4, <2>6 DEF w
<1>. QED
  BY <1>1, <1>2 DEF RateInv, BucketPaidFor

(* However calls of Allow and changes of the clock interleave, what was     *)
(* granted, what is left and what is pending is paid for.                   *)
THEOREM BucketsArePaidFor == Spec => [](TypeOK /\ BucketPaidFor)
<1>1. Init => RateInv
  BY RateAssumption DEF Init, RateInv, TypeOK, BucketPaidFor, Capacity
<1>2. RateInv /\ [Next]_vars => RateInv'
  <2>. SUFFICES ASSUME RateInv, [Next]_vars PROVE RateInv'
    OBVIOUS
  <2>1. ASSUME NEW t \in Tokens, Allow(t) PROVE RateInv'
    BY <2>1, RateInvAllow
  <2>2. ASSUME NEW d \in ClockSteps, Advance(d) \/ SetBack(d) PROVE RateInv'
    BY <2>2, RateInvClock, RateAssumption DEF Advance, SetBack
  <2>3. CASE UNCHANGED vars
    BY <2>3 DEF vars, RateInv, TypeOK, BucketPaidFor, Pending
  <2>. QED
    BY <2>1, <2>2, <2>3 DEF Next
<1>. QED
  BY <1>1, <1>2, PTL DEF Spec, RateInv

(* Types: no bucket holds more than its capacity or less than nothing.      *)
THEOREM RateTypes == Spec => []TypeOK
<1>1. TypeOK /\ BucketPaidFor => TypeOK
  OBVIOUS
<1>. QED
  BY <1>1, BucketsArePaidFor, PTL

(* Grants never exceed the burst plus Limit per minute of forward clock.    *)
THEOREM GrantsAreBounded == Spec => []GrantsBounded
<1>1. TypeOK /\ BucketPaidFor => GrantsBounded
  <2>. SUFFICES ASSUME TypeOK, BucketPaidFor, NEW t \in Tokens
                PROVE  60 * granted[t] <= Capacity + Limit * forward
    BY DEF GrantsBounded
  <2>. DEFINE x == Limit * Pending(t)
              y == Limit * forward
  <2>0. Pending(t) \in Nat /\ forward \in Nat
    BY DEF TypeOK, Pending
  <2>1. x \in Nat /\ y \in Nat
    BY <2>0, LimitTimes
  <2>2. t \in exists => 60 * granted[t] + amount[t] + x <= Capacity + y
    BY DEF BucketPaidFor
  <2>3. t \notin exists => granted[t] = 0
    BY DEF BucketPaidFor
  <2>. HIDE DEF x, y
  <2>4. 60 * granted[t] <= Capacity + y
    BY <2>1, <2>2, <2>3, RateAssumption DEF TypeOK, Capacity
  <2>. QED
    BY <2>4 DEF y
<1>. QED
  BY <1>1, BucketsArePaidFor, PTL
================================================================================
