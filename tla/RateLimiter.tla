------------------------------ MODULE RateLimiter ------------------------------
(****************************************************************************)
(* The token buckets of internal/server/rate_limit.go, exactly: capacity =  *)
(* limitPerMinute, refill = limitPerMinute / 60 per second.  The float64    *)
(* amount of a bucket is counted in sixtieths of a token, so that a refill  *)
(* over whole seconds is an integer (rounding of float64 is left out).      *)
(* The clock is the limiter's now(): it advances, and may be set back.      *)
(****************************************************************************)
EXTENDS Integers

CONSTANTS
    Tokens,         \* token ids
    Limit,          \* limitPerMinute, > 0 (0 switches the limiter off)
    MaxForward,     \* bound: seconds the clock advances in all
    ClockSteps      \* bound: seconds of one change of the clock

ASSUME RateAssumption ==
    /\ Limit \in Nat \ {0}
    /\ MaxForward \in Nat
    /\ ClockSteps \subseteq Nat \ {0}

VARIABLES
    now,        \* the clock, seconds
    amount,     \* tokens of each bucket, in sixtieths
    last,       \* time of the last refill of each bucket
    exists,     \* the tokens that have a bucket
    forward,    \* history: seconds the clock has advanced in all
    granted     \* history: token -> number of Allow calls that returned true

vars == <<now, amount, last, exists, forward, granted>>

Capacity == 60 * Limit
MinOf(a, b) == IF a < b THEN a ELSE b

Init ==
    /\ now = 0
    /\ amount = [t \in Tokens |-> 0]
    /\ last = [t \in Tokens |-> 0]
    /\ exists = {}
    /\ forward = 0
    /\ granted = [t \in Tokens |-> 0]

(* The bucket as Allow finds it (new ones are full), and after the refill;  *)
(* a clock that moved back refills nothing and only sets last.              *)
Found(t) == IF t \in exists THEN amount[t] ELSE Capacity

Elapsed(t) == IF t \in exists THEN now - last[t] ELSE 0

Refilled(t) ==
    IF Elapsed(t) > 0 THEN MinOf(Capacity, Found(t) + Elapsed(t) * Limit) ELSE Found(t)

(* Mutant: a refused call leaves the refill in the bucket and last behind.  *)
AllowForgetsRefill(t) ==
    /\ exists' = exists \cup {t}
    /\ \/ /\ Refilled(t) >= 60
          /\ last' = [last EXCEPT ![t] = now]
          /\ amount' = [amount EXCEPT ![t] = Refilled(t) - 60]
          /\ granted' = [granted EXCEPT ![t] = @ + 1]
       \/ /\ Refilled(t) < 60
          /\ amount' = [amount EXCEPT ![t] = Refilled(t)]
          /\ UNCHANGED <<last, granted>>
    /\ UNCHANGED <<now, forward>>

Allow(t) ==
    /\ exists' = exists \cup {t}
    /\ last' = [last EXCEPT ![t] = now]
    /\ \/ /\ Refilled(t) >= 60
          /\ amount' = [amount EXCEPT ![t] = Refilled(t) - 60]
          /\ granted' = [granted EXCEPT ![t] = @ + 1]
       \/ /\ Refilled(t) < 60
          /\ amount' = [amount EXCEPT ![t] = Refilled(t)]
          /\ UNCHANGED granted
    /\ UNCHANGED <<now, forward>>

Advance(d) ==
    /\ forward + d <= MaxForward
    /\ now' = now + d /\ forward' = forward + d
    /\ UNCHANGED <<amount, last, exists, granted>>

SetBack(d) ==
    /\ now - d >= 0
    /\ now' = now - d
    /\ UNCHANGED <<amount, last, exists, forward, granted>>

Next ==
    \/ \E t \in Tokens : Allow(t)
    \/ \E d \in ClockSteps : Advance(d) \/ SetBack(d)

Spec == Init /\ [][Next]_vars

----------------------------------------------------------------------------
TypeOK ==
    /\ now \in Nat /\ forward \in Nat
    /\ exists \in SUBSET Tokens
    /\ amount \in [Tokens -> 0..Capacity]
    /\ last \in [Tokens -> Nat]
    /\ granted \in [Tokens -> Nat]

(* However calls and clock changes interleave, a token is granted at most   *)
(* its burst of Limit plus Limit per minute of forward movement of the      *)
(* clock: setting the clock back never pays twice (the else branch of       *)
(* Allow).                                                                  *)
GrantsBounded ==
    \A t \in Tokens : 60 * granted[t] <= Capacity + Limit * forward

(* The strengthening that is inductive: what is left in the bucket and what *)
(* the pending refill may add is paid for as well.                          *)
Pending(t) == IF now > last[t] THEN now - last[t] ELSE 0
BucketPaidFor ==
    \A t \in Tokens :
        IF t \in exists
        THEN 60 * granted[t] + amount[t] + Limit * Pending(t) <= Capacity + Limit * forward
        ELSE granted[t] = 0
================================================================================
