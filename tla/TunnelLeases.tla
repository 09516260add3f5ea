----------------------------- MODULE TunnelLeases ------------------------------
(****************************************************************************)
(* What the control plane promises its clients, without saying how: public  *)
(* names and ports are leased exclusively, a client has one lease at a      *)
(* time, and an account never has more than Quota leases at once.           *)
(* ControlPlane implements this; see Leases there.                          *)
(****************************************************************************)
EXTENDS Naturals, FiniteSets

CONSTANTS
    Clients,
    Leasable,       \* what can be leased
    Quota,          \* leases per account, 0 = unlimited
    Nobody,         \* holder of what is not leased
    Anonymous       \* account of clients without quota

VARIABLES
    holder,         \* Leasable -> client or Nobody
    account         \* client -> the account its lease is charged to

leaseVars == <<holder, account>>

Holding(c) == \E r \in Leasable : holder[r] = c
Charged(a) == {c \in Clients : Holding(c) /\ account[c] = a}

LeaseInit ==
    /\ holder = [r \in Leasable |-> Nobody]
    /\ account = [c \in Clients |-> Anonymous]

Grant(c, r, a) ==
    /\ holder[r] = Nobody /\ ~Holding(c)
    /\ a = Anonymous \/ Quota = 0 \/ Cardinality(Charged(a)) < Quota
    /\ holder' = [holder EXCEPT ![r] = c]
    /\ account' = [account EXCEPT ![c] = a]

Release(c, r) ==
    /\ holder[r] = c
    /\ holder' = [holder EXCEPT ![r] = Nobody]
    /\ account' = [account EXCEPT ![c] = Anonymous]

(* The server loses every lease at once when its process dies.              *)
Crash ==
    /\ holder' = [r \in Leasable |-> Nobody]
    /\ account' = [c \in Clients |-> Anonymous]

LeaseNext(Accounts) ==
    \/ \E c \in Clients, r \in Leasable : Release(c, r) \/ \E a \in Accounts : Grant(c, r, a)
    \/ Crash
================================================================================
