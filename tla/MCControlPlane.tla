---------------------------- MODULE MCControlPlane -----------------------------
(* Instances of ControlPlane for TLC.                                       *)
EXTENDS ControlPlane, TLC

Req(type, token, prt, name) ==
    [type |-> type, token |-> token, opts |-> TRUE, port |-> prt, name |-> name]

SessionSymmetry == Permutations(Sessions)

(* Requests for names and ports of every form.                              *)
MixedRequests ==
    {Req("http", "k1", 0, n) : n \in Names \cup {NoName, BadName}}
    \cup {Req("tcp", "k1", p, NoName) : p \in Ports \cup {0}}
    \cup {Req("other", "k1", 0, NoName)}

(* Every token asks for the same name, and for the same port; one request   *)
(* has bad options, one names a domain and a subdomain.                     *)
ClaimRequests ==
    {Req("http", k, 0, n) : k \in Secrets, n \in Names}
    \cup {Req("tcp", k, p, NoName) : k \in Secrets, p \in Ports}
    \cup {[Req("http", "k1", 0, n) EXCEPT !.opts = FALSE] : n \in Names}
    \cup {Req("http", "k1", 0, BothNames)}

(* TCP requests: any port of the range, or a requested one.                 *)
TCPRequests == {Req("tcp", k, p, NoName) : k \in Secrets, p \in {0, 1}}

(* Tunnels on random ids only.                                              *)
RandomRequests == {Req("http", k, 0, NoName) : k \in Secrets}
================================================================================
