------------------------------ MODULE MCEdgeProxy ------------------------------
(* Instances of EdgeProxy for TLC.                                          *)
EXTENDS EdgeProxy

Open == [methods |-> {}, paths |-> {}, prefixes |-> {}, allow |-> {}, deny |-> {},
         auth |-> None, xff |-> "keep"]

(* Rules of four owners: none; basic auth, one path and one method; an      *)
(* address range with an exception; an own X-Forwarded-For.                 *)
SomePolicies ==
    {Open,
     [Open EXCEPT !.auth = "c1", !.paths = {"a"}, !.methods = {"GET"}, !.xff = "remove"],
     [Open EXCEPT !.allow = {{"ip1", "ip2"}}, !.deny = {{"ip2"}}, !.prefixes = {{"a", "b"}}],
     [Open EXCEPT !.deny = {{"ip2"}}, !.xff = "ip1"]}

Get(h, p) == [host |-> h, path |-> p, method |-> "GET", remote |-> "ip1",
              xff |-> None, realIP |-> None, cred |-> None]

(* Visits that tell the rules above apart; every combination of the headers *)
(* that carry an address; questions of Caddy, and one path of every route.  *)
SomeVisits ==
    {[Get("n1", "b") EXCEPT !.method = "POST"], [Get("n1", "a") EXCEPT !.cred = "c1"],
     [Get("n1", "root") EXCEPT !.remote = "ip2"]}
    \cup {[Get("n1", "a") EXCEPT !.xff = x, !.realIP = r, !.remote = a] :
             x \in {"ip1", "ip2", "junk", None}, r \in {"ip2", "junk", None}, a \in {"ip1", "ip2"}}
    \cup {Get(h, "ask") : h \in {"n1", "other", "base"}}
    \cup {Get("other", "a"), Get("n1", "docs"), Get("base", "docs"), Get("base", "b")}
    \cup {Get("n1", p) : p \in {"healthz", "metrics"}}
================================================================================
