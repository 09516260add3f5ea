------------------------------- MODULE EdgeProxy -------------------------------
(****************************************************************************)
(* The public side of the server (internal/server: http_tunnel.go and the   *)
(* routes of handler.go): requests of visitors to tunnels, and the          *)
(* questions Caddy asks before it gets a certificate for a host name.  They *)
(* run while tunnels are registered and unregistered and while names are    *)
(* reserved and unreserved, and see the registry and the store only at the  *)
(* moments they look.                                                       *)
(****************************************************************************)
EXTENDS Naturals, FiniteSets

CONSTANTS
    Names,          \* tunnel ids
    Sessions,       \* client sessions, each registered at most once (bound)
    Visitors,       \* slots for requests that are being served
    Addrs,          \* IP addresses
    Creds,          \* basic auth credentials
    Methods,        \* HTTP methods
    Policies,       \* options tunnels are registered with, see Policy
    Visits,         \* requests that visitors send, see Visit
    HasMetrics,     \* cfg.MetricsToken # ""
    HasAdmin,       \* cfg.AdminToken # "" and there is an admin store
    Base,           \* the host cfg.BaseDomain
    OtherHost,      \* a host that is neither the base domain nor a tunnel
    None            \* no entry, no stream, no address, no credentials

(* What the routes tell apart of a path; "ask" is /caddy/ask.               *)
Paths == {"healthz", "ask", "control", "metrics", "admin", "docs", "style", "root", "a", "b"}

(* A list of CIDR or path prefixes is a set of sets: what each matches.     *)
(* xff: what the header transforms do to X-Forwarded-For.                   *)
Policy ==
    [methods : SUBSET Methods, paths : SUBSET Paths, prefixes : SUBSET SUBSET Paths,
     allow : SUBSET SUBSET Addrs, deny : SUBSET SUBSET Addrs,
     auth : Creds \cup {None}, xff : Addrs \cup {"keep", "remove"}]

(* "junk" is a header value that is no address.  For "ask", host is the     *)
(* domain asked for.                                                        *)
Visit ==
    [host : Names \cup {Base, OtherHost}, path : Paths, method : Methods,
     remote : Addrs, xff : Addrs \cup {None, "junk"},
     realIP : Addrs \cup {None, "junk"}, cred : Creds \cup {None}]

ASSUME EdgeAssumption ==
    /\ {Base, OtherHost, None} \cap Names = {} /\ None \notin Sessions
    /\ {"keep", "remove", "junk", None} \cap Addrs = {} /\ None \notin Creds
    /\ Policies \subseteq Policy /\ Visits \subseteq Visit
    /\ HasMetrics \in BOOLEAN /\ HasAdmin \in BOOLEAN
    /\ Methods # {} /\ Addrs # {} /\ None \notin [name : Names, policy : Policies]

VARIABLES
    trust,      \* cfg.TrustProxyHeaders, fixed
    registry,   \* TunnelRegistry: name -> [session, policy] or None
    up,         \* the sessions that are open
    reserved,   \* the names in reserved_subdomains
    owner,      \* history: session -> [name, policy] it was registered with
    pc, req,    \* progress and request of each slot
    entry,      \* the copy of the registry entry the request works with
    out,        \* the request sent through the tunnel, None before that
    answer,     \* what the visitor was answered
    seen        \* history: "live", "free": facts that held during an ask

tunnelVars == <<registry, up, reserved, owner>>
vars == <<trust, tunnelVars, pc, req, entry, out, answer, seen>>

NoVisit == [host |-> OtherHost, path |-> "root", method |-> CHOOSE m \in Methods : TRUE,
            remote |-> CHOOSE a \in Addrs : TRUE, xff |-> None, realIP |-> None, cred |-> None]

Init ==
    /\ trust \in BOOLEAN
    /\ registry = [n \in Names |-> None] /\ up = {} /\ reserved = {}
    /\ owner = [s \in Sessions |-> None]
    /\ pc = [v \in Visitors |-> "idle"] /\ req = [v \in Visitors |-> NoVisit]
    /\ entry = [v \in Visitors |-> None] /\ out = [v \in Visitors |-> None]
    /\ answer = [v \in Visitors |-> "none"] /\ seen = [v \in Visitors |-> {}]

----------------------------------------------------------------------------
(* Tunnels come and go, as the control handlers make them.                  *)

Register(n, s, p) ==
    /\ registry[n] = None /\ owner[s] = None
    /\ registry' = [registry EXCEPT ![n] = [session |-> s, policy |-> p]]
    /\ up' = up \cup {s}
    /\ owner' = [owner EXCEPT ![s] = [name |-> n, policy |-> p]]
    /\ UNCHANGED <<trust, reserved, pc, req, entry, out, answer>>

Unregister(n) ==
    /\ registry[n] # None
    /\ registry' = [registry EXCEPT ![n] = None]
    /\ UNCHANGED <<trust, up, reserved, owner, pc, req, entry, out, answer>>

SessionCloses(s) ==
    /\ s \in up /\ up' = up \ {s}
    /\ UNCHANGED <<trust, registry, reserved, owner, pc, req, entry, out, answer>>

ReservationChanges(n) ==
    /\ reserved' = (reserved \ {n}) \cup ({n} \ reserved)
    /\ UNCHANGED <<trust, registry, up, owner, pc, req, entry, out, answer>>

----------------------------------------------------------------------------
(* The routes of NewHandler.  Those of the server itself are taken on every *)
(* host; the pages of the base domain are tunnel paths on other hosts.      *)
ServerPaths ==
    {"healthz", "ask", "control"} \cup (IF HasMetrics THEN {"metrics"} ELSE {})
                                  \cup (IF HasAdmin THEN {"admin"} ELSE {})
BasePages == {"docs", "style", "root"}
ToTunnel(r) == r.path \notin ServerPaths /\ ~(r.host = Base /\ r.path \in BasePages)

Answer(v, a) ==
    /\ answer' = [answer EXCEPT ![v] = a]
    /\ pc' = [pc EXCEPT ![v] = "done"]

Arrive(v, r) ==
    /\ pc[v] = "idle"
    /\ req' = [req EXCEPT ![v] = r]
    /\ \/ /\ ToTunnel(r)
          /\ pc' = [pc EXCEPT ![v] = "lookup"] /\ UNCHANGED answer
       \/ /\ r.path = "ask" /\ r.host # Base
          /\ pc' = [pc EXCEPT ![v] = "askRegistry"] /\ UNCHANGED answer
       \/ r.path = "ask" /\ r.host = Base /\ Answer(v, "ok")
       \/ ~ToTunnel(r) /\ r.path # "ask" /\ Answer(v, "server")
    /\ UNCHANGED <<trust, tunnelVars, entry, out>>

(* tunnelIDFromHost: None for a host that is not one label under the tunnel *)
(* domain.  GetHTTPTunnel copies the entry under the lock.                  *)
tunnelIDFromHost(h) == IF h \in Names THEN h ELSE None
GetHTTPTunnel(n) == IF n = None THEN None ELSE registry[n]

----------------------------------------------------------------------------
(* httpTunnelProxyHandler.                                                  *)

Lookup(v) ==
    /\ pc[v] = "lookup"
    /\ LET e == GetHTTPTunnel(tunnelIDFromHost(req[v].host))
       IN \/ e = None /\ Answer(v, "notFound") /\ UNCHANGED entry
          \/ /\ e # None /\ entry' = [entry EXCEPT ![v] = e]
             /\ pc' = [pc EXCEPT ![v] = "filter"] /\ UNCHANGED answer
    /\ UNCHANGED <<trust, tunnelVars, req, out>>

requestClientIP(r) ==
    IF trust /\ r.xff \in Addrs THEN r.xff
    ELSE IF trust /\ r.realIP \in Addrs THEN r.realIP
    ELSE r.remote

(* The tests in the order of the handler, and the answer of the first that  *)
(* fails.                                                                   *)
MethodAllowed(p, r) == p.methods # {} => r.method \in p.methods
PathAllowed(p, r) ==
    p.paths \cup p.prefixes # {} => r.path \in p.paths \cup UNION p.prefixes
cidrListContains(list, a) == \E c \in list : a \in c

AddrAllowed(p, r) ==
    /\ ~cidrListContains(p.deny, requestClientIP(r))
    /\ p.allow # {} => cidrListContains(p.allow, requestClientIP(r))
AuthAllowed(p, r) == p.auth # None => r.cred = p.auth

Verdict(p, r) ==
    IF ~MethodAllowed(p, r) \/ ~PathAllowed(p, r) THEN "notFound"
    ELSE IF ~AddrAllowed(p, r) THEN "forbidden"
    ELSE IF ~AuthAllowed(p, r) THEN "unauthorized" ELSE "pass"

Filter(v) ==
    /\ pc[v] = "filter"
    /\ LET a == Verdict(entry[v].policy, req[v])
       IN IF a = "pass" THEN pc' = [pc EXCEPT ![v] = "dial"] /\ UNCHANGED answer
          ELSE Answer(v, a)
    /\ UNCHANGED <<trust, tunnelVars, req, entry, out>>

(* Mutant: X-Forwarded-For is extended, as ReverseProxy does by default, so *)
(* its first address is still the visitor's.                                *)
ForwardedForAppended(r) == IF r.xff # None THEN r.xff ELSE r.remote

(* Rewrite: the first address of the X-Forwarded-For the upstream gets.     *)
ForwardedFor(r) == IF trust THEN r.xff ELSE r.remote

applyHeaderTransforms(p, a) ==
    IF p.xff = "keep" THEN a ELSE IF p.xff = "remove" THEN None ELSE p.xff

Sent(r, e) ==
    [session |-> e.session,
     xff  |-> applyHeaderTransforms(e.policy, ForwardedFor(r)),
     cred |-> IF e.policy.auth # None THEN None ELSE r.cred]

(* Mutant: the registry is asked again for the session to dial.             *)
DialLatest(v) ==
    /\ pc[v] = "dial"
    /\ LET e == GetHTTPTunnel(tunnelIDFromHost(req[v].host))
       IN \/ /\ e # None /\ e.session \in up
             /\ entry' = [entry EXCEPT ![v] = e]
             /\ out' = [out EXCEPT ![v] = Sent(req[v], e)]
             /\ pc' = [pc EXCEPT ![v] = "upstream"] /\ UNCHANGED answer
          \/ e = None /\ Answer(v, "badGateway") /\ UNCHANGED <<out, entry>>
    /\ UNCHANGED <<trust, tunnelVars, req>>

(* DialContext: OpenStream on the session of the copied entry.  It may fail *)
(* on an open session as well (no stream ids left, a timeout).              *)
Dial(v) ==
    /\ pc[v] = "dial"
    /\ \/ /\ entry[v].session \in up
          /\ out' = [out EXCEPT ![v] = Sent(req[v], entry[v])]
          /\ pc' = [pc EXCEPT ![v] = "upstream"] /\ UNCHANGED answer
       \/ Answer(v, "badGateway") /\ UNCHANGED out
    /\ UNCHANGED <<trust, tunnelVars, req, entry>>

(* The local service answers, or the client ends the stream without one.    *)
UpstreamResponds(v) ==
    /\ pc[v] = "upstream" /\ entry[v].session \in up
    /\ Answer(v, "ok") \/ Answer(v, "badGateway")
    /\ UNCHANGED <<trust, tunnelVars, req, entry, out>>

(* Mutant: the transport does not see that the stream is gone.              *)
StreamBreaksUnseen(v) == FALSE /\ pc[v] = "upstream" /\ UNCHANGED vars

StreamBreaks(v) ==
    /\ pc[v] = "upstream" /\ entry[v].session \notin up
    /\ Answer(v, "badGateway")
    /\ UNCHANGED <<trust, tunnelVars, req, entry, out>>

(* The visitor has its answer, or gives up waiting for the upstream.        *)
Leave(v) ==
    /\ pc[v] \in {"done", "upstream"}
    /\ pc' = [pc EXCEPT ![v] = "idle"] /\ req' = [req EXCEPT ![v] = NoVisit]
    /\ entry' = [entry EXCEPT ![v] = None] /\ out' = [out EXCEPT ![v] = None]
    /\ answer' = [answer EXCEPT ![v] = "none"]
    /\ UNCHANGED <<trust, tunnelVars>>

----------------------------------------------------------------------------
(* /caddy/ask: the registry first, then the store.                          *)

AskRegistry(v) ==
    /\ pc[v] = "askRegistry"
    /\ LET n == tunnelIDFromHost(req[v].host)
       IN \/ n = None /\ Answer(v, "forbidden")
          \/ n # None /\ GetHTTPTunnel(n) # None /\ Answer(v, "ok")
          \/ /\ n # None /\ GetHTTPTunnel(n) = None
             /\ pc' = [pc EXCEPT ![v] = "askStore"] /\ UNCHANGED answer
    /\ UNCHANGED <<trust, tunnelVars, req, entry, out>>

(* Mutant: a query that fails counts as reserved.                           *)
AskStoreErrorAllows(v) ==
    /\ pc[v] = "askStore"
    /\ \/ Answer(v, "ok")
       \/ req[v].host \notin reserved /\ Answer(v, "forbidden")
    /\ UNCHANGED <<trust, tunnelVars, req, entry, out>>

(* A query that fails is answered "forbidden" too; it is told apart here    *)
(* for AskIsHonest.                                                         *)
AskStore(v) ==
    /\ pc[v] = "askStore"
    /\ \/ req[v].host \in reserved /\ Answer(v, "ok")
       \/ req[v].host \notin reserved /\ Answer(v, "forbidden")
       \/ Answer(v, "storeError")
    /\ UNCHANGED <<trust, tunnelVars, req, entry, out>>

----------------------------------------------------------------------------
Tunnels ==
    \/ \E n \in Names : Unregister(n) \/ ReservationChanges(n)
    \/ \E n \in Names, s \in Sessions, p \in Policies : Register(n, s, p)
    \/ \E s \in Sessions : SessionCloses(s)

Serve(v) ==
    \/ Lookup(v) \/ Filter(v) \/ Dial(v) \/ StreamBreaks(v)
    \/ AskRegistry(v) \/ AskStore(v)

(* What holds of the name asked for while the question is open.             *)
Asking(v) == pc[v] \in {"askRegistry", "askStore"} /\ req[v].host \in Names
Facts(v) ==
    IF ~Asking(v) THEN {}
    ELSE (IF registry[req[v].host] # None \/ req[v].host \in reserved THEN {"live"} ELSE {})
         \cup (IF req[v].host \notin reserved THEN {"free"} ELSE {})
Observe ==
    seen' = [v \in Visitors |-> (IF pc[v] = "idle" THEN {} ELSE seen[v]) \cup Facts(v)']

Next ==
    /\ \/ Tunnels
       \/ \E v \in Visitors : \/ Serve(v) \/ UpstreamResponds(v) \/ Leave(v)
                              \/ \E r \in Visits : Arrive(v, r)
    /\ Observe

Spec == Init /\ [][Next]_vars

(* Serving goroutines run on; upstreams and visitors owe nothing.           *)
Fairness == \A v \in Visitors : WF_vars(Serve(v) /\ Observe)
FairSpec == Spec /\ Fairness

----------------------------------------------------------------------------
TypeOK ==
    /\ trust \in BOOLEAN
    /\ registry \in [Names -> [session : Sessions, policy : Policies] \cup {None}]
    /\ up \subseteq Sessions /\ reserved \subseteq Names
    /\ owner \in [Sessions -> [name : Names, policy : Policies] \cup {None}]
    /\ pc \in [Visitors -> {"idle", "lookup", "filter", "dial", "upstream",
                            "askRegistry", "askStore", "done"}]
    /\ req \in [Visitors -> Visit]
    /\ entry \in [Visitors -> [session : Sessions, policy : Policies] \cup {None}]
    /\ out \in [Visitors -> [session : Sessions, xff : Addrs \cup {None, "junk"},
                             cred : Creds \cup {None}] \cup {None}]
    /\ answer \in [Visitors -> {"none", "ok", "server", "notFound", "forbidden",
                                "unauthorized", "badGateway", "storeError"}]
    /\ seen \in [Visitors -> SUBSET {"live", "free"}]

(* What goes through a tunnel was meant for it and passes the rules of its  *)
(* owner, and the owner's credentials stay behind: the rules a request is   *)
(* judged by are those the session it is sent to was registered with, also  *)
(* when the name changes hands, with other rules, while it is being served  *)
(* (the entry copied by GetHTTPTunnel and kept in the request's context).   *)
StreamsObeyTheirTunnel ==
    \A v \in Visitors : out[v] # None =>
        LET reg == owner[out[v].session]
        IN /\ reg.name = req[v].host
           /\ Verdict(reg.policy, req[v]) = "pass"
           /\ reg.policy.auth # None => out[v].cred = None

(* The address an upstream reads first in X-Forwarded-For is the address    *)
(* the CIDR lists of its tunnel were applied to, unless its owner rewrites  *)
(* that header (requestClientIP against stripForwardedHeaders and           *)
(* copyProxyForwardedHeaders).                                              *)
JudgedAddressIsShown ==
    \A v \in Visitors :
        out[v] # None /\ entry[v].policy.xff = "keep" /\ out[v].xff \in Addrs
            => out[v].xff = requestClientIP(req[v])

(* Caddy is told to get a certificate for a tunnel name only if the name    *)
(* was active or reserved at some moment of the question, and is refused,   *)
(* without a store error, only if it was unreserved at some moment: the two *)
(* reads of /caddy/ask are not atomic.                                      *)
AskIsHonest ==
    \A v \in Visitors : req[v].path = "ask" /\ req[v].host \in Names =>
        /\ answer[v] = "ok" => "live" \in seen[v]
        /\ answer[v] = "forbidden" => "free" \in seen[v]

(* A request whose tunnel goes away is answered, wherever it was by then.   *)
StrandedRequestsEnd ==
    \A v \in Visitors :
        entry[v] # None /\ entry[v].session \notin up
            ~> entry[v] = None \/ answer[v] # "none"
================================================================================
