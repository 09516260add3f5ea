----------------------------- MODULE ControlPlane ------------------------------
(****************************************************************************)
(* The server's control plane (internal/server: control.go, registry.go,    *)
(* limits.go, metrics.go) on top of the auth store.  A Session is one       *)
(* control connection: a goroutine that runs controlHandler from the        *)
(* websocket accept to the last deferred call.  Everything the goroutines   *)
(* share is a variable here - the store, the tunnel registry, the bound TCP *)
(* listeners, the per-token counters and the gauges - and a handler is cut  *)
(* at every access to them, so all interleavings of those accesses happen.  *)
(*                                                                          *)
(* The deferred calls are modelled by held[s]: the resources the handler of *)
(* s has acquired and not given back yet.  Returning from the handler is    *)
(* pc[s] = "unwind", from where they are released last in, first out.       *)
(* "watcher" in held[s] stands for the goroutine handleTCPControl started.  *)
(****************************************************************************)
EXTENDS AuthStore, Integers

CONSTANTS
    Sessions,       \* slots for control connections
    Requests,       \* the requests clients may send, a subset of Request
    PortStart,      \* cfg.TCPPortRangeStart
    PortEnd,        \* cfg.TCPPortRangeEnd
    MaxTunnels,     \* cfg.MaxTunnelsPerToken, 0 = no cap
    RateLimited,    \* cfg.MaxTunnelCreatesPerMinute > 0
    AuthMode,       \* "store": validator and resolver set (cmd/server),
                    \* "static": only cfg.AuthToken, "open": neither
    StaticSecret,   \* cfg.AuthToken
    OperatorOps,    \* bound: the statements the operator issues
    NoName,         \* request without domain and subdomain
    BadName,        \* a domain or subdomain that does not parse
    BothNames,      \* domain and subdomain both given
    NoSession       \* "absent" in the registry and on a port

(* opts: the option lists and basic_auth all parse.                         *)
Request ==
    [type : {"tcp", "http", "other"}, token : Secrets, opts : BOOLEAN,
     port : Ports \cup {0}, name : Names \cup {NoName, BadName, BothNames}]

InRange(p) == PortStart <= p /\ p <= PortEnd

ASSUME ControlAssumption ==
    /\ IsFiniteSet(Sessions)
    /\ StaticSecret \in Secrets
    /\ NoSession \notin Sessions
    /\ {NoName, BadName, BothNames} \cap Names = {}
    /\ Requests \subseteq Request
    /\ PortStart \in Nat /\ PortEnd \in Nat
    /\ (PortStart..PortEnd) \ {0} \subseteq Ports
    /\ MaxTunnels \in Nat
    /\ RateLimited \in BOOLEAN
    /\ AuthMode \in {"store", "static", "open"}
    /\ OperatorOps \subseteq {"create", "revoke", "reserve", "unreserve"}

VARIABLES
    pc,         \* next step of the handler of each session
    req,        \* the decoded request
    tid,        \* tokenID of the handler, NoToken if it was not resolved
    id,         \* tunnel id (HTTP)
    port,       \* port (TCP); the cursor of the scan in allocateTCPListener
    up,         \* the yamux session is open
    held,       \* resources whose release is deferred
    registry,   \* TunnelRegistry.httpTunnels: id -> session
    listener,   \* port -> session whose listener is bound to it
    active,     \* tokenTunnelLimiter.active: token id -> count
    gauge,      \* metrics: active connections, HTTP and TCP tunnels
    lost        \* history: the reservation s relied on was removed since

localVars == <<pc, req, tid, id, port, up, held, lost>>
sharedVars == <<registry, listener, active, gauge>>
vars == <<storeVars, localVars, sharedVars>>

Steps == {"idle", "accept", "validate", "resolve", "acquire", "rate",
          "portCheck", "portReserve", "portRecheck", "listen",
          "name", "nameReserve", "nameRecheck", "register",
          "respond", "active", "unwind"}
Resources == {"conn", "session", "slot", "name", "gauge", "watcher"}
Gauges == {"conns", "http", "tcp"}

NoRequest == [type |-> "other", token |-> CHOOSE k \in Secrets : TRUE,
              opts |-> TRUE, port |-> 0, name |-> NoName]

Init ==
    /\ StoreInit
    /\ pc = [s \in Sessions |-> "idle"]
    /\ req = [s \in Sessions |-> NoRequest]
    /\ tid = [s \in Sessions |-> NoToken]
    /\ id = [s \in Sessions |-> NoName]
    /\ port = [s \in Sessions |-> 0]
    /\ up = [s \in Sessions |-> FALSE]
    /\ held = [s \in Sessions |-> {}]
    /\ lost = [s \in Sessions |-> FALSE]
    /\ registry = [n \in Names |-> NoSession]
    /\ listener = [p \in Ports |-> NoSession]
    /\ active = [t \in {} |-> 0]
    /\ gauge = [g \in Gauges |-> 0]

----------------------------------------------------------------------------
(* Moving a handler on, or making it return after an error response.        *)

At(s, l) == pc[s] = l
Goto(s, l) == pc' = [pc EXCEPT ![s] = l]
Fail(s) == Goto(s, "unwind")

HoldAll(s, R) == held' = [held EXCEPT ![s] = @ \cup R]
Hold(s, r) == HoldAll(s, {r})
IsHTTP(s) == req[s].type = "http"
TunnelGauge(s) == IF IsHTTP(s) THEN "http" ELSE "tcp"

----------------------------------------------------------------------------
(* controlHandler up to the switch on the tunnel type.                      *)

(* websocket.Accept, metrics.trackControlConn, yamux.Server.                *)
AcceptConn(s) ==
    /\ At(s, "idle")
    /\ Goto(s, "accept")
    /\ up' = [up EXCEPT ![s] = TRUE]
    /\ held' = [held EXCEPT ![s] = {"conn", "session"}]
    /\ gauge' = [gauge EXCEPT !["conns"] = @ + 1]
    /\ UNCHANGED <<storeVars, req, tid, id, port, lost, registry, listener, active>>

(* session.AcceptStream and decodeBaseRequest; blocks until the client      *)
(* sends something.                                                         *)
RecvRequest(s) ==
    /\ At(s, "accept") /\ up[s]
    /\ \/ \E r \in Requests : req' = [req EXCEPT ![s] = r] /\ Goto(s, "validate")
       \/ UNCHANGED req /\ Fail(s)   \* invalid request
    /\ UNCHANGED <<storeVars, tid, id, port, up, held, lost, sharedVars>>

AcceptStreamFails(s) ==
    /\ At(s, "accept") /\ ~up[s]
    /\ Goto(s, "unwind")
    /\ UNCHANGED <<storeVars, req, tid, id, port, up, held, lost, sharedVars>>

(* validator.ValidateToken, or the comparison with cfg.AuthToken when there *)
(* is no validator.                                                         *)
Authorized(k) ==
    CASE AuthMode = "store"  -> ValidateToken(k)
      [] AuthMode = "static" -> k = StaticSecret
      [] OTHER               -> TRUE

Validate(s) ==
    /\ At(s, "validate")
    /\ \/ Authorized(req[s].token) /\ Goto(s, "resolve")
       \/ ~Authorized(req[s].token) /\ Fail(s)   \* unauthorized
       \/ AuthMode = "store" /\ Fail(s)   \* auth error
    /\ UNCHANGED <<storeVars, req, tid, id, port, up, held, lost, sharedVars>>

(* TokenResolver.TokenID: a second query.  ok = false is not an error: the  *)
(* handler goes on with tokenID = 0.                                        *)
Resolve(s) ==
    /\ At(s, "resolve")
    /\ \/ /\ tid' = [tid EXCEPT ![s] = IF AuthMode = "store"
                                       THEN TokenID(req[s].token) ELSE NoToken]
          /\ Goto(s, "acquire")
       \/ AuthMode = "store" /\ Fail(s) /\ UNCHANGED tid   \* auth error
    /\ UNCHANGED <<storeVars, req, id, port, up, held, lost, sharedVars>>

(* limiter.TryAcquire, skipped without a cap or without a token id.         *)
(* Reading a missing key of the Go map gives 0.                             *)
Capped(s) == MaxTunnels > 0 /\ tid[s] > 0
ActiveOf(t) == IF t \in DOMAIN active THEN active[t] ELSE 0

(* Mutant: one tunnel too many, active > max instead of active >= max.      *)
TryAcquireOneMore(s) ==
    /\ At(s, "acquire")
    /\ \/ ~Capped(s) /\ Goto(s, "rate") /\ UNCHANGED <<active, held>>
       \/ /\ Capped(s) /\ ActiveOf(tid[s]) > MaxTunnels
          /\ Fail(s) /\ UNCHANGED <<active, held>>
       \/ /\ Capped(s) /\ ActiveOf(tid[s]) <= MaxTunnels
          /\ active' = [t \in DOMAIN active \cup {tid[s]} |->
                          IF t = tid[s] THEN ActiveOf(t) + 1 ELSE active[t]]
          /\ Hold(s, "slot") /\ Goto(s, "rate")
    /\ UNCHANGED <<storeVars, req, tid, id, port, up, lost, registry, listener, gauge>>

TryAcquire(s) ==
    /\ At(s, "acquire")
    /\ \/ ~Capped(s) /\ Goto(s, "rate") /\ UNCHANGED <<active, held>>
       \/ /\ Capped(s) /\ ActiveOf(tid[s]) >= MaxTunnels
          /\ Fail(s) /\ UNCHANGED <<active, held>>   \* too many active tunnels
       \/ /\ Capped(s) /\ ActiveOf(tid[s]) < MaxTunnels
          /\ active' = [t \in DOMAIN active \cup {tid[s]} |->
                          IF t = tid[s] THEN ActiveOf(t) + 1 ELSE active[t]]
          /\ Hold(s, "slot") /\ Goto(s, "rate")
    /\ UNCHANGED <<storeVars, req, tid, id, port, up, lost, registry, listener, gauge>>

(* rateLimiter.Allow, whose answer depends on the clock (module RateLimiter *)
(* has the bucket), then the switch on the request type.                    *)
Branch(s) ==
    CASE IsHTTP(s) -> "name"
      [] req[s].type = "tcp" /\ req[s].port # 0 /\ tid[s] > 0 -> "portCheck"
      [] OTHER -> "listen"

(* Mutant: the slot is given back on all later paths, not on this one (the  *)
(* release is deferred after the rate limit).                               *)
AllowRateLeaks(s) ==
    /\ At(s, "rate")
    /\ \/ RateLimited /\ tid[s] > 0 /\ Fail(s) /\ held' = [held EXCEPT ![s] = @ \ {"slot"}]
       \/ req[s].type = "other" /\ Fail(s) /\ UNCHANGED held
       \/ req[s].type # "other" /\ Goto(s, Branch(s)) /\ UNCHANGED held
    /\ port' = [port EXCEPT ![s] = IF req[s].type # "tcp" THEN @
                                   ELSE IF req[s].port = 0 THEN PortStart ELSE req[s].port]
    /\ UNCHANGED <<storeVars, req, tid, id, up, lost, sharedVars>>

AllowRate(s) ==
    /\ At(s, "rate")
    /\ \/ RateLimited /\ tid[s] > 0 /\ Fail(s)   \* rate limit exceeded
       \/ req[s].type = "other" /\ Fail(s)   \* unsupported tunnel type
       \/ req[s].type # "other" /\ Goto(s, Branch(s))
    /\ port' = [port EXCEPT ![s] = IF req[s].type # "tcp" THEN @
                                   ELSE IF req[s].port = 0 THEN PortStart ELSE req[s].port]
    /\ UNCHANGED <<storeVars, req, tid, id, up, held, lost, sharedVars>>

----------------------------------------------------------------------------
(* case "tcp": the reservation of a requested port, then handleTCPControl.  *)

CheckPort(s) ==
    /\ At(s, "portCheck")
    /\ LET p == req[s].port
           owner == ReservedTCPPortTokenID(p)
       IN \/ ~InRange(p) /\ Fail(s)   \* requested port out of range
          \/ InRange(p) /\ Fail(s)   \* invalid requested port: query error
          \/ InRange(p) /\ owner \notin {NoToken, tid[s]} /\ Fail(s)   \* unauthorized
          \/ InRange(p) /\ owner = tid[s] /\ Goto(s, "listen")
          \/ InRange(p) /\ owner = NoToken /\ Goto(s, "portReserve")
    /\ UNCHANGED <<storeVars, req, tid, id, port, up, held, lost, sharedVars>>

ReservePort(s) ==
    /\ At(s, "portReserve")
    /\ \/ ReserveTCPPort(tid[s], req[s].port) /\ Goto(s, "listen")
       \/ Goto(s, "portRecheck") /\ UNCHANGED storeVars  \* taken, or an error
    /\ UNCHANGED <<req, tid, id, port, up, held, lost, sharedVars>>

RecheckPort(s) ==
    /\ At(s, "portRecheck")
    /\ LET owner == ReservedTCPPortTokenID(req[s].port)
       IN \/ owner = tid[s] /\ Goto(s, "listen")
          \/ owner \notin {NoToken, tid[s]} /\ Fail(s)   \* unauthorized
          \/ Fail(s)   \* failed to reserve port: free again, or an error
    /\ UNCHANGED <<storeVars, req, tid, id, port, up, held, lost, sharedVars>>

(* allocateTCPListener.  Listen on a port may fail although no tunnel has   *)
(* it: another process may be bound to it.                                  *)
Listen(s, p) ==
    /\ listener[p] = NoSession
    /\ listener' = [listener EXCEPT ![p] = s]
    /\ Hold(s, "name") /\ Goto(s, "respond")
    /\ UNCHANGED port

ListenRequested(s) ==
    /\ At(s, "listen") /\ req[s].port # 0
    /\ \/ InRange(port[s]) /\ Listen(s, port[s])
       \/ /\ InRange(port[s])
          /\ Fail(s) /\ UNCHANGED <<listener, port, held>>   \* requested port unavailable
       \/ /\ ~InRange(port[s])
          /\ Fail(s) /\ UNCHANGED <<listener, port, held>>   \* requested port out of range
    /\ UNCHANGED <<storeVars, req, tid, id, up, lost, registry, active, gauge>>

(* The scan for a free port: one Listen per step, reservations not looked   *)
(* at.                                                                      *)
ListenScan(s) ==
    /\ At(s, "listen") /\ req[s].port = 0
    /\ \/ PortStart > 0 /\ InRange(port[s]) /\ Listen(s, port[s])
       \/ /\ PortStart > 0 /\ InRange(port[s])
          /\ port' = [port EXCEPT ![s] = @ + 1]
          /\ UNCHANGED <<pc, listener, held>>
       \/ /\ ~(PortStart > 0 /\ InRange(port[s]))
          /\ Fail(s) /\ UNCHANGED <<listener, port, held>>  \* no ports available
    /\ UNCHANGED <<storeVars, req, tid, id, up, lost, registry, active, gauge>>

----------------------------------------------------------------------------
(* case "http": handleHTTPControl.                                          *)

(* registry.AllocateID: a random id not in use when it is looked up; it     *)
(* fails after ten draws that all hit registered ids.                       *)
AllocateID(s) ==
    /\ At(s, "name") /\ req[s].name = NoName
    /\ \/ \E n \in Names : /\ registry[n] = NoSession
                           /\ id' = [id EXCEPT ![s] = n]
                           /\ Goto(s, "register")
       \/ /\ \E n \in Names : registry[n] # NoSession
          /\ Fail(s) /\ UNCHANGED id   \* failed to allocate id
    /\ UNCHANGED <<storeVars, req, tid, port, up, held, lost, sharedVars>>

(* Mutant: the result of tunnelIDFromHost is used without looking at ok.    *)
CheckSubdomainUnparsed(s) ==
    /\ At(s, "name") /\ req[s].name \notin {NoName, BothNames}
    /\ id' = [id EXCEPT ![s] = req[s].name]
    /\ Goto(s, "nameReserve")
    /\ UNCHANGED <<storeVars, req, tid, port, up, held, lost, sharedVars>>

CheckSubdomain(s) ==
    /\ At(s, "name") /\ req[s].name # NoName
    /\ LET n == req[s].name
       IN \/ n = BothNames /\ Fail(s) /\ UNCHANGED id   \* invalid request
          \/ /\ n # BothNames /\ tid[s] = NoToken
             /\ Fail(s) /\ UNCHANGED id   \* unauthorized
          \/ /\ n = BadName /\ tid[s] # NoToken
             /\ Fail(s) /\ UNCHANGED id   \* invalid domain
          \/ /\ n \in Names /\ tid[s] # NoToken
             /\ \/ Fail(s) /\ UNCHANGED id   \* invalid subdomain: query error
                \/ /\ ReservedSubdomainTokenID(n) \notin {NoToken, tid[s]}
                   /\ Fail(s) /\ UNCHANGED id   \* unauthorized
                \/ /\ ReservedSubdomainTokenID(n) = tid[s]
                   /\ id' = [id EXCEPT ![s] = n] /\ Goto(s, "register")
                \/ /\ ReservedSubdomainTokenID(n) = NoToken
                   /\ id' = [id EXCEPT ![s] = n] /\ Goto(s, "nameReserve")
    /\ UNCHANGED <<storeVars, req, tid, port, up, held, lost, sharedVars>>

ReserveName(s) ==
    /\ At(s, "nameReserve")
    /\ \/ ReserveSubdomain(tid[s], id[s]) /\ Goto(s, "register")
       \/ Goto(s, "nameRecheck") /\ UNCHANGED storeVars  \* taken, or an error
    /\ UNCHANGED <<req, tid, id, port, up, held, lost, sharedVars>>

(* Mutant: after a lost race any reservation counts as ours.                *)
RecheckNameAnyOwner(s) ==
    /\ At(s, "nameRecheck")
    /\ \/ ReservedSubdomainTokenID(id[s]) # NoToken /\ Goto(s, "register")
       \/ Fail(s)
    /\ UNCHANGED <<storeVars, req, tid, id, port, up, held, lost, sharedVars>>

RecheckName(s) ==
    /\ At(s, "nameRecheck")
    /\ LET owner == ReservedSubdomainTokenID(id[s])
       IN \/ owner = tid[s] /\ Goto(s, "register")
          \/ owner \notin {NoToken, tid[s]} /\ Fail(s)   \* unauthorized
          \/ Fail(s)   \* failed to reserve subdomain: free again, or an error
    /\ UNCHANGED <<storeVars, req, tid, id, port, up, held, lost, sharedVars>>

(* Mutant: RegisterHTTPTunnel replaces an entry that exists.                *)
RegisterOverwriting(s) ==
    /\ At(s, "register")
    /\ \/ ~req[s].opts /\ Fail(s) /\ UNCHANGED <<registry, held>>
       \/ /\ req[s].opts
          /\ registry' = [registry EXCEPT ![id[s]] = s]
          /\ Hold(s, "name") /\ Goto(s, "respond")
    /\ UNCHANGED <<storeVars, req, tid, id, port, up, lost, listener, active, gauge>>

(* registry.RegisterHTTPTunnel: one critical section.                       *)
RegisterHTTPTunnel(n, s) ==
    /\ registry[n] = NoSession
    /\ registry' = [registry EXCEPT ![n] = s]

(* The option lists are parsed only now, after the name was reserved.       *)
Register(s) ==
    /\ At(s, "register")
    /\ \/ ~req[s].opts /\ Fail(s) /\ UNCHANGED <<registry, held>>   \* invalid option
       \/ /\ req[s].opts /\ registry[id[s]] # NoSession
          /\ Fail(s) /\ UNCHANGED <<registry, held>>   \* failed to register tunnel
       \/ /\ req[s].opts /\ RegisterHTTPTunnel(id[s], s)
          /\ Hold(s, "name") /\ Goto(s, "respond")
    /\ UNCHANGED <<storeVars, req, tid, id, port, up, lost, listener, active, gauge>>

----------------------------------------------------------------------------
(* Both kinds of tunnel: the gauge, the response, the life of the tunnel.   *)

(* A TCP tunnel that was announced has a goroutine watching its session.    *)
Watcher(s) == IF IsHTTP(s) THEN {} ELSE {"watcher"}

(* Mutant: the gauge goes up only once the response is written, its release *)
(* is deferred all the same.                                                *)
RespondThenTrack(s) ==
    /\ At(s, "respond")
    /\ \/ /\ up[s] /\ Goto(s, "active") /\ HoldAll(s, {"gauge"} \cup Watcher(s))
          /\ gauge' = [gauge EXCEPT ![TunnelGauge(s)] = @ + 1]
       \/ Goto(s, "unwind") /\ HoldAll(s, {"gauge"}) /\ UNCHANGED gauge
    /\ UNCHANGED <<storeVars, req, tid, id, port, up, lost, registry, listener, active>>

Respond(s) ==
    /\ At(s, "respond")
    /\ gauge' = [gauge EXCEPT ![TunnelGauge(s)] = @ + 1]
    /\ \/ up[s] /\ Goto(s, "active") /\ HoldAll(s, {"gauge"} \cup Watcher(s))
       \/ Goto(s, "unwind") /\ HoldAll(s, {"gauge"})   \* WriteJSON failed
    /\ UNCHANGED <<storeVars, req, tid, id, port, up, lost, registry, listener, active>>

(* handleHTTPControl waits for the session to close.                        *)
WaitHTTP(s) ==
    /\ At(s, "active") /\ IsHTTP(s) /\ ~up[s]
    /\ Goto(s, "unwind")
    /\ UNCHANGED <<storeVars, req, tid, id, port, up, held, lost, sharedVars>>

(* Mutant: the watcher waits for the end of the process (ctx.Done), not for *)
(* the end of the session.                                                  *)
WatchTCPNot(s) == FALSE /\ "watcher" \in held[s] /\ UNCHANGED vars

(* The goroutine handleTCPControl starts: when the session closes it closes *)
(* the listener, also while the handler returns after an accept error.      *)
WatchTCP(s) ==
    /\ "watcher" \in held[s] /\ ~up[s]
    /\ listener[port[s]] = s
    /\ listener' = [listener EXCEPT ![port[s]] = NoSession]
    /\ UNCHANGED <<storeVars, localVars, registry, active, gauge>>

(* ln.Accept returns net.ErrClosed: the websocket is closed too.            *)
AcceptClosed(s) ==
    /\ At(s, "active") /\ ~IsHTTP(s)
    /\ listener[port[s]] # s
    /\ Goto(s, "unwind")
    /\ up' = [up EXCEPT ![s] = FALSE]
    /\ UNCHANGED <<storeVars, req, tid, id, port, held, lost, sharedVars>>

(* ln.Accept returns another error, for instance out of descriptors.        *)
AcceptError(s) ==
    /\ At(s, "active") /\ ~IsHTTP(s) /\ listener[port[s]] = s
    /\ Goto(s, "unwind")
    /\ UNCHANGED <<storeVars, req, tid, id, port, up, held, lost, sharedVars>>

----------------------------------------------------------------------------
(* The deferred calls, last in first out.                                   *)

Unwinding(s, r, later) == At(s, "unwind") /\ r \in held[s] /\ later \cap held[s] = {}
Drop(s, r) == held' = [held EXCEPT ![s] = @ \ {r}]

releaseTunnel(s) ==
    /\ Unwinding(s, "gauge", {})
    /\ gauge' = [gauge EXCEPT ![TunnelGauge(s)] = @ - 1]
    /\ Drop(s, "gauge")
    /\ UNCHANGED <<storeVars, pc, req, tid, id, port, up, lost, registry, listener, active>>

(* registry.UnregisterHTTPTunnel(id) deletes by id, whoever registered it.  *)
UnregisterHTTPTunnel(s) ==
    /\ Unwinding(s, "name", {"gauge"}) /\ IsHTTP(s)
    /\ registry' = [registry EXCEPT ![id[s]] = NoSession]
    /\ Drop(s, "name")
    /\ UNCHANGED <<storeVars, pc, req, tid, id, port, up, lost, listener, active, gauge>>

(* Mutant: the port is given back by number, as the registry's ids are.     *)
CloseListenerByPort(s) ==
    /\ Unwinding(s, "name", {"gauge"}) /\ ~IsHTTP(s)
    /\ listener' = [listener EXCEPT ![port[s]] = NoSession]
    /\ Drop(s, "name")
    /\ UNCHANGED <<storeVars, pc, req, tid, id, port, up, lost, registry, active, gauge>>

(* ln.Close: no effect when the watcher closed this listener before.        *)
CloseListener(s) ==
    /\ Unwinding(s, "name", {"gauge"}) /\ ~IsHTTP(s)
    /\ listener' = [listener EXCEPT ![port[s]] = IF @ = s THEN NoSession ELSE @]
    /\ Drop(s, "name")
    /\ UNCHANGED <<storeVars, pc, req, tid, id, port, up, lost, registry, active, gauge>>

(* The release function TryAcquire returned: the last one deletes the key.  *)
ReleaseSlot(s) ==
    /\ Unwinding(s, "slot", {"gauge", "name"})
    /\ active' = IF ActiveOf(tid[s]) <= 1
                 THEN [t \in DOMAIN active \ {tid[s]} |-> active[t]]
                 ELSE [active EXCEPT ![tid[s]] = @ - 1]
    /\ Drop(s, "slot")
    /\ UNCHANGED <<storeVars, pc, req, tid, id, port, up, lost, registry, listener, gauge>>

CloseSession(s) ==
    /\ Unwinding(s, "session", {"gauge", "name", "slot"})
    /\ up' = [up EXCEPT ![s] = FALSE]
    /\ Drop(s, "session")
    /\ UNCHANGED <<storeVars, pc, req, tid, id, port, lost, sharedVars>>

(* releaseControlConn and conn.Close; the slot is free for a new connection.*)
CloseConn(s) ==
    /\ Unwinding(s, "conn", {"gauge", "name", "slot", "session"})
    /\ gauge' = [gauge EXCEPT !["conns"] = @ - 1]
    /\ pc' = [pc EXCEPT ![s] = "idle"]
    /\ held' = [held EXCEPT ![s] = {}]
    /\ req' = [req EXCEPT ![s] = NoRequest]
    /\ tid' = [tid EXCEPT ![s] = NoToken]
    /\ id' = [id EXCEPT ![s] = NoName]
    /\ port' = [port EXCEPT ![s] = 0]
    /\ lost' = [lost EXCEPT ![s] = FALSE]
    /\ UNCHANGED <<storeVars, up, registry, listener, active>>

----------------------------------------------------------------------------
(* The environment of the handlers.                                         *)

(* The client closes, or the connection breaks and yamux notices.           *)
Disconnect(s) ==
    /\ up[s] /\ pc[s] # "idle"
    /\ up' = [up EXCEPT ![s] = FALSE]
    /\ UNCHANGED <<storeVars, pc, req, tid, id, port, held, lost, sharedVars>>

(* The server process dies and starts again on the same database; main      *)
(* calls EnsureToken(cfg.AuthToken) if there is one.                        *)
Restart ==
    /\ UNCHANGED storeVars \/ (AuthMode = "store" /\ EnsureToken(StaticSecret))
    /\ pc' = [s \in Sessions |-> "idle"]
    /\ req' = [s \in Sessions |-> NoRequest]
    /\ tid' = [s \in Sessions |-> NoToken]
    /\ id' = [s \in Sessions |-> NoName]
    /\ port' = [s \in Sessions |-> 0]
    /\ up' = [s \in Sessions |-> FALSE]
    /\ held' = [s \in Sessions |-> {}]
    /\ lost' = [s \in Sessions |-> FALSE]
    /\ registry' = [n \in Names |-> NoSession]
    /\ listener' = [p \in Ports |-> NoSession]
    /\ active' = [t \in {} |-> 0]
    /\ gauge' = [g \in Gauges |-> 0]

(* The handler of s passed the reservation check for the name or port it    *)
(* asked for.                                                               *)
ClaimsName(s) ==
    /\ IsHTTP(s) /\ req[s].name # NoName
    /\ At(s, "register") \/ "name" \in held[s]
ClaimsPort(s) ==
    /\ ~IsHTTP(s) /\ req[s].port # 0 /\ tid[s] # NoToken
    /\ At(s, "listen") \/ "name" \in held[s]

(* The operator's statements on the store, with the history variable.       *)
RemoveSubdomain(n) ==
    /\ UnreserveSubdomain(n)
    /\ lost' = [s \in Sessions |-> lost[s] \/ (ClaimsName(s) /\ id[s] = n)]
RemovePort(p) ==
    /\ UnreserveTCPPort(p)
    /\ lost' = [s \in Sessions |-> lost[s] \/ (ClaimsPort(s) /\ port[s] = p)]

(* Any id may be named; one that does not exist is an error.                *)
Operator ==
    /\ \/ "create" \in OperatorOps /\ CreateToken /\ UNCHANGED lost
       \/ /\ "revoke" \in OperatorOps
          /\ \E t \in 0..nextID : RevokeToken(t) /\ UNCHANGED lost
       \/ /\ "reserve" \in OperatorOps /\ UNCHANGED lost
          /\ \E t \in 0..nextID : \/ \E n \in Names : ReserveSubdomain(t, n)
                                   \/ \E p \in Ports : ReserveTCPPort(t, p)
       \/ /\ "unreserve" \in OperatorOps
          /\ \/ \E n \in Names : RemoveSubdomain(n)
             \/ \E p \in Ports : RemovePort(p)
    /\ UNCHANGED <<pc, req, tid, id, port, up, held, sharedVars>>

(* The deferred calls of s.                                                 *)
Unwind(s) ==
    \/ releaseTunnel(s) \/ UnregisterHTTPTunnel(s) \/ CloseListener(s)
    \/ ReleaseSlot(s) \/ CloseSession(s) \/ CloseConn(s)

(* The steps the goroutine of s takes by itself.                            *)
Handler(s) ==
    \/ AcceptStreamFails(s) \/ Validate(s) \/ Resolve(s) \/ TryAcquire(s) \/ AllowRate(s)
    \/ CheckPort(s) \/ ReservePort(s) \/ RecheckPort(s)
    \/ ListenRequested(s) \/ ListenScan(s)
    \/ AllocateID(s) \/ CheckSubdomain(s) \/ ReserveName(s) \/ RecheckName(s) \/ Register(s)
    \/ Respond(s) \/ WaitHTTP(s) \/ AcceptClosed(s)
    \/ Unwind(s)

Next ==
    \/ \E s \in Sessions :
         \/ AcceptConn(s) \/ RecvRequest(s) \/ Disconnect(s)
         \/ Handler(s) \/ WatchTCP(s) \/ AcceptError(s)
    \/ Operator
    \/ Restart

Spec == Init /\ [][Next]_vars

----------------------------------------------------------------------------
(* Properties.                                                              *)

TypeOK ==
    /\ StoreTypeOK
    /\ pc \in [Sessions -> Steps]
    /\ req \in [Sessions -> Request]
    /\ tid \in [Sessions -> Nat]
    /\ id \in [Sessions -> Names \cup {NoName}]
    /\ port \in [Sessions -> Nat]
    /\ up \in [Sessions -> BOOLEAN]
    /\ held \in [Sessions -> SUBSET Resources]
    /\ lost \in [Sessions -> BOOLEAN]
    /\ registry \in [Names -> Sessions \cup {NoSession}]
    /\ listener \in [Ports -> Sessions \cup {NoSession}]
    /\ DOMAIN active \subseteq Nat /\ active \in [DOMAIN active -> Nat]
    /\ gauge \in [Gauges -> Int]

SlotHolders(t) == {s \in Sessions : "slot" \in held[s] /\ tid[s] = t}
Tunnels(t) == {s \in Sessions : "name" \in held[s] /\ tid[s] = t}

(* The limiter's map counts exactly the handlers that have not released     *)
(* their slot, and has no key for a token without any (limits.go            *)
(* TryAcquire and its release): no slot leaks on any error path, none is    *)
(* given back twice.                                                        *)
SlotAccounting ==
    /\ \A t \in DOMAIN active : t > 0 /\ active[t] > 0
    /\ \A t \in Nat \ {0} : ActiveOf(t) = Cardinality(SlotHolders(t))
SlotAccountingChecked ==
    /\ \A t \in DOMAIN active : t > 0 /\ active[t] > 0
    /\ \A t \in {tid[s] : s \in Sessions} \ {0} : ActiveOf(t) = Cardinality(SlotHolders(t))

(* MaxTunnelsPerToken caps the tunnels that hold a name or a port, for      *)
(* every token id a handler resolved, through every interleaving of set-up  *)
(* and tear-down (a slot outlives the name it was taken for).               *)
TunnelCap ==
    MaxTunnels > 0 =>
        \A s \in Sessions : tid[s] > 0 => Cardinality(Tunnels(tid[s])) <= MaxTunnels

(* The registry has an entry for id n exactly while a handler that          *)
(* registered n has not unregistered it, and it is that handler's session:  *)
(* the delete by id of UnregisterHTTPTunnel never hits the entry of another *)
(* session, and none is left behind.                                        *)
RegistryOwned ==
    \A n \in Names, s \in Sessions :
        registry[n] = s <=> "name" \in held[s] /\ IsHTTP(s) /\ id[s] = n

(* Likewise for bound ports, which the watcher may give back before the     *)
(* handler does.                                                            *)
ListenerOwned ==
    /\ \A p \in Ports, s \in Sessions :
         listener[p] = s => "name" \in held[s] /\ ~IsHTTP(s) /\ port[s] = p
    /\ \A s \in Sessions :
         "name" \in held[s] /\ ~IsHTTP(s) /\ listener[port[s]] # s
             => ~up[s]

(* The gauges of /metrics agree with the connections and tunnels there are. *)
GaugesAgree ==
    /\ gauge["conns"] = Cardinality({s \in Sessions : "conn" \in held[s]})
    /\ gauge["http"] = Cardinality({s \in Sessions : "gauge" \in held[s] /\ IsHTTP(s)})
    /\ gauge["tcp"] = Cardinality({s \in Sessions : "gauge" \in held[s] /\ ~IsHTTP(s)})

(* A tunnel on a requested name or port runs under a reservation of its own *)
(* token (a name never without a token), unless the operator removed that   *)
(* reservation after the handler checked it: the check, the insert and the  *)
(* re-check after a lost race never let a handler through on another        *)
(* token's reservation.                                                     *)
ClaimsAreReserved ==
    \A s \in Sessions :
        /\ ClaimsName(s) => tid[s] # NoToken
        /\ ClaimsName(s) /\ ~lost[s] => subOwner[id[s]] = tid[s]
        /\ ClaimsPort(s) /\ ~lost[s] => portOwner[port[s]] = tid[s]

(* What the documents say and the code does not keep.                       *)

(* A port that is reserved for another token is refused (PLAN.md, milestone *)
(* 14): binding p, a handler's token is the one p is reserved for, if any.  *)
PortReservationsEnforced ==
    [][\A p \in Ports, s \in Sessions :
         listener[p] = NoSession /\ listener'[p] = s
             => portOwner[p] \in {NoToken, tid[s]}]_vars

(* MaxTunnelsPerToken caps the concurrent tunnels of an authtoken           *)
(* (handler.go, Config), whatever happens to the token meanwhile.           *)
CapPerAuthtoken ==
    MaxTunnels > 0 /\ AuthMode = "store" =>
        \A k \in Secrets :
            Cardinality({s \in Sessions : "name" \in held[s] /\ req[s].token = k}) <= MaxTunnels

----------------------------------------------------------------------------
(* Liveness: the handlers and watchers run on; nothing is assumed of        *)
(* clients, of the operator, or of accept errors.                           *)
Fairness == \A s \in Sessions : WF_vars(Handler(s)) /\ WF_vars(WatchTCP(s))
FairSpec == Spec /\ Fairness

(* Once the session of a client is closed, its name or port, its slot and   *)
(* its gauges are given back, whatever state the handler was in.            *)
ClosedSessionReleases ==
    \A s \in Sessions : (~up[s] /\ pc[s] # "idle") ~> (held[s] = {})

----------------------------------------------------------------------------
(* The control plane implements the lease service: registered ids and bound *)
(* ports are the leases, the resolved token id is the account.              *)

ASSUME NamesAreNotPorts == Names \cap Ports = {}

HolderOf(s) ==
    \/ \E n \in Names : registry[n] = s
    \/ \E p \in Ports : listener[p] = s

Leases == INSTANCE TunnelLeases WITH
    Clients   <- Sessions,
    Leasable  <- Names \cup Ports,
    Quota     <- MaxTunnels,
    Nobody    <- NoSession,
    Anonymous <- NoToken,
    holder    <- [r \in Names \cup Ports |->
                    IF r \in Names THEN registry[r] ELSE listener[r]],
    account   <- [s \in Sessions |-> IF HolderOf(s) THEN tid[s] ELSE NoToken]

(* Every step of the control plane grants or releases one lease, loses them *)
(* all in a restart, or leaves the leases alone: no name or port changes    *)
(* hands without being released, no session gets two, and no token gets     *)
(* more than MaxTunnels (control.go, registry.go, limits.go together).      *)
ImplementsLeases ==
    Leases!LeaseInit /\ [][Leases!LeaseNext({NoToken} \cup {tid[s] : s \in Sessions})]_(Leases!leaseVars)
================================================================================
