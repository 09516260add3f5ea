--------------------------- MODULE ControlPlaneProofs --------------------------
(****************************************************************************)
(* Proofs about the control plane, for any number of sessions, any names,   *)
(* ports and requests, every authentication mode and every limit; the store *)
(* first, for any secrets, names and ports, under statements in any order;  *)
(* then the claims on names and ports; then what is counted, and leases.    *)
(****************************************************************************)
EXTENDS ControlPlane, FiniteSetTheorems, TLAPS

----------------------------------------------------------------------------
(* The store.                                                               *)

(* The inductive invariant is the conjunction of the three; each needs the  *)
(* types, and IdsNameOneSecret is what lets insertToken find a fresh id.    *)
StoreInv == StoreTypeOK /\ IdsNameOneSecret /\ ReservationsHaveOwner

(* Rows of authtokens never go away: RowExists is stable under every step.  *)
LEMMA RowsStay ==
    ASSUME StoreTypeOK, [StoreNext]_storeVars, NEW t, RowExists(t)
    PROVE  RowExists(t)'
<1>1. PICK k \in Secrets : tokenRow[k] = t
  BY DEF RowExists
<1>2. tokenRow[k] # 0
  BY <1>1 DEF RowExists, NoToken
<1>3. tokenRow'[k] = tokenRow[k]
  <2>1. ASSUME NEW j \in Secrets, insertToken(j) PROVE tokenRow'[k] = tokenRow[k]
    BY <2>1, <1>2 DEF insertToken, StoreTypeOK, NoToken
  <2>. QED
    BY <2>1 DEF StoreNext, TokenCommands, ReserveCommands, TCPReserveCommands, CreateToken,
       EnsureToken, RevokeToken, ReserveSubdomain,
                UnreserveSubdomain, ReserveTCPPort, UnreserveTCPPort, storeVars
<1>. QED
  BY <1>1, <1>3 DEF RowExists

(* What insertToken does to the rows: the new id is fresh, the other rows   *)
(* are as before.                                                           *)
LEMMA InsertTokenFresh ==
    ASSUME StoreInv, NEW k \in Secrets, insertToken(k)
    PROVE  StoreTypeOK' /\ IdsNameOneSecret'
<1>. USE DEF StoreInv, NoToken
<1>1. /\ tokenRow' = [tokenRow EXCEPT ![k] = nextID]
      /\ nextID' = nextID + 1
      /\ UNCHANGED <<revoked, subOwner, portOwner>>
  BY DEF insertToken
<1>2. StoreTypeOK'
  BY <1>1 DEF StoreTypeOK
<1>3. \A j \in Secrets : tokenRow'[j] = IF j = k THEN nextID ELSE tokenRow[j]
  BY <1>1 DEF StoreTypeOK
<1>4. IdsNameOneSecret'
  BY <1>1, <1>3 DEF IdsNameOneSecret, StoreTypeOK
<1>. QED
  BY <1>2, <1>4

LEMMA StoreInvStep == StoreInv /\ [StoreNext]_storeVars => StoreInv'
<1>. SUFFICES ASSUME StoreInv, [StoreNext]_storeVars PROVE StoreInv'
  OBVIOUS
<1>. USE DEF StoreInv, NoToken
<1>1. \A t : RowExists(t) => RowExists(t)'
  BY RowsStay
<1>2. ASSUME NEW k \in Secrets, insertToken(k) PROVE StoreInv'
  <2>1. StoreTypeOK' /\ IdsNameOneSecret'
    BY <1>2, InsertTokenFresh
  <2>2. ReservationsHaveOwner'
    BY <1>1, <1>2 DEF insertToken, ReservationsHaveOwner
  <2>. QED
    BY <2>1, <2>2
<1>3. ASSUME NEW t \in 0..nextID, RevokeToken(t) PROVE StoreInv'
  <2>1. t # 0 /\ t \in Nat
    BY <1>3 DEF RevokeToken, RowExists, StoreTypeOK
  <2>. QED
    BY <1>1, <1>3, <2>1 DEF RevokeToken, StoreTypeOK, IdsNameOneSecret, ReservationsHaveOwner
<1>4. ASSUME NEW t \in 0..nextID, NEW n \in Names, ReserveSubdomain(t, n) PROVE StoreInv'
  <2>1. RowExists(t)' /\ t \in Nat
    BY <1>1, <1>4 DEF ReserveSubdomain, CanReserveSubdomain, StoreTypeOK
  <2>2. \A m \in Names : subOwner'[m] = IF m = n THEN t ELSE subOwner[m]
    BY <1>4 DEF ReserveSubdomain, StoreTypeOK
  <2>. QED
    BY <1>1, <1>4, <2>1, <2>2
       DEF ReserveSubdomain, StoreTypeOK, IdsNameOneSecret, ReservationsHaveOwner
<1>5. ASSUME NEW n \in Names, UnreserveSubdomain(n) PROVE StoreInv'
  <2>1. \A m \in Names : subOwner'[m] = IF m = n THEN 0 ELSE subOwner[m]
    BY <1>5 DEF UnreserveSubdomain, StoreTypeOK
  <2>. QED
    BY <1>1, <1>5, <2>1
       DEF UnreserveSubdomain, StoreTypeOK, IdsNameOneSecret, ReservationsHaveOwner
<1>6. ASSUME NEW t \in 0..nextID, NEW p \in Ports, ReserveTCPPort(t, p) PROVE StoreInv'
  <2>1. RowExists(t)' /\ t \in Nat
    BY <1>1, <1>6 DEF ReserveTCPPort, CanReserveTCPPort, StoreTypeOK
  <2>2. \A q \in Ports : portOwner'[q] = IF q = p THEN t ELSE portOwner[q]
    BY <1>6 DEF ReserveTCPPort, StoreTypeOK
  <2>. QED
    BY <1>1, <1>6, <2>1, <2>2
       DEF ReserveTCPPort, StoreTypeOK, IdsNameOneSecret, ReservationsHaveOwner
<1>7. ASSUME NEW p \in Ports, UnreserveTCPPort(p) PROVE StoreInv'
  <2>1. \A q \in Ports : portOwner'[q] = IF q = p THEN 0 ELSE portOwner[q]
    BY <1>7 DEF UnreserveTCPPort, StoreTypeOK
  <2>. QED
    BY <1>1, <1>7, <2>1
       DEF UnreserveTCPPort, StoreTypeOK, IdsNameOneSecret, ReservationsHaveOwner
<1>8. CASE UNCHANGED storeVars
  BY <1>8 DEF storeVars, StoreTypeOK, IdsNameOneSecret, ReservationsHaveOwner, RowExists
<1>. QED
  BY <1>2, <1>3, <1>4, <1>5, <1>6, <1>7, <1>8 DEF StoreNext, TokenCommands, ReserveCommands,
     TCPReserveCommands, CreateToken, EnsureToken

LEMMA StoreInvHolds == StoreSpec => []StoreInv
<1>1. StoreInit => StoreInv
  BY DEF StoreInit, StoreInv, StoreTypeOK, IdsNameOneSecret, ReservationsHaveOwner, NoToken
<1>. QED
  BY <1>1, StoreInvStep, PTL DEF StoreSpec

(* Every column of the store keeps its type.                                *)
THEOREM StoreTypesHold == StoreSpec => []StoreTypeOK
  BY StoreInvHolds, PTL DEF StoreInv

(* A token id names one secret for ever (insertToken, EnsureToken).         *)
THEOREM TokenIdsAreUnique == StoreSpec => []IdsNameOneSecret
  BY StoreInvHolds, PTL DEF StoreInv

(* No reservation outlives or precedes the token row it refers to.          *)
THEOREM ReservationsNeverDangle == StoreSpec => []ReservationsHaveOwner
  BY StoreInvHolds, PTL DEF StoreInv

(* A revoked secret stays revoked under every statement of the store, the   *)
(* EnsureToken of a server restart included.                                *)
THEOREM RevokedStaysRevoked == StoreSpec => RevocationIsPermanent
<1>1. ASSUME StoreInv, [StoreNext]_storeVars, NEW k \in Secrets, tokenRow[k] \in revoked
      PROVE  ~ValidateToken(k)'
  <2>1. tokenRow[k] # 0
    BY <1>1 DEF StoreInv, StoreTypeOK
  <2>2. ASSUME NEW j \in Secrets, insertToken(j)
        PROVE tokenRow'[k] = tokenRow[k] /\ revoked' = revoked
    BY <2>1, <2>2, <1>1 DEF insertToken, StoreInv, StoreTypeOK, NoToken
  <2>3. tokenRow'[k] = tokenRow[k] /\ revoked \subseteq revoked'
    BY <1>1, <2>2 DEF StoreNext, TokenCommands, ReserveCommands, TCPReserveCommands,
       CreateToken, EnsureToken, RevokeToken, ReserveSubdomain,
                      UnreserveSubdomain, ReserveTCPPort, UnreserveTCPPort, storeVars
  <2>. QED
    BY <2>3, <1>1 DEF ValidateToken
<1>2. StoreInv /\ [StoreNext]_storeVars
        => [\A k \in Secrets : tokenRow[k] \in revoked => ~ValidateToken(k)']_storeVars
  BY <1>1
<1>. QED
  BY <1>2, StoreInvHolds, PTL DEF StoreSpec, RevocationIsPermanent

(* A reserved name or port never changes hands in one step.                 *)
THEOREM ReservationsNeverStolen == StoreSpec => ReservationsAreNotStolen
<1>. DEFINE Kept == /\ \A n \in Names : subOwner[n] # NoToken
                                => subOwner'[n] \in {subOwner[n], NoToken}
                    /\ \A p \in Ports : portOwner[p] # NoToken
                                => portOwner'[p] \in {portOwner[p], NoToken}
<1>1. StoreInv /\ [StoreNext]_storeVars => [Kept]_storeVars
  <2>. SUFFICES ASSUME StoreInv, StoreNext PROVE Kept
    BY DEF storeVars
  <2>. USE DEF StoreInv, StoreTypeOK, NoToken
  <2>1. ASSUME NEW t \in 0..nextID, NEW n \in Names, ReserveSubdomain(t, n) PROVE Kept
    BY <2>1 DEF ReserveSubdomain, CanReserveSubdomain
  <2>2. ASSUME NEW t \in 0..nextID, NEW p \in Ports, ReserveTCPPort(t, p) PROVE Kept
    BY <2>2 DEF ReserveTCPPort, CanReserveTCPPort
  <2>3. ASSUME NEW n \in Names, UnreserveSubdomain(n) PROVE Kept
    BY <2>3 DEF UnreserveSubdomain
  <2>4. ASSUME NEW p \in Ports, UnreserveTCPPort(p) PROVE Kept
    BY <2>4 DEF UnreserveTCPPort
  <2>5. ASSUME UNCHANGED <<subOwner, portOwner>> PROVE Kept
    BY <2>5
  <2>. QED
    BY <2>1, <2>2, <2>3, <2>4, <2>5
       DEF StoreNext, TokenCommands, ReserveCommands, TCPReserveCommands, CreateToken,
           EnsureToken, insertToken, RevokeToken, storeVars
<1>. QED
  BY <1>1, StoreInvHolds, PTL DEF StoreSpec, ReservationsAreNotStolen

----------------------------------------------------------------------------
(* The handlers.                                                            *)

USE DEF At, Goto, Fail, Hold, HoldAll, Watcher, Drop, IsHTTP, Unwinding, NoToken, storeVars, sharedVars, localVars

(* The step relation of one session, split by what it does to the public    *)
(* names and ports: nothing, take one, give one back.                       *)
Quiet(s) ==
    \/ AcceptConn(s) \/ RecvRequest(s) \/ Disconnect(s) \/ AcceptError(s)
    \/ AcceptStreamFails(s) \/ Validate(s) \/ Resolve(s) \/ TryAcquire(s) \/ AllowRate(s)
    \/ CheckPort(s) \/ ReservePort(s) \/ RecheckPort(s)
    \/ AllocateID(s) \/ CheckSubdomain(s) \/ ReserveName(s) \/ RecheckName(s)
    \/ Respond(s) \/ WaitHTTP(s) \/ AcceptClosed(s)
    \/ releaseTunnel(s) \/ ReleaseSlot(s) \/ CloseSession(s) \/ CloseConn(s)
Taking(s) == Register(s) \/ ListenRequested(s) \/ ListenScan(s)
Giving(s) == UnregisterHTTPTunnel(s) \/ CloseListener(s) \/ WatchTCP(s)

LEMMA NextCases ==
    Next <=> \/ \E s \in Sessions : Quiet(s) \/ Taking(s) \/ Giving(s)
             \/ Operator \/ Restart
  BY DEF Next, Handler, Unwind, Quiet, Taking, Giving

----------------------------------------------------------------------------
(* Types.                                                                   *)

LEMMA NoRequestIsRequest == NoRequest \in Request
  BY ControlAssumption DEF NoRequest, Request

LEMMA QuietTypes == ASSUME TypeOK, NEW s \in Sessions, Quiet(s) PROVE TypeOK'
<1>. USE DEF TypeOK, StoreTypeOK, Steps
<1>1. CASE AcceptConn(s)
  BY <1>1 DEF AcceptConn, Resources, Gauges
<1>2. CASE RecvRequest(s)
  BY <1>2, ControlAssumption DEF RecvRequest
<1>3. CASE Disconnect(s)
  BY <1>3 DEF Disconnect
<1>4. CASE AcceptError(s)
  BY <1>4 DEF AcceptError
<1>5. CASE AcceptStreamFails(s)
  BY <1>5 DEF AcceptStreamFails
<1>6. CASE Validate(s)
  BY <1>6 DEF Validate
<1>7. CASE Resolve(s)
  <2>1. TokenID(req[s].token) \in Nat
    BY DEF TokenID, Request
  <2>. QED
    BY <1>7, <2>1 DEF Resolve
<1>8. CASE TryAcquire(s)
  BY <1>8 DEF TryAcquire, ActiveOf, Resources
<1>9. CASE AllowRate(s)
  <2>1. req[s].port \in Nat /\ PortStart \in Nat
    BY ControlAssumption, StoreAssumption DEF Request
  <2>2. Branch(s) \in Steps
    BY DEF Branch
  <2>. QED
    BY <1>9, <2>1, <2>2 DEF AllowRate
<1>10. CASE CheckPort(s)
  BY <1>10 DEF CheckPort
<1>11. CASE ReservePort(s)
  BY <1>11 DEF ReservePort, ReserveTCPPort
<1>12. CASE RecheckPort(s)
  BY <1>12 DEF RecheckPort
<1>13. CASE AllocateID(s)
  BY <1>13 DEF AllocateID
<1>14. CASE CheckSubdomain(s)
  BY <1>14 DEF CheckSubdomain
<1>15. CASE ReserveName(s)
  BY <1>15 DEF ReserveName, ReserveSubdomain
<1>16. CASE RecheckName(s)
  BY <1>16 DEF RecheckName
<1>17. CASE Respond(s)
  BY <1>17 DEF Respond, Resources, Gauges, TunnelGauge
<1>18. CASE WaitHTTP(s)
  BY <1>18 DEF WaitHTTP
<1>19. CASE AcceptClosed(s)
  BY <1>19 DEF AcceptClosed
<1>20. CASE releaseTunnel(s)
  BY <1>20 DEF releaseTunnel, Gauges, TunnelGauge
<1>21. CASE ReleaseSlot(s)
  BY <1>21 DEF ReleaseSlot, ActiveOf
<1>22. CASE CloseSession(s)
  BY <1>22 DEF CloseSession
<1>23. CASE CloseConn(s)
  BY <1>23, NoRequestIsRequest DEF CloseConn, Gauges
<1>. QED
  BY <1>1, <1>2, <1>3, <1>4, <1>5, <1>6, <1>7, <1>8, <1>9, <1>10, <1>11, <1>12, <1>13,
     <1>14, <1>15, <1>16, <1>17, <1>18, <1>19, <1>20, <1>21, <1>22, <1>23 DEF Quiet

LEMMA TypesStep == TypeOK /\ [Next]_vars => TypeOK'
<1>. SUFFICES ASSUME TypeOK, [Next]_vars PROVE TypeOK'
  OBVIOUS
<1>1. ASSUME NEW s \in Sessions, Quiet(s) PROVE TypeOK'
  BY <1>1, QuietTypes
<1>2. ASSUME NEW s \in Sessions, Taking(s) PROVE TypeOK'
  <2>. USE DEF TypeOK, StoreTypeOK, Steps, Resources
  <2>1. CASE Register(s)
    BY <2>1 DEF Register, RegisterHTTPTunnel
  <2>2. CASE ListenRequested(s)
    BY <2>2 DEF ListenRequested, Listen
  <2>3. CASE ListenScan(s)
    BY <2>3 DEF ListenScan, Listen
  <2>. QED
    BY <1>2, <2>1, <2>2, <2>3 DEF Taking
<1>3. ASSUME NEW s \in Sessions, Giving(s) PROVE TypeOK'
  <2>. USE DEF TypeOK, StoreTypeOK, Steps
  <2>1. CASE UnregisterHTTPTunnel(s)
    BY <2>1 DEF UnregisterHTTPTunnel
  <2>2. CASE CloseListener(s)
    BY <2>2 DEF CloseListener
  <2>3. CASE WatchTCP(s)
    BY <2>3 DEF WatchTCP
  <2>. QED
    BY <1>3, <2>1, <2>2, <2>3 DEF Giving
<1>4. CASE Operator
  <2>. USE DEF TypeOK, StoreTypeOK
  <2>1. UNCHANGED <<pc, req, tid, id, port, up, held, registry, listener, active, gauge>>
    BY <1>4 DEF Operator
  <2>2. ASSUME NEW n \in Names, RemoveSubdomain(n) PROVE StoreTypeOK' /\ lost' \in [Sessions -> BOOLEAN]
    BY <2>2 DEF RemoveSubdomain, UnreserveSubdomain, ClaimsName
  <2>3. ASSUME NEW p \in Ports, RemovePort(p) PROVE StoreTypeOK' /\ lost' \in [Sessions -> BOOLEAN]
    BY <2>3 DEF RemovePort, UnreserveTCPPort, ClaimsPort
  <2>4. CreateToken => StoreTypeOK'
    BY DEF CreateToken, insertToken
  <2>5. ASSUME NEW t \in Nat, RevokeToken(t) PROVE StoreTypeOK'
    BY <2>5 DEF RevokeToken, RowExists
  <2>6. ASSUME NEW t \in Nat, NEW n \in Names, ReserveSubdomain(t, n) PROVE StoreTypeOK'
    BY <2>6 DEF ReserveSubdomain
  <2>7. ASSUME NEW t \in Nat, NEW p \in Ports, ReserveTCPPort(t, p) PROVE StoreTypeOK'
    BY <2>7 DEF ReserveTCPPort
  <2>. QED
    BY <1>4, <2>1, <2>2, <2>3, <2>4, <2>5, <2>6, <2>7 DEF Operator
<1>5. CASE Restart
  <2>1. StoreTypeOK'
    <3>1. UNCHANGED storeVars \/ insertToken(StaticSecret)
      BY <1>5 DEF Restart, EnsureToken
    <3>2. CASE insertToken(StaticSecret)
      BY <3>2, ControlAssumption DEF insertToken, TypeOK, StoreTypeOK
    <3>. QED
      BY <3>1, <3>2 DEF TypeOK, StoreTypeOK
  <2>2. /\ pc' = [s \in Sessions |-> "idle"] /\ req' = [s \in Sessions |-> NoRequest]
        /\ tid' = [s \in Sessions |-> 0] /\ id' = [s \in Sessions |-> NoName]
        /\ port' = [s \in Sessions |-> 0] /\ up' = [s \in Sessions |-> FALSE]
        /\ held' = [s \in Sessions |-> {}] /\ lost' = [s \in Sessions |-> FALSE]
        /\ registry' = [n \in Names |-> NoSession] /\ listener' = [p \in Ports |-> NoSession]
        /\ active' = [t \in {} |-> 0] /\ gauge' = [g \in Gauges |-> 0]
    BY <1>5 DEF Restart
  <2>. QED
    BY <2>1, <2>2, NoRequestIsRequest DEF TypeOK, Steps, Gauges
<1>6. CASE UNCHANGED vars
  BY <1>6 DEF vars, TypeOK, StoreTypeOK
<1>. QED
  BY <1>1, <1>2, <1>3, <1>4, <1>5, <1>6, NextCases

(* The type invariant of the control plane.                                 *)
THEOREM ControlTypes == Spec => []TypeOK
<1>1. Init => TypeOK
  BY NoRequestIsRequest DEF Init, StoreInit, TypeOK, StoreTypeOK, Steps, Gauges
<1>. QED
  BY <1>1, TypesStep, PTL DEF Spec

----------------------------------------------------------------------------
(* The shape of a handler: what its program counter says of its locals.  A  *)
(* name or port is held only after it was taken; the name steps are those   *)
(* of HTTP requests, the port steps those of TCP requests; the steps that   *)
(* reserve are only reached with a token; the port in hand is the requested *)
(* one, if one was requested.                                               *)
NameSteps == {"name", "nameReserve", "nameRecheck", "register"}
PortSteps == {"portCheck", "portReserve", "portRecheck", "listen"}

HandlerShape(s) ==
    /\ pc[s] = "idle" => held[s] = {}
    /\ "name" \in held[s] => pc[s] \in {"respond", "active", "unwind"}
    /\ pc[s] \in NameSteps => IsHTTP(s)
    /\ pc[s] \in PortSteps => req[s].type = "tcp"
    /\ pc[s] \in NameSteps \ {"name"} \/ ("name" \in held[s] /\ IsHTTP(s)) => id[s] \in Names
    /\ pc[s] \in {"nameReserve", "nameRecheck"} => tid[s] # 0
    /\ pc[s] \in PortSteps \ {"listen"} => tid[s] # 0 /\ req[s].port # 0
    /\ /\ req[s].port # 0
       /\ pc[s] \in PortSteps \/ ("name" \in held[s] /\ ~IsHTTP(s))
       => port[s] = req[s].port
Shape == \A s \in Sessions : HandlerShape(s)

LEMMA QuietShape == ASSUME TypeOK, Shape, NEW s \in Sessions, Quiet(s) PROVE Shape'
<1>. USE DEF TypeOK, Shape, HandlerShape, NameSteps, PortSteps
<1>1. CASE AcceptConn(s)
  BY <1>1 DEF AcceptConn
<1>2. CASE RecvRequest(s)
  BY <1>2 DEF RecvRequest
<1>3. CASE Disconnect(s)
  BY <1>3 DEF Disconnect
<1>4. CASE AcceptError(s)
  BY <1>4 DEF AcceptError
<1>5. CASE AcceptStreamFails(s)
  BY <1>5 DEF AcceptStreamFails
<1>6. CASE Validate(s)
  BY <1>6 DEF Validate
<1>7. CASE Resolve(s)
  BY <1>7 DEF Resolve
<1>8. CASE TryAcquire(s)
  BY <1>8 DEF TryAcquire
<1>9. CASE AllowRate(s)
  <2>1. /\ pc' = [pc EXCEPT ![s] = "unwind"]
           \/ (req[s].type # "other" /\ pc' = [pc EXCEPT ![s] = Branch(s)])
        /\ port' = [port EXCEPT ![s] = IF req[s].type # "tcp" THEN port[s]
                                       ELSE IF req[s].port = 0 THEN PortStart ELSE req[s].port]
        /\ pc[s] = "rate" /\ UNCHANGED <<req, tid, id, held>>
    BY <1>9 DEF AllowRate
  <2>2. req[s].type \in {"tcp", "http", "other"}
    BY DEF Request
  <2>3. \/ Branch(s) = "name" /\ IsHTTP(s)
        \/ Branch(s) = "portCheck" /\ req[s].type = "tcp" /\ req[s].port # 0 /\ tid[s] > 0
        \/ Branch(s) = "listen" /\ ~IsHTTP(s)
    BY DEF Branch
  <2>. QED
    BY <2>1, <2>2, <2>3
<1>10. CASE CheckPort(s)
  BY <1>10 DEF CheckPort
<1>11. CASE ReservePort(s)
  BY <1>11 DEF ReservePort
<1>12. CASE RecheckPort(s)
  BY <1>12 DEF RecheckPort
<1>13. CASE AllocateID(s)
  BY <1>13 DEF AllocateID
<1>14. CASE CheckSubdomain(s)
  BY <1>14 DEF CheckSubdomain
<1>15. CASE ReserveName(s)
  BY <1>15 DEF ReserveName
<1>16. CASE RecheckName(s)
  BY <1>16 DEF RecheckName
<1>17. CASE Respond(s)
  BY <1>17 DEF Respond
<1>18. CASE WaitHTTP(s)
  BY <1>18 DEF WaitHTTP
<1>19. CASE AcceptClosed(s)
  BY <1>19 DEF AcceptClosed
<1>20. CASE releaseTunnel(s)
  BY <1>20 DEF releaseTunnel
<1>21. CASE ReleaseSlot(s)
  BY <1>21 DEF ReleaseSlot
<1>22. CASE CloseSession(s)
  BY <1>22 DEF CloseSession
<1>23. CASE CloseConn(s)
  BY <1>23 DEF CloseConn
<1>. QED
  BY <1>1, <1>2, <1>3, <1>4, <1>5, <1>6, <1>7, <1>8, <1>9, <1>10, <1>11, <1>12,
     <1>13, <1>14, <1>15, <1>16, <1>17, <1>18, <1>19, <1>20, <1>21, <1>22, <1>23 DEF Quiet

LEMMA ShapeStep == TypeOK /\ Shape /\ [Next]_vars => Shape'
<1>. SUFFICES ASSUME TypeOK, Shape, [Next]_vars PROVE Shape'
  OBVIOUS
<1>. USE DEF TypeOK, Shape, HandlerShape, NameSteps, PortSteps
<1>1. ASSUME NEW s \in Sessions, Quiet(s) PROVE Shape'
  BY <1>1, QuietShape
<1>2. ASSUME NEW s \in Sessions, Taking(s) PROVE Shape'
  <2>1. CASE Register(s)
    BY <2>1 DEF Register, RegisterHTTPTunnel
  <2>2. CASE ListenRequested(s)
    BY <2>2 DEF ListenRequested, Listen
  <2>3. CASE ListenScan(s)
    BY <2>3 DEF ListenScan, Listen
  <2>. QED
    BY <1>2, <2>1, <2>2, <2>3 DEF Taking
<1>3. ASSUME NEW s \in Sessions, Giving(s) PROVE Shape'
  <2>1. CASE UnregisterHTTPTunnel(s)
    BY <2>1 DEF UnregisterHTTPTunnel
  <2>2. CASE CloseListener(s)
    BY <2>2 DEF CloseListener
  <2>3. CASE WatchTCP(s)
    BY <2>3 DEF WatchTCP
  <2>. QED
    BY <1>3, <2>1, <2>2, <2>3 DEF Giving
<1>4. CASE Operator
  BY <1>4 DEF Operator
<1>5. CASE Restart
  BY <1>5 DEF Restart, NoRequest
<1>6. CASE UNCHANGED vars
  BY <1>6 DEF vars
<1>. QED
  BY <1>1, <1>2, <1>3, <1>4, <1>5, <1>6, NextCases

----------------------------------------------------------------------------
(* Who holds what.                                                          *)

(* What a session that holds a name or port keeps through a step.           *)
Keeps(r) ==
    /\ "name" \in held'[r] <=> "name" \in held[r]
    /\ "name" \in held[r] => /\ req'[r] = req[r] /\ tid'[r] = tid[r]
                             /\ id'[r] = id[r] /\ port'[r] = port[r]
                             /\ up'[r] => up[r]

(* Quiet steps leave the registry, the listeners and their holders alone.   *)
LEMMA QuietKeeps ==
    ASSUME TypeOK, Shape, NEW s \in Sessions, Quiet(s)
    PROVE  UNCHANGED <<registry, listener>> /\ \A r \in Sessions : Keeps(r)
<1>. USE DEF TypeOK, Shape, HandlerShape, NameSteps, PortSteps, Keeps
<1>1. CASE AcceptConn(s)
  BY <1>1 DEF AcceptConn
<1>2. CASE RecvRequest(s)
  BY <1>2 DEF RecvRequest
<1>3. CASE Disconnect(s)
  BY <1>3 DEF Disconnect
<1>4. CASE AcceptError(s)
  BY <1>4 DEF AcceptError
<1>5. CASE AcceptStreamFails(s)
  BY <1>5 DEF AcceptStreamFails
<1>6. CASE Validate(s)
  BY <1>6 DEF Validate
<1>7. CASE Resolve(s)
  BY <1>7 DEF Resolve
<1>8. CASE TryAcquire(s)
  BY <1>8 DEF TryAcquire
<1>9. CASE AllowRate(s)
  BY <1>9 DEF AllowRate
<1>10. CASE CheckPort(s)
  BY <1>10 DEF CheckPort
<1>11. CASE ReservePort(s)
  BY <1>11 DEF ReservePort
<1>12. CASE RecheckPort(s)
  BY <1>12 DEF RecheckPort
<1>13. CASE AllocateID(s)
  BY <1>13 DEF AllocateID
<1>14. CASE CheckSubdomain(s)
  BY <1>14 DEF CheckSubdomain
<1>15. CASE ReserveName(s)
  BY <1>15 DEF ReserveName
<1>16. CASE RecheckName(s)
  BY <1>16 DEF RecheckName
<1>17. CASE Respond(s)
  BY <1>17 DEF Respond
<1>18. CASE WaitHTTP(s)
  BY <1>18 DEF WaitHTTP
<1>19. CASE AcceptClosed(s)
  BY <1>19 DEF AcceptClosed
<1>20. CASE releaseTunnel(s)
  BY <1>20 DEF releaseTunnel
<1>21. CASE ReleaseSlot(s)
  BY <1>21 DEF ReleaseSlot
<1>22. CASE CloseSession(s)
  BY <1>22 DEF CloseSession
<1>23. CASE CloseConn(s)
  BY <1>23 DEF CloseConn
<1>. QED
  BY <1>1, <1>2, <1>3, <1>4, <1>5, <1>6, <1>7, <1>8, <1>9, <1>10, <1>11, <1>12,
     <1>13, <1>14, <1>15, <1>16, <1>17, <1>18, <1>19, <1>20, <1>21, <1>22, <1>23 DEF Quiet

Owned == RegistryOwned /\ ListenerOwned

(* The port a handler listens on is one of the server's ports.              *)
LEMMA InRangeIsPort == ASSUME NEW p \in Nat \ {0}, InRange(p) PROVE p \in Ports
  BY ControlAssumption DEF InRange

(* Binding port[s], which was free, makes s its holder.                     *)
LEMMA ListenOwned ==
    ASSUME TypeOK, Shape, Owned, NEW s \in Sessions, pc[s] = "listen", port[s] \in Ports,
           Listen(s, port[s]), UNCHANGED <<req, id, up, registry>>
    PROVE  Owned'
<1>. USE DEF TypeOK, Shape, HandlerShape, PortSteps, Owned, Listen
<1>1. ~IsHTTP(s) /\ "name" \notin held[s]
  OBVIOUS
<1>2. RegistryOwned'
  BY <1>1 DEF RegistryOwned
<1>3. ListenerOwned'
  BY <1>1, ControlAssumption DEF ListenerOwned
<1>. QED
  BY <1>2, <1>3

LEMMA OwnedStep == TypeOK /\ Shape /\ Owned /\ [Next]_vars => Owned'
<1>. SUFFICES ASSUME TypeOK, Shape, Owned, [Next]_vars PROVE Owned'
  OBVIOUS
<1>. USE DEF Owned
<1>1. ASSUME NEW s \in Sessions, Quiet(s) PROVE Owned'
  <2>1. UNCHANGED <<registry, listener>> /\ \A r \in Sessions : Keeps(r)
    BY <1>1, QuietKeeps
  <2>2. RegistryOwned'
    BY <2>1 DEF RegistryOwned, Keeps
  <2>3. ListenerOwned'
    BY <2>1 DEF ListenerOwned, Keeps
  <2>. QED
    BY <2>2, <2>3
<1>2. ASSUME NEW s \in Sessions, Register(s) PROVE Owned'
  <2>. USE DEF TypeOK, Shape, HandlerShape, NameSteps
  <2>1. IsHTTP(s) /\ "name" \notin held[s] /\ id[s] \in Names
    BY <1>2 DEF Register, RegisterHTTPTunnel
  <2>2. RegistryOwned'
    BY <1>2, <2>1, ControlAssumption DEF Register, RegisterHTTPTunnel, RegistryOwned
  <2>3. ListenerOwned'
    BY <1>2, <2>1 DEF Register, RegisterHTTPTunnel, ListenerOwned
  <2>. QED
    BY <2>2, <2>3
<1>3. ASSUME NEW s \in Sessions, ListenRequested(s) PROVE Owned'
  <2>. USE <1>3 DEF ListenRequested
  <2>1. pc[s] = "listen" /\ port[s] = req[s].port /\ port[s] \in Nat \ {0}
    BY DEF TypeOK, Shape, HandlerShape, PortSteps
  <2>2. CASE InRange(port[s]) /\ Listen(s, port[s])
    BY <2>1, <2>2, InRangeIsPort, ListenOwned
  <2>3. CASE UNCHANGED <<listener, port, held>>
    BY <2>3 DEF RegistryOwned, ListenerOwned
  <2>. QED
    BY <2>2, <2>3
<1>4. ASSUME NEW s \in Sessions, ListenScan(s) PROVE Owned'
  <2>. USE <1>4 DEF ListenScan
  <2>1. CASE PortStart > 0 /\ InRange(port[s]) /\ Listen(s, port[s])
    <3>1. port[s] \in Nat \ {0}
      BY <2>1, ControlAssumption DEF TypeOK, InRange
    <3>. QED
      BY <2>1, <3>1, InRangeIsPort, ListenOwned
  <2>2. CASE port' = [port EXCEPT ![s] = @ + 1] /\ UNCHANGED <<pc, listener, held>>
    <3>1. "name" \notin held[s]
      BY DEF Shape, HandlerShape
    <3>. QED
      BY <2>2, <3>1 DEF RegistryOwned, ListenerOwned, TypeOK
  <2>3. CASE UNCHANGED <<listener, port, held>>
    BY <2>3 DEF RegistryOwned, ListenerOwned
  <2>. QED
    BY <2>1, <2>2, <2>3
<1>5. ASSUME NEW s \in Sessions, UnregisterHTTPTunnel(s) PROVE Owned'
  <2>1. RegistryOwned'
    BY <1>5, ControlAssumption DEF UnregisterHTTPTunnel, RegistryOwned, TypeOK
  <2>2. ListenerOwned'
    BY <1>5 DEF UnregisterHTTPTunnel, ListenerOwned, TypeOK
  <2>. QED
    BY <2>1, <2>2
<1>6. ASSUME NEW s \in Sessions, CloseListener(s) PROVE Owned'
  <2>1. RegistryOwned'
    BY <1>6 DEF CloseListener, RegistryOwned, TypeOK
  <2>2. ListenerOwned'
    BY <1>6, ControlAssumption DEF CloseListener, ListenerOwned, TypeOK
  <2>. QED
    BY <2>1, <2>2
<1>7. ASSUME NEW s \in Sessions, WatchTCP(s) PROVE Owned'
  <2>1. RegistryOwned'
    BY <1>7 DEF WatchTCP, RegistryOwned, TypeOK
  <2>2. ListenerOwned'
    BY <1>7, ControlAssumption DEF WatchTCP, ListenerOwned, TypeOK
  <2>. QED
    BY <2>1, <2>2
<1>8. CASE Operator
  BY <1>8 DEF Operator, RegistryOwned, ListenerOwned
<1>9. CASE Restart
  BY <1>9, ControlAssumption DEF Restart, RegistryOwned, ListenerOwned
<1>10. CASE UNCHANGED vars
  BY <1>10 DEF vars, RegistryOwned, ListenerOwned
<1>. QED
  BY <1>1, <1>2, <1>3, <1>4, <1>5, <1>6, <1>7, <1>8, <1>9, <1>10, NextCases DEF Taking, Giving

----------------------------------------------------------------------------
(* Reservations.                                                            *)

LEMMA QuietReserved ==
    ASSUME TypeOK, Shape, ClaimsAreReserved, NEW s \in Sessions, Quiet(s)
    PROVE  ClaimsAreReserved'
<1>. USE DEF TypeOK, StoreTypeOK, Shape, HandlerShape, NameSteps, PortSteps,
             ClaimsAreReserved, ClaimsName, ClaimsPort
<1>1. CASE AcceptConn(s)
  BY <1>1 DEF AcceptConn
<1>2. CASE RecvRequest(s)
  BY <1>2 DEF RecvRequest
<1>3. CASE Disconnect(s)
  BY <1>3 DEF Disconnect
<1>4. CASE AcceptError(s)
  BY <1>4 DEF AcceptError
<1>5. CASE AcceptStreamFails(s)
  BY <1>5 DEF AcceptStreamFails
<1>6. CASE Validate(s)
  BY <1>6 DEF Validate
<1>7. CASE Resolve(s)
  BY <1>7 DEF Resolve
<1>8. CASE TryAcquire(s)
  BY <1>8 DEF TryAcquire
<1>9. CASE AllowRate(s)
  <2>1. /\ \/ pc' = [pc EXCEPT ![s] = "unwind"]
           \/ pc' = [pc EXCEPT ![s] = Branch(s)] /\ req[s].type # "other"
        /\ pc[s] = "rate" /\ UNCHANGED <<req, tid, id, held, lost, subOwner, portOwner>>
        /\ \A r \in Sessions : r # s => port'[r] = port[r]
    BY <1>9 DEF AllowRate
  <2>2. \/ Branch(s) \in {"name", "portCheck"}
        \/ Branch(s) = "listen" /\ (req[s].type = "other" \/ req[s].port = 0 \/ tid[s] = 0)
    <3>1. req[s].type \in {"tcp", "http", "other"} /\ tid[s] \in Nat
      BY DEF Request
    <3>. QED
      BY <3>1 DEF Branch
  <2>3. "name" \notin held[s] /\ "name" \notin held'[s]
    BY <2>1
  <2>. QED
    BY <2>1, <2>2, <2>3
<1>10. CASE CheckPort(s)
  BY <1>10 DEF CheckPort, ReservedTCPPortTokenID
<1>11. CASE ReservePort(s)
  <2>1. req[s].port \in Ports /\ "name" \notin held[s] /\ UNCHANGED <<req, tid, id, port, held,
                                                                      lost>>
    BY <1>11 DEF ReservePort, Request
  <2>2. CASE ReserveTCPPort(tid[s], req[s].port) /\ pc' = [pc EXCEPT ![s] = "listen"]
    <3>1. portOwner[req[s].port] = 0 /\ UNCHANGED subOwner
      BY <2>2 DEF ReserveTCPPort, CanReserveTCPPort
    <3>2. \A x \in Ports : portOwner'[x] = IF x = req[s].port THEN tid[s] ELSE portOwner[x]
      BY <2>1, <2>2 DEF ReserveTCPPort
    <3>. QED
      BY <1>11, <2>1, <2>2, <3>1, <3>2 DEF ReservePort, Request
  <2>3. CASE pc' = [pc EXCEPT ![s] = "portRecheck"] /\ UNCHANGED storeVars
    BY <1>11, <2>1, <2>3 DEF ReservePort
  <2>. QED
    BY <1>11, <2>2, <2>3 DEF ReservePort
<1>12. CASE RecheckPort(s)
  BY <1>12 DEF RecheckPort, ReservedTCPPortTokenID
<1>13. CASE AllocateID(s)
  BY <1>13 DEF AllocateID
<1>14. CASE CheckSubdomain(s)
  BY <1>14 DEF CheckSubdomain, ReservedSubdomainTokenID
<1>15. CASE ReserveName(s)
  <2>1. id[s] \in Names /\ "name" \notin held[s] /\ UNCHANGED <<req, tid, id, port, held, lost>>
    BY <1>15 DEF ReserveName
  <2>2. CASE ReserveSubdomain(tid[s], id[s]) /\ pc' = [pc EXCEPT ![s] = "register"]
    <3>1. subOwner[id[s]] = 0 /\ UNCHANGED portOwner
      BY <2>2 DEF ReserveSubdomain, CanReserveSubdomain
    <3>2. \A x \in Names : subOwner'[x] = IF x = id[s] THEN tid[s] ELSE subOwner[x]
      BY <2>1, <2>2 DEF ReserveSubdomain
    <3>. QED
      BY <1>15, <2>1, <2>2, <3>1, <3>2 DEF ReserveName, Request
  <2>3. CASE pc' = [pc EXCEPT ![s] = "nameRecheck"] /\ UNCHANGED storeVars
    BY <1>15, <2>1, <2>3 DEF ReserveName
  <2>. QED
    BY <1>15, <2>2, <2>3 DEF ReserveName
<1>16. CASE RecheckName(s)
  BY <1>16 DEF RecheckName, ReservedSubdomainTokenID
<1>17. CASE Respond(s)
  BY <1>17 DEF Respond
<1>18. CASE WaitHTTP(s)
  BY <1>18 DEF WaitHTTP
<1>19. CASE AcceptClosed(s)
  BY <1>19 DEF AcceptClosed
<1>20. CASE releaseTunnel(s)
  BY <1>20 DEF releaseTunnel
<1>21. CASE ReleaseSlot(s)
  BY <1>21 DEF ReleaseSlot
<1>22. CASE CloseSession(s)
  BY <1>22 DEF CloseSession
<1>23. CASE CloseConn(s)
  BY <1>23 DEF CloseConn
<1>. QED
  BY <1>1, <1>2, <1>3, <1>4, <1>5, <1>6, <1>7, <1>8, <1>9, <1>10, <1>11, <1>12,
     <1>13, <1>14, <1>15, <1>16, <1>17, <1>18, <1>19, <1>20, <1>21, <1>22, <1>23 DEF Quiet

(* Reservations added or removed by the operator: an added one was free,    *)
(* and nobody's claim rests on a free name; a removed one is recorded in    *)
(* lost.                                                                    *)
LEMMA OperatorReserved ==
    ASSUME TypeOK, Shape, ClaimsAreReserved, Operator
    PROVE  ClaimsAreReserved'
<1>. USE DEF TypeOK, StoreTypeOK, Shape, HandlerShape, NameSteps, PortSteps,
             ClaimsAreReserved, ClaimsName, ClaimsPort
<1>1. UNCHANGED <<pc, req, tid, id, port, held>>
  BY DEF Operator
<1>2. CASE UNCHANGED <<subOwner, portOwner, lost>>
  BY <1>1, <1>2
<1>3. ASSUME NEW t \in Nat, NEW n \in Names, ReserveSubdomain(t, n), UNCHANGED lost
      PROVE  ClaimsAreReserved'
  <2>1. subOwner[n] = 0 /\ UNCHANGED portOwner
    BY <1>3 DEF ReserveSubdomain, CanReserveSubdomain
  <2>2. \A m \in Names : m # n => subOwner'[m] = subOwner[m]
    BY <1>3 DEF ReserveSubdomain
  <2>. QED
    BY <1>1, <1>3, <2>1, <2>2
<1>4. ASSUME NEW t \in Nat, NEW p \in Ports, ReserveTCPPort(t, p), UNCHANGED lost
      PROVE  ClaimsAreReserved'
  <2>1. portOwner[p] = 0 /\ UNCHANGED subOwner
    BY <1>4 DEF ReserveTCPPort, CanReserveTCPPort
  <2>2. \A q \in Ports : q # p => portOwner'[q] = portOwner[q]
    BY <1>4 DEF ReserveTCPPort
  <2>. QED
    BY <1>1, <1>4, <2>1, <2>2 DEF Request
<1>5. ASSUME NEW n \in Names, RemoveSubdomain(n) PROVE ClaimsAreReserved'
  <2>1. \A m \in Names : m # n => subOwner'[m] = subOwner[m]
    BY <1>5 DEF RemoveSubdomain, UnreserveSubdomain
  <2>2. UNCHANGED portOwner
    BY <1>5 DEF RemoveSubdomain, UnreserveSubdomain
  <2>3. \A s \in Sessions : ~lost'[s] => ~lost[s] /\ ~(ClaimsName(s) /\ id[s] = n)
    BY <1>5 DEF RemoveSubdomain
  <2>. QED
    BY <1>1, <2>1, <2>2, <2>3
<1>6. ASSUME NEW p \in Ports, RemovePort(p) PROVE ClaimsAreReserved'
  <2>1. \A q \in Ports : q # p => portOwner'[q] = portOwner[q]
    BY <1>6 DEF RemovePort, UnreserveTCPPort
  <2>2. UNCHANGED subOwner
    BY <1>6 DEF RemovePort, UnreserveTCPPort
  <2>3. \A s \in Sessions : ~lost'[s] => ~lost[s] /\ ~(ClaimsPort(s) /\ port[s] = p)
    BY <1>6 DEF RemovePort
  <2>. QED
    BY <1>1, <2>1, <2>2, <2>3 DEF Request
<1>. QED
  BY <1>2, <1>3, <1>4, <1>5, <1>6 DEF Operator, CreateToken, insertToken, RevokeToken

LEMMA ReservedStep == TypeOK /\ Shape /\ ClaimsAreReserved /\ [Next]_vars => ClaimsAreReserved'
<1>. SUFFICES ASSUME TypeOK, Shape, ClaimsAreReserved, [Next]_vars PROVE ClaimsAreReserved'
  OBVIOUS
<1>1. ASSUME NEW s \in Sessions, Quiet(s) PROVE ClaimsAreReserved'
  BY <1>1, QuietReserved
<1>2. ASSUME NEW s \in Sessions, Taking(s) \/ Giving(s) PROVE ClaimsAreReserved'
  <2>. USE DEF TypeOK, Shape, HandlerShape, NameSteps, PortSteps,
               ClaimsAreReserved, ClaimsName, ClaimsPort
  <2>1. CASE Register(s)
    BY <2>1 DEF Register, RegisterHTTPTunnel
  <2>2. CASE ListenRequested(s)
    BY <2>2 DEF ListenRequested, Listen
  <2>3. CASE ListenScan(s)
    BY <2>3 DEF ListenScan, Listen
  <2>4. CASE UnregisterHTTPTunnel(s)
    BY <2>4 DEF UnregisterHTTPTunnel
  <2>5. CASE CloseListener(s)
    BY <2>5 DEF CloseListener
  <2>6. CASE WatchTCP(s)
    BY <2>6 DEF WatchTCP
  <2>. QED
    BY <1>2, <2>1, <2>2, <2>3, <2>4, <2>5, <2>6 DEF Taking, Giving
<1>3. CASE Operator
  BY <1>3, OperatorReserved
<1>4. CASE Restart
  BY <1>4 DEF Restart, ClaimsAreReserved, ClaimsName, ClaimsPort
<1>5. CASE UNCHANGED vars
  BY <1>5 DEF vars, ClaimsAreReserved, ClaimsName, ClaimsPort
<1>. QED
  BY <1>1, <1>2, <1>3, <1>4, <1>5, NextCases

----------------------------------------------------------------------------
(* The inductive invariant, and what it gives.                              *)
ControlInv == TypeOK /\ Shape /\ Owned /\ ClaimsAreReserved

LEMMA ControlInvHolds == Spec => []ControlInv
<1>1. Init => ControlInv
  <2>. SUFFICES ASSUME Init PROVE ControlInv
    OBVIOUS
  <2>1. TypeOK
    BY NoRequestIsRequest DEF Init, StoreInit, TypeOK, StoreTypeOK, Steps, Gauges
  <2>2. Shape
    BY DEF Init, Shape, HandlerShape, NameSteps, PortSteps
  <2>3. Owned
    BY ControlAssumption DEF Init, Owned, RegistryOwned, ListenerOwned
  <2>4. ClaimsAreReserved
    BY DEF Init, ClaimsAreReserved, ClaimsName, ClaimsPort
  <2>. QED
    BY <2>1, <2>2, <2>3, <2>4 DEF ControlInv
<1>2. ControlInv /\ [Next]_vars => ControlInv'
  BY TypesStep, ShapeStep, OwnedStep, ReservedStep DEF ControlInv
<1>. QED
  BY <1>1, <1>2, PTL DEF Spec

(* What the handlers and the operator do to the store are statements of the *)
(* store: the promises of StoreSpec hold of it under the control plane.     *)
LEMMA StoreStep ==
    ASSUME ControlInv, StoreInv, [Next]_vars PROVE [StoreNext]_storeVars
<1>1. ASSUME NEW s \in Sessions, ReserveName(s) PROVE [StoreNext]_storeVars
  <2>1. CASE ReserveSubdomain(tid[s], id[s])
    <3>1. id[s] \in Names
      BY <1>1 DEF ControlInv, Shape, HandlerShape, NameSteps, ReserveName
    <3>2. tid[s] \in 0..nextID
      BY <2>1 DEF ReserveSubdomain, CanReserveSubdomain, RowExists, StoreInv, StoreTypeOK,
         IdsNameOneSecret
    <3>. QED
      BY <2>1, <3>1, <3>2 DEF StoreNext, ReserveCommands
  <2>. QED
    BY <1>1, <2>1 DEF ReserveName
<1>2. ASSUME NEW s \in Sessions, ReservePort(s) PROVE [StoreNext]_storeVars
  <2>1. CASE ReserveTCPPort(tid[s], req[s].port)
    <3>1. req[s].port \in Ports
      BY <1>2 DEF ControlInv, Shape, HandlerShape, PortSteps, ReservePort, TypeOK, Request
    <3>2. tid[s] \in 0..nextID
      BY <2>1 DEF ReserveTCPPort, CanReserveTCPPort, RowExists, StoreInv, StoreTypeOK,
         IdsNameOneSecret
    <3>. QED
      BY <2>1, <3>1, <3>2 DEF StoreNext, TCPReserveCommands
  <2>. QED
    BY <1>2, <2>1 DEF ReservePort
<1>3. ASSUME NEW s \in Sessions, Quiet(s) \/ Taking(s) \/ Giving(s), ~ReserveName(s), ~ReservePort(s)
      PROVE  UNCHANGED storeVars
  BY <1>3 DEF Quiet, Taking, Giving, AcceptConn, RecvRequest, Disconnect, AcceptError,
     AcceptStreamFails,
     Validate, Resolve, TryAcquire, AllowRate, CheckPort, RecheckPort, AllocateID, CheckSubdomain, RecheckName,
     Respond, WaitHTTP, AcceptClosed, releaseTunnel, ReleaseSlot, CloseSession, CloseConn,
     Register, ListenRequested, ListenScan, UnregisterHTTPTunnel, CloseListener, WatchTCP
<1>4. CASE Operator
  BY <1>4 DEF Operator, RemoveSubdomain, RemovePort, StoreNext, TokenCommands, ReserveCommands,
     TCPReserveCommands
<1>5. CASE Restart
  BY <1>5, ControlAssumption DEF Restart, StoreNext
<1>6. CASE UNCHANGED vars
  BY <1>6 DEF vars
<1>. QED
  BY <1>1, <1>2, <1>3, <1>4, <1>5, <1>6, NextCases

LEMMA StoreStays == Spec => [](ControlInv /\ StoreInv)
<1>1. Init => StoreInv
  BY DEF Init, StoreInit, StoreInv, StoreTypeOK, IdsNameOneSecret, ReservationsHaveOwner
<1>2. ControlInv /\ StoreInv /\ [Next]_vars => StoreInv'
  BY StoreStep, StoreInvStep
<1>. QED
  BY <1>1, <1>2, ControlInvHolds, PTL DEF Spec

(* The control plane and its operator use the store as StoreSpec says, so   *)
(* that whatever was proved of the store holds of the server: ids and       *)
(* revocations are final, reservations have one owner at a time.            *)
THEOREM StoreIsKept ==
    Spec => []IdsNameOneSecret /\ RevocationIsPermanent /\ ReservationsAreNotStolen
<1>1. Init => StoreInit
  BY DEF Init
<1>2. ControlInv /\ StoreInv /\ [Next]_vars => [StoreNext]_storeVars
  BY StoreStep
<1>3. Spec => StoreSpec
  BY <1>1, <1>2, StoreStays, PTL DEF Spec, StoreSpec
<1>. QED
  BY <1>3, TokenIdsAreUnique, RevokedStaysRevoked, ReservationsNeverStolen, PTL

(* The registry entry of an id is the session that registered it and has    *)
(* not unregistered it yet, for any number of racing handlers: two tunnels  *)
(* never have the same id, no delete hits the entry of another session, and *)
(* none is left behind (registry.go, handleHTTPControl).                    *)
THEOREM RegistryEntriesAreOwned == Spec => []RegistryOwned
  BY ControlInvHolds, PTL DEF ControlInv, Owned

(* A bound port belongs to the handler that bound it, although the watcher  *)
(* and the handler both close the listener (handleTCPControl).              *)
THEOREM ListenersAreOwned == Spec => []ListenerOwned
  BY ControlInvHolds, PTL DEF ControlInv, Owned

(* No handler gets through the check, insert and re-check of a reservation  *)
(* on a name or port that is reserved for another token, whatever other     *)
(* handlers and the operator do in between (controlHandler,                 *)
(* handleHTTPControl).                                                      *)
THEOREM ClaimsHaveReservations == Spec => []ClaimsAreReserved
  BY ControlInvHolds, PTL DEF ControlInv

----------------------------------------------------------------------------
(* What the control plane counts: the slots of a token and the gauges, for  *)
(* any number of sessions, tokens and requests and any limit; and, as the   *)
(* quota of a lease rests on the slots, that the control plane implements   *)
(* TunnelLeases.                                                            *)

Before == {"idle", "accept", "validate", "resolve", "acquire"}

(* Where a handler is when it holds what is counted.  From the moment it    *)
(* may go on after TryAcquire until it has given back its name, a handler   *)
(* whose token is capped holds a slot.                                      *)
LimitShape(s) ==
    /\ "slot" \in held[s] => Capped(s) /\ pc[s] \notin Before
    /\ "gauge" \in held[s] => pc[s] \in {"active", "unwind"}
    /\ pc[s] \notin Before \cup {"unwind"} \/ "name" \in held[s] => (Capped(s) => "slot" \in held[s])
LimitShapes == \A s \in Sessions : LimitShape(s)

(* A step leaves alone what is counted of r: its connection, its slot, its  *)
(* tunnel.                                                                  *)
SameConn(r) == "conn" \in held'[r] <=> "conn" \in held[r]
SameSlot(r) ==
    /\ "slot" \in held'[r] <=> "slot" \in held[r]
    /\ "slot" \in held[r] => tid'[r] = tid[r]
SameGauge(r) ==
    /\ "gauge" \in held'[r] <=> "gauge" \in held[r]
    /\ "gauge" \in held[r] => req'[r] = req[r]
Same(r) == SameConn(r) /\ SameSlot(r) /\ SameGauge(r)

Neutral(s) ==
    \/ RecvRequest(s) \/ AcceptStreamFails(s) \/ Validate(s) \/ Resolve(s) \/ AllowRate(s)
    \/ CheckPort(s) \/ ReservePort(s) \/ RecheckPort(s) \/ ListenRequested(s) \/ ListenScan(s)
    \/ AllocateID(s) \/ CheckSubdomain(s) \/ ReserveName(s) \/ RecheckName(s) \/ Register(s)
    \/ WaitHTTP(s) \/ AcceptClosed(s) \/ UnregisterHTTPTunnel(s) \/ CloseListener(s)
    \/ CloseSession(s) \/ Disconnect(s) \/ WatchTCP(s) \/ AcceptError(s)
Counting(s) ==
    \/ AcceptConn(s) \/ CloseConn(s) \/ TryAcquire(s) \/ ReleaseSlot(s) \/ Respond(s) \/ releaseTunnel(s)

LEMMA LimitCases ==
    Next <=> (\E s \in Sessions : Neutral(s) \/ Counting(s)) \/ Operator \/ Restart
  BY DEF Next, Handler, Unwind, Neutral, Counting

NeutralGoal == LimitShapes' /\ UNCHANGED <<active, gauge>> /\ \A r \in Sessions : Same(r)

LEMMA NeutralStep ==
    ASSUME TypeOK, Shape, LimitShapes, NEW s \in Sessions, Neutral(s) PROVE NeutralGoal
<1>. USE DEF TypeOK, Shape, HandlerShape, NameSteps, PortSteps, LimitShapes, LimitShape,
             Same, SameConn, SameSlot, SameGauge, NeutralGoal, Capped, Before
<1>1. CASE RecvRequest(s)
  BY <1>1 DEF RecvRequest
<1>2. CASE AcceptStreamFails(s)
  BY <1>2 DEF AcceptStreamFails
<1>3. CASE Validate(s)
  BY <1>3 DEF Validate
<1>4. CASE Resolve(s)
  BY <1>4 DEF Resolve
<1>5. CASE AllowRate(s)
  <2>1. Branch(s) \in {"name", "portCheck", "listen"}
    BY DEF Branch
  <2>2. /\ pc[s] = "rate" /\ UNCHANGED <<active, gauge, held, tid, req>>
        /\ pc' = [pc EXCEPT ![s] = "unwind"] \/ pc' = [pc EXCEPT ![s] = Branch(s)]
    BY <1>5 DEF AllowRate
  <2>. QED
    BY <2>1, <2>2
<1>6. CASE CheckPort(s)
  BY <1>6 DEF CheckPort
<1>7. CASE ReservePort(s)
  BY <1>7 DEF ReservePort
<1>8. CASE RecheckPort(s)
  BY <1>8 DEF RecheckPort
<1>9. CASE ListenRequested(s)
  BY <1>9 DEF ListenRequested, Listen
<1>10. CASE ListenScan(s)
  BY <1>10 DEF ListenScan, Listen
<1>11. CASE AllocateID(s)
  BY <1>11 DEF AllocateID
<1>12. CASE CheckSubdomain(s)
  BY <1>12 DEF CheckSubdomain
<1>13. CASE ReserveName(s)
  BY <1>13 DEF ReserveName
<1>14. CASE RecheckName(s)
  BY <1>14 DEF RecheckName
<1>15. CASE Register(s)
  BY <1>15 DEF Register, RegisterHTTPTunnel
<1>16. CASE WaitHTTP(s)
  BY <1>16 DEF WaitHTTP
<1>17. CASE AcceptClosed(s)
  BY <1>17 DEF AcceptClosed
<1>18. CASE UnregisterHTTPTunnel(s)
  BY <1>18 DEF UnregisterHTTPTunnel
<1>19. CASE CloseListener(s)
  BY <1>19 DEF CloseListener
<1>20. CASE CloseSession(s)
  BY <1>20 DEF CloseSession
<1>21. CASE Disconnect(s)
  BY <1>21 DEF Disconnect
<1>22. CASE WatchTCP(s)
  BY <1>22 DEF WatchTCP
<1>23. CASE AcceptError(s)
  BY <1>23 DEF AcceptError
<1>. QED
  BY <1>1, <1>2, <1>3, <1>4, <1>5, <1>6, <1>7, <1>8, <1>9, <1>10, <1>11, <1>12, <1>13,
     <1>14, <1>15, <1>16, <1>17, <1>18, <1>19, <1>20, <1>21, <1>22, <1>23 DEF Neutral

LEMMA CountingShape ==
    ASSUME TypeOK, Shape, LimitShapes, NEW s \in Sessions, Counting(s) PROVE LimitShapes'
<1>. USE DEF TypeOK, Shape, HandlerShape, NameSteps, PortSteps, LimitShapes, LimitShape, Capped, Before
<1>1. CASE AcceptConn(s)
  BY <1>1 DEF AcceptConn
<1>2. CASE CloseConn(s)
  BY <1>2 DEF CloseConn
<1>3. CASE TryAcquire(s)
  BY <1>3 DEF TryAcquire
<1>4. CASE ReleaseSlot(s)
  BY <1>4 DEF ReleaseSlot
<1>5. CASE Respond(s)
  BY <1>5 DEF Respond
<1>6. CASE releaseTunnel(s)
  BY <1>6 DEF releaseTunnel
<1>. QED
  BY <1>1, <1>2, <1>3, <1>4, <1>5, <1>6 DEF Counting

LEMMA LimitShapeStep == TypeOK /\ Shape /\ LimitShapes /\ [Next]_vars => LimitShapes'
<1>. SUFFICES ASSUME TypeOK, Shape, LimitShapes, [Next]_vars PROVE LimitShapes'
  OBVIOUS
<1>1. ASSUME NEW s \in Sessions, Neutral(s) PROVE LimitShapes'
  BY <1>1, NeutralStep DEF NeutralGoal
<1>2. ASSUME NEW s \in Sessions, Counting(s) PROVE LimitShapes'
  BY <1>2, CountingShape
<1>3. CASE Operator
  BY <1>3 DEF Operator, LimitShapes, LimitShape, Capped
<1>4. CASE Restart
  BY <1>4 DEF Restart, LimitShapes, LimitShape, Capped, Before
<1>5. CASE UNCHANGED vars
  BY <1>5 DEF vars, LimitShapes, LimitShape, Capped
<1>. QED
  BY <1>1, <1>2, <1>3, <1>4, <1>5, LimitCases

----------------------------------------------------------------------------
(* The sets that are counted.                                               *)

ConnHolders == {s \in Sessions : "conn" \in held[s]}
HTTPTunnels == {s \in Sessions : "gauge" \in held[s] /\ IsHTTP(s)}
TCPTunnels == {s \in Sessions : "gauge" \in held[s] /\ ~IsHTTP(s)}

LEMMA ConnsKept ==
    ASSUME \A r \in Sessions : SameConn(r) PROVE ConnHolders' = ConnHolders
  BY DEF SameConn, ConnHolders
LEMMA SlotsKept ==
    ASSUME NEW t, \A r \in Sessions : SameSlot(r) PROVE SlotHolders(t)' = SlotHolders(t)
  BY DEF SameSlot, SlotHolders
LEMMA TunnelsKept ==
    ASSUME \A r \in Sessions : SameGauge(r)
    PROVE  HTTPTunnels' = HTTPTunnels /\ TCPTunnels' = TCPTunnels
  BY DEF SameGauge, HTTPTunnels, TCPTunnels

(* One session more or less in a set of sessions.                           *)
LEMMA OneMore ==
    ASSUME NEW A \in SUBSET Sessions, NEW B, NEW s \in Sessions \ A, B = A \cup {s}
    PROVE  Cardinality(A) \in Nat /\ Cardinality(B) = Cardinality(A) + 1
  BY FS_Subset, FS_AddElement, FS_CardinalityType, ControlAssumption
LEMMA OneLess ==
    ASSUME NEW A \in SUBSET Sessions, NEW B, NEW s \in A, B = A \ {s}
    PROVE  Cardinality(A) \in Nat /\ Cardinality(B) = Cardinality(A) - 1
  BY FS_Subset, FS_RemoveElement, FS_CardinalityType, ControlAssumption

(* What the counters say, and that a token has no more slots than allowed.  *)
Conns == gauge["conns"] = Cardinality(ConnHolders)
TunnelGauges ==
    /\ gauge["http"] = Cardinality(HTTPTunnels)
    /\ gauge["tcp"] = Cardinality(TCPTunnels)
Slots ==
    /\ SlotAccounting
    /\ \A t \in Nat : MaxTunnels > 0 => ActiveOf(t) <= MaxTunnels
Counts == Conns /\ TunnelGauges /\ Slots

LEMMA KeptCounts ==
    ASSUME UNCHANGED <<active, gauge>>, \A r \in Sessions : Same(r)
    PROVE  /\ Conns => Conns'
           /\ TunnelGauges => TunnelGauges'
           /\ Slots => Slots'
<1>1. ConnHolders' = ConnHolders
  BY ConnsKept DEF Same
<1>2. HTTPTunnels' = HTTPTunnels /\ TCPTunnels' = TCPTunnels
  BY TunnelsKept DEF Same
<1>3. \A t : SlotHolders(t)' = SlotHolders(t)
  BY SlotsKept DEF Same
<1>. QED
  BY <1>1, <1>2, <1>3 DEF Conns, TunnelGauges, Slots, SlotAccounting, ActiveOf

(* The parts of the counts that a counting step does not touch.             *)
LEMMA KeptConns ==
    ASSUME gauge'["conns"] = gauge["conns"], \A r \in Sessions : SameConn(r), Conns PROVE Conns'
  BY ConnsKept DEF Conns
LEMMA KeptTunnels ==
    ASSUME gauge'["http"] = gauge["http"], gauge'["tcp"] = gauge["tcp"],
           \A r \in Sessions : SameGauge(r), TunnelGauges
    PROVE  TunnelGauges'
  BY TunnelsKept DEF TunnelGauges
LEMMA KeptSlots ==
    ASSUME UNCHANGED active, \A r \in Sessions : SameSlot(r), Slots PROVE Slots'
<1>1. \A t : SlotHolders(t)' = SlotHolders(t)
  BY SlotsKept
<1>. QED
  BY <1>1 DEF Slots, SlotAccounting, ActiveOf

LEMMA ConnCounts ==
    ASSUME TypeOK, Shape, LimitShapes, Counts, NEW s \in Sessions, AcceptConn(s) \/ CloseConn(s)
    PROVE  Counts'
<1>. USE DEF TypeOK, Gauges
<1>1. \A r \in Sessions : SameSlot(r) /\ SameGauge(r)
  BY DEF AcceptConn, CloseConn, SameSlot, SameGauge, Shape, HandlerShape
<1>2. UNCHANGED active /\ gauge'["http"] = gauge["http"] /\ gauge'["tcp"] = gauge["tcp"]
  BY DEF AcceptConn, CloseConn
<1>3. Conns'
  <2>1. ConnHolders \in SUBSET Sessions /\ gauge["conns"] = Cardinality(ConnHolders)
    BY DEF ConnHolders, Counts, Conns
  <2>2. CASE AcceptConn(s)
    <3>1. s \notin ConnHolders /\ ConnHolders' = ConnHolders \cup {s}
      BY <2>2 DEF AcceptConn, ConnHolders, Shape, HandlerShape
    <3>2. gauge'["conns"] = gauge["conns"] + 1
      BY <2>2 DEF AcceptConn
    <3>. QED
      BY <2>1, <3>1, <3>2, OneMore DEF Conns
  <2>3. CASE CloseConn(s)
    <3>1. s \in ConnHolders /\ ConnHolders' = ConnHolders \ {s}
      BY <2>3 DEF CloseConn, ConnHolders
    <3>2. gauge'["conns"] = gauge["conns"] - 1
      BY <2>3 DEF CloseConn
    <3>. QED
      BY <2>1, <3>1, <3>2, OneLess DEF Conns
  <2>. QED
    BY <2>2, <2>3
<1>. QED
  BY <1>1, <1>2, <1>3, KeptSlots, KeptTunnels DEF Counts

LEMMA TunnelCounts ==
    ASSUME TypeOK, LimitShapes, Counts, NEW s \in Sessions, Respond(s) \/ releaseTunnel(s)
    PROVE  Counts'
<1>. USE DEF TypeOK, Gauges
<1>1. \A r \in Sessions : SameConn(r) /\ SameSlot(r)
  BY DEF Respond, releaseTunnel, SameConn, SameSlot
<1>2. UNCHANGED active /\ gauge'["conns"] = gauge["conns"]
  BY DEF Respond, releaseTunnel, TunnelGauge
<1>3. TunnelGauges'
  <2>1. /\ HTTPTunnels \in SUBSET Sessions /\ gauge["http"] = Cardinality(HTTPTunnels)
        /\ TCPTunnels \in SUBSET Sessions /\ gauge["tcp"] = Cardinality(TCPTunnels)
    BY DEF HTTPTunnels, TCPTunnels, Counts, TunnelGauges
  <2>2. CASE Respond(s)
    <3>1. /\ UNCHANGED req /\ held'[s] = held[s] \cup {"gauge"} \cup (held'[s] \cap {"watcher"})
          /\ \A r \in Sessions \ {s} : held'[r] = held[r]
      BY <2>2 DEF Respond
    <3>2. "gauge" \notin held[s]
      BY <2>2 DEF Respond, LimitShapes, LimitShape
    <3>3. CASE IsHTTP(s)
      <4>1. s \notin HTTPTunnels /\ HTTPTunnels' = HTTPTunnels \cup {s} /\ TCPTunnels' = TCPTunnels
        BY <3>1, <3>2, <3>3 DEF HTTPTunnels, TCPTunnels
      <4>2. gauge'["http"] = gauge["http"] + 1 /\ gauge'["tcp"] = gauge["tcp"]
        BY <2>2, <3>3 DEF Respond, TunnelGauge
      <4>. QED
        BY <2>1, <4>1, <4>2, OneMore DEF TunnelGauges
    <3>4. CASE ~IsHTTP(s)
      <4>1. s \notin TCPTunnels /\ TCPTunnels' = TCPTunnels \cup {s} /\ HTTPTunnels' = HTTPTunnels
        BY <3>1, <3>2, <3>4 DEF HTTPTunnels, TCPTunnels
      <4>2. gauge'["tcp"] = gauge["tcp"] + 1 /\ gauge'["http"] = gauge["http"]
        BY <2>2, <3>4 DEF Respond, TunnelGauge
      <4>. QED
        BY <2>1, <4>1, <4>2, OneMore DEF TunnelGauges
    <3>. QED
      BY <3>3, <3>4
  <2>3. CASE releaseTunnel(s)
    <3>1. /\ UNCHANGED req /\ "gauge" \in held[s] /\ held'[s] = held[s] \ {"gauge"}
          /\ \A r \in Sessions \ {s} : held'[r] = held[r]
      BY <2>3 DEF releaseTunnel
    <3>3. CASE IsHTTP(s)
      <4>1. s \in HTTPTunnels /\ HTTPTunnels' = HTTPTunnels \ {s} /\ TCPTunnels' = TCPTunnels
        BY <3>1, <3>3 DEF HTTPTunnels, TCPTunnels
      <4>2. gauge'["http"] = gauge["http"] - 1 /\ gauge'["tcp"] = gauge["tcp"]
        BY <2>3, <3>3 DEF releaseTunnel, TunnelGauge
      <4>. QED
        BY <2>1, <4>1, <4>2, OneLess DEF TunnelGauges
    <3>4. CASE ~IsHTTP(s)
      <4>1. s \in TCPTunnels /\ TCPTunnels' = TCPTunnels \ {s} /\ HTTPTunnels' = HTTPTunnels
        BY <3>1, <3>4 DEF HTTPTunnels, TCPTunnels
      <4>2. gauge'["tcp"] = gauge["tcp"] - 1 /\ gauge'["http"] = gauge["http"]
        BY <2>3, <3>4 DEF releaseTunnel, TunnelGauge
      <4>. QED
        BY <2>1, <4>1, <4>2, OneLess DEF TunnelGauges
    <3>. QED
      BY <3>3, <3>4
  <2>. QED
    BY <2>2, <2>3
<1>. QED
  BY <1>1, <1>2, <1>3, KeptSlots, KeptConns DEF Counts

LEMMA AcquireCounts ==
    ASSUME TypeOK, LimitShapes, Counts, NEW s \in Sessions, TryAcquire(s)
    PROVE  Counts'
<1>. USE DEF TypeOK
<1>1. UNCHANGED <<gauge, req, tid>> /\ \A r \in Sessions : SameConn(r) /\ SameGauge(r)
  BY DEF TryAcquire, SameConn, SameGauge
<1>2. CASE UNCHANGED <<active, held>>
  <2>1. \A r \in Sessions : SameSlot(r)
    BY <1>1, <1>2 DEF SameSlot
  <2>. QED
    BY <1>1, <1>2, <2>1, KeptConns, KeptTunnels, KeptSlots DEF Counts
<1>3. CASE ~UNCHANGED <<active, held>>
  <2>1. /\ Capped(s) /\ ActiveOf(tid[s]) < MaxTunnels /\ pc[s] = "acquire"
        /\ active' = [t \in DOMAIN active \cup {tid[s]} |->
                        IF t = tid[s] THEN ActiveOf(t) + 1 ELSE active[t]]
        /\ held' = [held EXCEPT ![s] = @ \cup {"slot"}]
    BY <1>3 DEF TryAcquire
  <2>2. tid[s] \in Nat \ {0} /\ ActiveOf(tid[s]) \in Nat
    BY <2>1 DEF Capped, ActiveOf
  <2>3. "slot" \notin held[s]
    BY <2>1 DEF LimitShapes, LimitShape, Before
  <2>4. \A t \in Nat : ActiveOf(t)' = IF t = tid[s] THEN ActiveOf(t) + 1 ELSE ActiveOf(t)
    BY <2>1, <2>2 DEF ActiveOf
  <2>5. \A t \in Nat \ {0} : ActiveOf(t)' = Cardinality(SlotHolders(t)')
    <3>. SUFFICES ASSUME NEW t \in Nat \ {0} PROVE ActiveOf(t)' = Cardinality(SlotHolders(t)')
      OBVIOUS
    <3>1. SlotHolders(t) \in SUBSET Sessions /\ ActiveOf(t) = Cardinality(SlotHolders(t))
      BY DEF SlotHolders, Counts, Slots, SlotAccounting
    <3>2. CASE t = tid[s]
      <4>1. s \notin SlotHolders(t) /\ SlotHolders(t)' = SlotHolders(t) \cup {s}
        BY <1>1, <2>1, <2>3, <3>2 DEF SlotHolders
      <4>. QED
        BY <2>4, <3>1, <3>2, <4>1, OneMore
    <3>3. CASE t # tid[s]
      <4>1. SlotHolders(t)' = SlotHolders(t)
        BY <1>1, <2>1, <3>3 DEF SlotHolders
      <4>. QED
        BY <2>4, <3>1, <3>3, <4>1
    <3>. QED
      BY <3>2, <3>3
  <2>6. \A t \in DOMAIN active' : t > 0 /\ active'[t] > 0
    BY <2>1, <2>2 DEF Counts, Slots, SlotAccounting
  <2>7. \A t \in Nat : MaxTunnels > 0 => ActiveOf(t)' <= MaxTunnels
    BY <2>1, <2>2, <2>4, ControlAssumption DEF Counts, Slots
  <2>8. Slots'
    BY <2>5, <2>6, <2>7 DEF Slots, SlotAccounting
  <2>. QED
    BY <1>1, <2>8, KeptConns, KeptTunnels DEF Counts
<1>. QED
  BY <1>2, <1>3

LEMMA ReleaseCounts ==
    ASSUME TypeOK, LimitShapes, Counts, NEW s \in Sessions, ReleaseSlot(s)
    PROVE  Counts'
<1>. USE DEF TypeOK
<1>1. UNCHANGED <<gauge, req, tid>> /\ \A r \in Sessions : SameConn(r) /\ SameGauge(r)
  BY DEF ReleaseSlot, SameConn, SameGauge
<1>2. /\ "slot" \in held[s] /\ held' = [held EXCEPT ![s] = @ \ {"slot"}]
      /\ active' = IF ActiveOf(tid[s]) <= 1
                   THEN [t \in DOMAIN active \ {tid[s]} |-> active[t]]
                   ELSE [active EXCEPT ![tid[s]] = @ - 1]
  BY DEF ReleaseSlot
<1>3. tid[s] \in Nat \ {0} /\ ActiveOf(tid[s]) \in Nat
  BY <1>2 DEF LimitShapes, LimitShape, Capped, ActiveOf
<1>4. \A t \in Nat \ {0} : SlotHolders(t) \in SUBSET Sessions /\ ActiveOf(t) = Cardinality(SlotHolders(t))
  BY DEF SlotHolders, Counts, Slots, SlotAccounting
<1>5. s \in SlotHolders(tid[s]) /\ SlotHolders(tid[s])' = SlotHolders(tid[s]) \ {s}
  BY <1>1, <1>2 DEF SlotHolders
<1>6. Cardinality(SlotHolders(tid[s])') = ActiveOf(tid[s]) - 1 /\ ActiveOf(tid[s]) > 0
  <2>1. Cardinality(SlotHolders(tid[s])') = ActiveOf(tid[s]) - 1
    BY <1>3, <1>4, <1>5, OneLess
  <2>2. Cardinality(SlotHolders(tid[s])') \in Nat
    BY <1>3, <1>4, <1>5, FS_Subset, FS_RemoveElement, FS_CardinalityType, ControlAssumption
  <2>. QED
    BY <1>3, <2>1, <2>2
<1>7. \A t \in Nat : ActiveOf(t)' = IF t = tid[s] THEN ActiveOf(t) - 1 ELSE ActiveOf(t)
  BY <1>2, <1>3, <1>6 DEF ActiveOf
<1>8. \A t \in Nat \ {0} : ActiveOf(t)' = Cardinality(SlotHolders(t)')
  <2>. SUFFICES ASSUME NEW t \in Nat \ {0} PROVE ActiveOf(t)' = Cardinality(SlotHolders(t)')
    OBVIOUS
  <2>1. CASE t = tid[s]
    <3>1. SlotHolders(t)' = SlotHolders(tid[s])'
      BY <1>1, <2>1 DEF SlotHolders
    <3>. QED
      BY <1>6, <1>7, <2>1, <3>1
  <2>2. CASE t # tid[s]
    <3>1. SlotHolders(t)' = SlotHolders(t)
      BY <1>1, <1>2, <2>2 DEF SlotHolders
    <3>. QED
      BY <1>4, <1>7, <2>2, <3>1
  <2>. QED
    BY <2>1, <2>2
<1>9. \A t \in DOMAIN active' : t > 0 /\ active'[t] > 0
  BY <1>2, <1>3, <1>6 DEF Counts, Slots, SlotAccounting, ActiveOf
<1>10. \A t \in Nat : MaxTunnels > 0 => ActiveOf(t)' <= MaxTunnels
  BY <1>3, <1>7, ControlAssumption DEF Counts, Slots, ActiveOf
<1>11. Slots'
  BY <1>8, <1>9, <1>10 DEF Slots, SlotAccounting
<1>. QED
  BY <1>1, <1>11, KeptConns, KeptTunnels DEF Counts

LEMMA CountsStep == TypeOK /\ Shape /\ LimitShapes /\ Counts /\ [Next]_vars => Counts'
<1>. SUFFICES ASSUME TypeOK, Shape, LimitShapes, Counts, [Next]_vars PROVE Counts'
  OBVIOUS
<1>1. ASSUME NEW s \in Sessions, Neutral(s) PROVE Counts'
  BY <1>1, NeutralStep, KeptCounts DEF NeutralGoal, Counts
<1>2. ASSUME NEW s \in Sessions, Counting(s) PROVE Counts'
  BY <1>2, ConnCounts, TunnelCounts, AcquireCounts, ReleaseCounts DEF Counting
<1>3. CASE Operator
  BY <1>3, KeptCounts DEF Operator, Same, SameConn, SameSlot, SameGauge, Counts
<1>4. CASE Restart
  <2>1. /\ ConnHolders' = {} /\ HTTPTunnels' = {} /\ TCPTunnels' = {}
        /\ \A t : SlotHolders(t)' = {}
    BY <1>4 DEF Restart, ConnHolders, HTTPTunnels, TCPTunnels, SlotHolders
  <2>2. DOMAIN active' = {} /\ \A t \in Nat : ActiveOf(t)' = 0
    BY <1>4 DEF Restart, ActiveOf
  <2>3. gauge' = [g \in Gauges |-> 0]
    BY <1>4 DEF Restart
  <2>4. Slots'
    <3>1. \A t \in Nat \ {0} : ActiveOf(t)' = Cardinality(SlotHolders(t)')
      BY <2>1, <2>2, FS_EmptySet
    <3>2. \A t \in Nat : MaxTunnels > 0 => ActiveOf(t)' <= MaxTunnels
      BY <2>2, ControlAssumption
    <3>. QED
      BY <2>2, <3>1, <3>2 DEF Slots, SlotAccounting
  <2>5. Conns' /\ TunnelGauges'
    BY <2>1, <2>3, FS_EmptySet DEF Conns, TunnelGauges, Gauges
  <2>. QED
    BY <2>4, <2>5 DEF Counts
<1>5. CASE UNCHANGED vars
  BY <1>5, KeptCounts DEF vars, Same, SameConn, SameSlot, SameGauge, Counts
<1>. QED
  BY <1>1, <1>2, <1>3, <1>4, <1>5, LimitCases

(* The inductive invariant: where the counted resources are held, and the   *)
(* counters, which equal the sizes of the sets of their holders.            *)
LimitInv == TypeOK /\ Shape /\ LimitShapes /\ Counts

LEMMA LimitInvHolds == Spec => []LimitInv
<1>1. Init => LimitShapes /\ Counts
  <2>. SUFFICES ASSUME Init PROVE LimitShapes /\ Counts
    OBVIOUS
  <2>1. /\ ConnHolders = {} /\ HTTPTunnels = {} /\ TCPTunnels = {}
        /\ \A t : SlotHolders(t) = {}
    BY DEF Init, ConnHolders, HTTPTunnels, TCPTunnels, SlotHolders
  <2>2. DOMAIN active = {} /\ \A t \in Nat : ActiveOf(t) = 0
    BY DEF Init, ActiveOf
  <2>3. Slots
    BY <2>1, <2>2, FS_EmptySet, ControlAssumption DEF Slots, SlotAccounting
  <2>4. Conns /\ TunnelGauges
    BY <2>1, FS_EmptySet DEF Init, Conns, TunnelGauges, Gauges
  <2>5. LimitShapes
    BY DEF Init, LimitShapes, LimitShape, Before
  <2>. QED
    BY <2>3, <2>4, <2>5 DEF Counts
<1>2. ControlInv /\ LimitShapes /\ Counts /\ [Next]_vars => LimitShapes' /\ Counts'
  BY LimitShapeStep, CountsStep DEF ControlInv
<1>3. ControlInv => TypeOK /\ Shape
  BY DEF ControlInv
<1>. QED
  BY <1>1, <1>2, <1>3, ControlInvHolds, PTL DEF Spec, LimitInv

(* The gauges of /metrics agree with the open control connections and the   *)
(* tunnels of either kind, through every interleaving (metrics.go).         *)
THEOREM GaugesAreTrue == Spec => []GaugesAgree
<1>1. LimitInv => GaugesAgree
  BY DEF LimitInv, Counts, Conns, TunnelGauges, GaugesAgree, ConnHolders, HTTPTunnels, TCPTunnels
<1>. QED
  BY <1>1, LimitInvHolds, PTL

(* The limiter counts exactly the handlers that have not released their     *)
(* slot: no error path leaks one, none is given back twice (limits.go).     *)
THEOREM SlotsAreAccounted == Spec => [](SlotAccounting /\ SlotAccountingChecked)
<1>1. LimitInv => SlotAccounting /\ SlotAccountingChecked
  BY DEF LimitInv, Counts, Slots, SlotAccounting, SlotAccountingChecked, TypeOK
<1>. QED
  BY <1>1, LimitInvHolds, PTL

(* With a cap of MaxTunnels, no token id ever has more tunnels that hold a  *)
(* name or a port, for any number of sessions (limits.go, control.go).      *)
THEOREM TunnelsAreCapped == Spec => []TunnelCap
<1>1. LimitInv => TunnelCap
  <2>. SUFFICES ASSUME LimitInv, MaxTunnels > 0, NEW s \in Sessions, tid[s] > 0
                PROVE  Cardinality(Tunnels(tid[s])) <= MaxTunnels
    BY DEF TunnelCap
  <2>1. tid[s] \in Nat \ {0}
    BY DEF LimitInv, TypeOK
  <2>2. Tunnels(tid[s]) \subseteq SlotHolders(tid[s]) /\ SlotHolders(tid[s]) \subseteq Sessions
    BY DEF LimitInv, LimitShapes, LimitShape, Capped, Tunnels, SlotHolders
  <2>3. Cardinality(SlotHolders(tid[s])) <= MaxTunnels
    BY <2>1 DEF LimitInv, Counts, Slots, SlotAccounting
  <2>4. /\ IsFiniteSet(SlotHolders(tid[s]))
        /\ Cardinality(Tunnels(tid[s])) <= Cardinality(SlotHolders(tid[s]))
    BY <2>2, FS_Subset, ControlAssumption
  <2>5. Cardinality(SlotHolders(tid[s])) \in Nat /\ Cardinality(Tunnels(tid[s])) \in Nat
    BY <2>2, <2>4, FS_Subset, FS_CardinalityType
  <2>. QED
    BY <2>3, <2>4, <2>5, ControlAssumption
<1>. QED
  BY <1>1, LimitInvHolds, PTL

----------------------------------------------------------------------------
(* The refinement of TunnelLeases: registry and listeners as one map.       *)

HolderMap == [r \in Names \cup Ports |-> IF r \in Names THEN registry[r] ELSE listener[r]]
AccountMap == [s \in Sessions |-> IF HolderOf(s) THEN tid[s] ELSE NoToken]
HoldsSomething(x) == HolderOf(x) <=> \E r \in Names \cup Ports : HolderMap[r] = x

LEMMA HolderFact == (\A x : HoldsSomething(x)) /\ (\A x : HoldsSomething(x))'
<1>1. \A x : HoldsSomething(x)
  BY NamesAreNotPorts DEF HoldsSomething, HolderOf, HolderMap
<1>2. (\A x : HoldsSomething(x))'
  BY NamesAreNotPorts DEF HoldsSomething, HolderOf, HolderMap
<1>. QED
  BY <1>1, <1>2

(* A session that leases something has not released its name.               *)
LEMMA HoldersHold ==
    ASSUME TypeOK, Owned, NEW s \in Sessions, HolderOf(s) PROVE "name" \in held[s]
  BY DEF Owned, RegistryOwned, ListenerOwned, HolderOf

(* The instance has its own copy of Cardinality.                            *)
LEMMA LeaseCardinality == ASSUME NEW S PROVE Leases!Cardinality(S) = Cardinality(S)
  BY DEF Leases!Cardinality, Cardinality

LEMMA LeaseStutter ==
    ASSUME UNCHANGED <<registry, listener>>,
           \A s \in Sessions : HolderOf(s) => tid'[s] = tid[s]
    PROVE  UNCHANGED Leases!leaseVars
<1>1. \A s \in Sessions : HolderOf(s)' <=> HolderOf(s)
  BY DEF HolderOf
<1>2. AccountMap' = AccountMap
  BY <1>1 DEF AccountMap
<1>3. HolderMap' = HolderMap
  BY DEF HolderMap
<1>. QED
  BY <1>2, <1>3 DEF Leases!leaseVars, AccountMap, HolderMap

LEMMA LeaseGranted ==
    ASSUME NEW s \in Sessions, NEW r \in Names \cup Ports, NEW a, a = tid[s], UNCHANGED tid,
           HolderMap[r] = NoSession, HolderMap' = [HolderMap EXCEPT ![r] = s], ~HolderOf(s),
           a = NoToken \/ MaxTunnels = 0 \/ Cardinality(Leases!Charged(a)) < MaxTunnels
    PROVE  Leases!Grant(s, r, a)
<1>. HolderMap = [q \in Names \cup Ports |-> HolderMap[q]]
  BY DEF HolderMap
<1>1. \A x \in Sessions : HolderOf(x)' <=> HolderOf(x) \/ x = s
  BY HolderFact, ControlAssumption DEF HoldsSomething
<1>2. AccountMap' = [AccountMap EXCEPT ![s] = a]
  BY <1>1 DEF AccountMap
<1>3. ~Leases!Holding(s)
  BY HolderFact DEF HoldsSomething, Leases!Holding, HolderMap
<1>. QED
  BY <1>2, <1>3, LeaseCardinality DEF Leases!Grant, AccountMap, HolderMap

LEMMA LeaseReleased ==
    ASSUME NEW s \in Sessions, NEW r \in Names \cup Ports, UNCHANGED tid,
           HolderMap[r] = s, HolderMap' = [HolderMap EXCEPT ![r] = NoSession], ~HolderOf(s)'
    PROVE  Leases!Release(s, r)
<1>. HolderMap = [q \in Names \cup Ports |-> HolderMap[q]]
  BY DEF HolderMap
<1>1. \A x \in Sessions : HolderOf(x)' <=> HolderOf(x) /\ x # s
  <2>1. ASSUME NEW x \in Sessions \ {s} PROVE HolderOf(x)' <=> HolderOf(x)
    <3>1. \A q \in Names \cup Ports : HolderMap'[q] = x <=> HolderMap[q] = x
      BY ControlAssumption
    <3>. QED
      BY <3>1, HolderFact DEF HoldsSomething
  <2>. QED
    BY <2>1
<1>2. AccountMap' = [AccountMap EXCEPT ![s] = NoToken]
  BY <1>1 DEF AccountMap
<1>. QED
  BY <1>2 DEF Leases!Release, AccountMap, HolderMap

(* A handler that is about to take its name has a slot already, and those   *)
(* its token is charged for are other slots.                                *)
LEMMA LeaseQuota ==
    ASSUME LimitInv, Owned, NEW s \in Sessions, pc[s] \in {"register", "listen"},
           tid[s] # NoToken, MaxTunnels # 0
    PROVE  Cardinality(Leases!Charged(tid[s])) < MaxTunnels
<1>. USE DEF LimitInv
<1>. DEFINE Charged == Leases!Charged(tid[s])
            Slotted == SlotHolders(tid[s])
<1>1. tid[s] \in Nat \ {0} /\ MaxTunnels \in Nat \ {0}
  BY ControlAssumption DEF TypeOK
<1>2. Slotted \subseteq Sessions /\ s \in Slotted
  BY <1>1 DEF LimitShapes, LimitShape, Before, Capped, SlotHolders
<1>3. Charged \subseteq Slotted \ {s}
  <2>. SUFFICES ASSUME NEW x \in Charged PROVE x \in Slotted \ {s}
    OBVIOUS
  <2>1. x \in Sessions /\ HolderOf(x) /\ tid[x] = tid[s]
    BY <1>1, HolderFact DEF Leases!Charged, Leases!Holding, HoldsSomething, HolderMap
  <2>2. "name" \in held[x]
    BY <2>1, HoldersHold
  <2>3. "slot" \in held[x]
    BY <1>1, <2>1, <2>2 DEF LimitShapes, LimitShape, Capped
  <2>4. x # s
    BY <2>2 DEF Shape, HandlerShape
  <2>. QED
    BY <2>1, <2>3, <2>4 DEF SlotHolders
<1>4. Cardinality(Slotted) <= MaxTunnels
  BY <1>1 DEF Counts, Slots, SlotAccounting
<1>5. IsFiniteSet(Slotted) /\ IsFiniteSet(Slotted \ {s}) /\ Cardinality(Slotted \ {s}) = Cardinality(Slotted) - 1
  BY <1>2, FS_Subset, FS_RemoveElement, ControlAssumption
<1>6. Cardinality(Charged) <= Cardinality(Slotted \ {s})
  BY <1>3, <1>5, FS_Subset
<1>7. Cardinality(Slotted) \in Nat /\ Cardinality(Slotted \ {s}) \in Nat /\ Cardinality(Charged) \in Nat
  BY <1>3, <1>5, FS_Subset, FS_CardinalityType
<1>. HIDE DEF Charged, Slotted
<1>8. Cardinality(Charged) < MaxTunnels
  BY <1>1, <1>4, <1>5, <1>6, <1>7
<1>. QED
  BY <1>8 DEF Charged

(* What a step of the control plane is to the lease service.                *)
LeaseStep ==
    [Leases!LeaseNext({NoToken} \cup {tid[s] : s \in Sessions})]_(Leases!leaseVars)

LEMMA TakingLeases ==
    ASSUME LimitInv, Owned, NEW s \in Sessions, pc[s] \in {"register", "listen"},
           UNCHANGED tid, NEW r \in Names \cup Ports,
           HolderMap[r] = NoSession, HolderMap' = [HolderMap EXCEPT ![r] = s]
    PROVE  LeaseStep
<1>1. ~HolderOf(s)
  BY HoldersHold DEF LimitInv, Shape, HandlerShape
<1>. DEFINE A == {NoToken} \cup {tid[x] : x \in Sessions}
<1>2. PICK a \in A : a = tid[s]
  OBVIOUS
<1>3. a = NoToken \/ MaxTunnels = 0 \/ Cardinality(Leases!Charged(a)) < MaxTunnels
  BY <1>2, LeaseQuota
<1>4. Leases!Grant(s, r, a)
  BY <1>1, <1>2, <1>3, LeaseGranted
<1>. HIDE DEF A
<1>5. Leases!LeaseNext(A)
  BY <1>4 DEF Leases!LeaseNext
<1>. QED
  BY <1>5 DEF A, LeaseStep

LEMMA GivingLeases ==
    ASSUME NEW s \in Sessions, NEW r \in Names \cup Ports, UNCHANGED tid,
           HolderMap[r] = s, HolderMap' = [HolderMap EXCEPT ![r] = NoSession], ~HolderOf(s)'
    PROVE  LeaseStep
<1>1. Leases!Release(s, r)
  BY LeaseReleased
<1>. QED
  BY <1>1 DEF LeaseStep, Leases!LeaseNext

(* A change of the registry or of the listeners is one of the map.          *)
LEMMA MapChanges ==
    ASSUME TypeOK, NEW x
    PROVE  /\ \A n \in Names : registry' = [registry EXCEPT ![n] = x] /\ UNCHANGED listener
                 => HolderMap' = [HolderMap EXCEPT ![n] = x] /\ HolderMap[n] = registry[n]
           /\ \A p \in Ports : listener' = [listener EXCEPT ![p] = x] /\ UNCHANGED registry
                 => HolderMap' = [HolderMap EXCEPT ![p] = x] /\ HolderMap[p] = listener[p]
  BY NamesAreNotPorts DEF TypeOK, HolderMap

LEMMA StutterLeases ==
    ASSUME UNCHANGED <<registry, listener>>,
           \A s \in Sessions : HolderOf(s) => tid'[s] = tid[s]
    PROVE  LeaseStep
  BY LeaseStutter DEF LeaseStep

LEMMA LeasesStep ==
    LimitInv /\ Owned /\ TypeOK' /\ Owned' /\ [Next]_vars => LeaseStep
<1>. SUFFICES ASSUME LimitInv, Owned, TypeOK', Owned', [Next]_vars PROVE LeaseStep
  OBVIOUS
<1>0. TypeOK /\ Shape
  BY DEF LimitInv
<1>1. ASSUME NEW s \in Sessions, Quiet(s) PROVE LeaseStep
  <2>1. UNCHANGED <<registry, listener>> /\ \A r \in Sessions : Keeps(r)
    BY <1>0, <1>1, QuietKeeps
  <2>2. \A r \in Sessions : HolderOf(r) => tid'[r] = tid[r]
    BY <1>0, <2>1, HoldersHold DEF Keeps
  <2>. QED
    BY <2>1, <2>2, StutterLeases
<1>2. ASSUME NEW s \in Sessions, Register(s) PROVE LeaseStep
  <2>1. pc[s] = "register" /\ UNCHANGED <<tid, listener>> /\ id[s] \in Names
    BY <1>0, <1>2 DEF Register, Shape, HandlerShape, NameSteps
  <2>2. CASE UNCHANGED registry
    BY <2>1, <2>2, StutterLeases
  <2>3. CASE RegisterHTTPTunnel(id[s], s)
    BY <1>0, <2>1, <2>3, MapChanges, TakingLeases DEF RegisterHTTPTunnel
  <2>. QED
    BY <1>2, <2>2, <2>3 DEF Register
<1>3. ASSUME NEW s \in Sessions, ListenRequested(s) \/ ListenScan(s) PROVE LeaseStep
  <2>1. pc[s] = "listen" /\ UNCHANGED <<tid, registry>>
    BY <1>3 DEF ListenRequested, ListenScan
  <2>2. CASE UNCHANGED listener
    BY <2>1, <2>2, StutterLeases
  <2>3. CASE InRange(port[s]) /\ port[s] # 0 /\ Listen(s, port[s])
    <3>1. port[s] \in Ports
      BY <1>0, <2>3, InRangeIsPort DEF TypeOK
    <3>. QED
      BY <1>0, <2>1, <2>3, <3>1, MapChanges, TakingLeases DEF Listen
  <2>4. req[s].port # 0 => port[s] # 0
    BY <1>0, <2>1 DEF Shape, HandlerShape, PortSteps
  <2>5. PortStart > 0 /\ InRange(port[s]) => port[s] # 0
    BY <1>0, ControlAssumption DEF InRange, TypeOK
  <2>. QED
    BY <1>3, <2>2, <2>3, <2>4, <2>5 DEF ListenRequested, ListenScan
<1>4. ASSUME NEW s \in Sessions, UnregisterHTTPTunnel(s) PROVE LeaseStep
  <2>1. /\ id[s] \in Names /\ registry[id[s]] = s /\ UNCHANGED <<tid, listener>>
        /\ registry' = [registry EXCEPT ![id[s]] = NoSession] /\ "name" \notin held'[s]
    BY <1>0, <1>4 DEF UnregisterHTTPTunnel, Shape, HandlerShape, TypeOK, Owned, RegistryOwned
  <2>2. ~HolderOf(s)'
    BY <2>1 DEF Owned, RegistryOwned, ListenerOwned, HolderOf
  <2>. QED
    BY <1>0, <2>1, <2>2, MapChanges, GivingLeases
<1>5. ASSUME NEW s \in Sessions, CloseListener(s) PROVE LeaseStep
  <2>1. UNCHANGED <<tid, registry>> /\ "name" \notin held'[s]
    BY <1>0, <1>5 DEF CloseListener, TypeOK
  <2>2. CASE UNCHANGED listener
    BY <2>1, <2>2, StutterLeases
  <2>3. CASE ~UNCHANGED listener
    <3>1. /\ port[s] \in Ports /\ listener[port[s]] = s
          /\ listener' = [listener EXCEPT ![port[s]] = NoSession]
      BY <1>0, <1>5, <2>3 DEF CloseListener, TypeOK
    <3>2. ~HolderOf(s)'
      BY <2>1 DEF Owned, RegistryOwned, ListenerOwned, HolderOf
    <3>. QED
      BY <1>0, <2>1, <3>1, <3>2, MapChanges, GivingLeases
  <2>. QED
    BY <2>2, <2>3
<1>6. ASSUME NEW s \in Sessions, WatchTCP(s) PROVE LeaseStep
  <2>1. /\ UNCHANGED <<tid, registry>> /\ listener[port[s]] = s
        /\ listener' = [listener EXCEPT ![port[s]] = NoSession]
    BY <1>6 DEF WatchTCP
  <2>2. CASE port[s] \in Ports
    <3>1. ~IsHTTP(s) /\ \A p \in Ports : listener[p] = s => p = port[s]
      BY <2>1, <2>2 DEF Owned, ListenerOwned
    <3>2. ~HolderOf(s)'
      BY <1>0, <2>1, <2>2, <3>1, ControlAssumption DEF HolderOf, Owned, RegistryOwned, TypeOK
    <3>. QED
      BY <1>0, <2>1, <2>2, <3>2, MapChanges, GivingLeases
  <2>3. CASE port[s] \notin Ports
    <3>1. UNCHANGED listener
      BY <1>0, <2>1, <2>3 DEF TypeOK
    <3>. QED
      BY <2>1, <3>1, StutterLeases
  <2>. QED
    BY <2>2, <2>3
<1>7. CASE Operator
  BY <1>7, StutterLeases DEF Operator
<1>8. CASE Restart
  <2>1. HolderMap' = [r \in Names \cup Ports |-> NoSession]
    BY <1>8 DEF Restart, HolderMap
  <2>2. \A s \in Sessions : ~HolderOf(s)'
    BY <1>8, ControlAssumption DEF Restart, HolderOf
  <2>3. AccountMap' = [s \in Sessions |-> NoToken]
    BY <2>2 DEF AccountMap
  <2>4. Leases!Crash
    BY <2>1, <2>3 DEF Leases!Crash, HolderMap, AccountMap
  <2>. QED
    BY <2>4 DEF LeaseStep, Leases!LeaseNext
<1>9. CASE UNCHANGED vars
  BY <1>9, StutterLeases DEF vars
<1>. QED
  BY <1>1, <1>2, <1>3, <1>4, <1>5, <1>6, <1>7, <1>8, <1>9, NextCases DEF Taking, Giving

(* The control plane implements the lease service for any number of         *)
(* sessions, names and ports: no lease changes hands without being given    *)
(* back, no session has two, no token more than MaxTunnels, and a restart   *)
(* loses all at once (control.go, registry.go, limits.go).                  *)
THEOREM LeasesAreImplemented == Spec => ImplementsLeases
<1>1. Init => Leases!LeaseInit
  <2>. SUFFICES ASSUME Init PROVE Leases!LeaseInit
    OBVIOUS
  <2>1. HolderMap = [r \in Names \cup Ports |-> NoSession]
    BY DEF Init, HolderMap
  <2>2. AccountMap = [s \in Sessions |-> NoToken]
    BY ControlAssumption DEF Init, AccountMap, HolderOf
  <2>. QED
    BY <2>1, <2>2 DEF Leases!LeaseInit, HolderMap, AccountMap
<1>2. LimitInv /\ ControlInv /\ ControlInv' /\ [Next]_vars => LeaseStep
  BY LeasesStep DEF ControlInv
<1>. QED
  BY <1>1, <1>2, LimitInvHolds, ControlInvHolds, PTL DEF Spec, ImplementsLeases, LeaseStep

----------------------------------------------------------------------------
(* What an announced tunnel has: its name, and for TCP a port of the range. *)

Placed ==
    \A s \in Sessions :
        /\ pc[s] \in {"respond", "active"} => "name" \in held[s]
        /\ "name" \in held[s] /\ ~IsHTTP(s) => port[s] \in Ports
        /\ "watcher" \in held[s] => pc[s] \in {"active", "unwind"} /\ port[s] \in Ports

LEMMA QuietPlaced == ASSUME TypeOK, Shape, Placed, NEW s \in Sessions, Quiet(s) PROVE Placed'
<1>. USE DEF TypeOK, Shape, HandlerShape, Placed
<1>1. CASE AcceptConn(s)
  BY <1>1 DEF AcceptConn
<1>2. CASE RecvRequest(s)
  BY <1>2 DEF RecvRequest
<1>3. CASE Disconnect(s)
  BY <1>3 DEF Disconnect
<1>4. CASE AcceptError(s)
  BY <1>4 DEF AcceptError
<1>5. CASE AcceptStreamFails(s)
  BY <1>5 DEF AcceptStreamFails
<1>6. CASE Validate(s)
  BY <1>6 DEF Validate
<1>7. CASE Resolve(s)
  BY <1>7 DEF Resolve
<1>8. CASE TryAcquire(s)
  BY <1>8 DEF TryAcquire
<1>9. CASE AllowRate(s)
  <2>1. Branch(s) \in {"name", "portCheck", "listen"}
    BY DEF Branch
  <2>2. /\ pc[s] = "rate" /\ UNCHANGED <<held, req>> /\ \A r \in Sessions \ {s} : port'[r] = port[r]
        /\ pc' = [pc EXCEPT ![s] = "unwind"] \/ pc' = [pc EXCEPT ![s] = Branch(s)]
    BY <1>9 DEF AllowRate
  <2>. QED
    BY <2>1, <2>2
<1>10. CASE CheckPort(s)
  BY <1>10 DEF CheckPort
<1>11. CASE ReservePort(s)
  BY <1>11 DEF ReservePort
<1>12. CASE RecheckPort(s)
  BY <1>12 DEF RecheckPort
<1>13. CASE AllocateID(s)
  BY <1>13 DEF AllocateID
<1>14. CASE CheckSubdomain(s)
  BY <1>14 DEF CheckSubdomain
<1>15. CASE ReserveName(s)
  BY <1>15 DEF ReserveName
<1>16. CASE RecheckName(s)
  BY <1>16 DEF RecheckName
<1>17. CASE Respond(s)
  BY <1>17 DEF Respond
<1>18. CASE WaitHTTP(s)
  BY <1>18 DEF WaitHTTP
<1>19. CASE AcceptClosed(s)
  BY <1>19 DEF AcceptClosed
<1>20. CASE releaseTunnel(s)
  BY <1>20 DEF releaseTunnel
<1>21. CASE ReleaseSlot(s)
  BY <1>21 DEF ReleaseSlot
<1>22. CASE CloseSession(s)
  BY <1>22 DEF CloseSession
<1>23. CASE CloseConn(s)
  BY <1>23 DEF CloseConn
<1>. QED
  BY <1>1, <1>2, <1>3, <1>4, <1>5, <1>6, <1>7, <1>8, <1>9, <1>10, <1>11, <1>12,
     <1>13, <1>14, <1>15, <1>16, <1>17, <1>18, <1>19, <1>20, <1>21, <1>22, <1>23 DEF Quiet

LEMMA PlacedStep == TypeOK /\ Shape /\ Placed /\ [Next]_vars => Placed'
<1>. SUFFICES ASSUME TypeOK, Shape, Placed, [Next]_vars PROVE Placed'
  OBVIOUS
<1>. USE DEF TypeOK, Shape, HandlerShape, PortSteps, Placed
<1>1. ASSUME NEW s \in Sessions, Quiet(s) PROVE Placed'
  BY <1>1, QuietPlaced
<1>2. ASSUME NEW s \in Sessions, Taking(s) PROVE Placed'
  <2>1. CASE Register(s)
    BY <2>1 DEF Register, RegisterHTTPTunnel, NameSteps
  <2>2. CASE ListenRequested(s)
    <3>1. InRange(port[s]) => port[s] \in Ports
      <4>1. port[s] # 0
        BY <2>2 DEF ListenRequested
      <4>. QED
        BY <4>1, InRangeIsPort
    <3>. QED
      BY <2>2, <3>1 DEF ListenRequested, Listen
  <2>3. CASE ListenScan(s)
    <3>1. PortStart > 0 /\ InRange(port[s]) => port[s] \in Ports
      BY InRangeIsPort, ControlAssumption DEF InRange
    <3>. QED
      BY <2>3, <3>1 DEF ListenScan, Listen
  <2>. QED
    BY <1>2, <2>1, <2>2, <2>3 DEF Taking
<1>3. ASSUME NEW s \in Sessions, Giving(s) PROVE Placed'
  <2>1. CASE UnregisterHTTPTunnel(s)
    BY <2>1 DEF UnregisterHTTPTunnel
  <2>2. CASE CloseListener(s)
    BY <2>2 DEF CloseListener
  <2>3. CASE WatchTCP(s)
    BY <2>3 DEF WatchTCP
  <2>. QED
    BY <1>3, <2>1, <2>2, <2>3 DEF Giving
<1>4. CASE Operator
  BY <1>4 DEF Operator
<1>5. CASE Restart
  BY <1>5 DEF Restart
<1>6. CASE UNCHANGED vars
  BY <1>6 DEF vars
<1>. QED
  BY <1>1, <1>2, <1>3, <1>4, <1>5, <1>6, NextCases

----------------------------------------------------------------------------
(* A handler ends in a bounded number of steps once its session is closed.  *)

(* The steps the handler of s and its watcher may still take.               *)
WatcherOwes(s) == IF "watcher" \in held[s] /\ \E p \in Ports : listener[p] = s THEN 1 ELSE 0
ToScan(s) == IF req[s].port = 0 /\ InRange(port[s]) THEN PortEnd + 1 - port[s] ELSE 0
Deferred(H) ==
    (IF "gauge" \in H THEN 1 ELSE 0) + (IF "name" \in H THEN 1 ELSE 0) + (IF "slot" \in H THEN 1 ELSE 0)
      + (IF "session" \in H THEN 1 ELSE 0) + (IF "conn" \in H THEN 1 ELSE 0)

StepsFrom(l) ==
    IF l = "register" THEN 10
    ELSE IF l = "nameRecheck" THEN 11
    ELSE IF l = "nameReserve" THEN 12
    ELSE IF l = "name" THEN 13
    ELSE IF l = "portRecheck" THEN PortEnd + 12
    ELSE IF l = "portReserve" THEN PortEnd + 13
    ELSE IF l = "portCheck" THEN PortEnd + 14
    ELSE IF l = "rate" THEN PortEnd + 15
    ELSE IF l = "acquire" THEN PortEnd + 16
    ELSE IF l = "resolve" THEN PortEnd + 17
    ELSE IF l = "validate" THEN PortEnd + 18
    ELSE IF l = "accept" THEN PortEnd + 19 ELSE 0

StepsLeft(s) ==
    IF pc[s] = "unwind" THEN Deferred(held[s]) + WatcherOwes(s)
    ELSE IF pc[s] = "active" THEN 7 + WatcherOwes(s)
    ELSE IF pc[s] = "respond" THEN 9
    ELSE IF pc[s] = "listen" THEN 10 + ToScan(s)
    ELSE StepsFrom(pc[s])

(* A handler that has begun has its connection to close, and an announced   *)
(* TCP tunnel has its watcher.                                              *)
Tidy(s) ==
    /\ pc[s] # "idle" => "conn" \in held[s]
    /\ pc[s] = "active" /\ ~IsHTTP(s) => "watcher" \in held[s]

Moves(s) == Handler(s) \/ WatchTCP(s) \/ RecvRequest(s) \/ AcceptError(s)

(* What a step does to the handler of s.                                    *)
Goes(s) ==
    /\ Tidy(s)'
    /\ Moves(s) => StepsLeft(s)' < StepsLeft(s)
    /\ pc[s] # "idle" => StepsLeft(s)' <= StepsLeft(s)
    /\ pc[s] # "idle" /\ ~up[s] => ~up'[s]

LEMMA PiecesRange ==
    /\ \A H : Deferred(H) \in 0..5
    /\ \A s : WatcherOwes(s) \in 0..1 /\ WatcherOwes(s)' \in 0..1
    /\ PortEnd \in Nat /\ PortStart \in Nat
  BY ControlAssumption DEF Deferred, WatcherOwes

LEMMA ScanRange == ASSUME TypeOK, NEW s \in Sessions PROVE ToScan(s) \in 0..PortEnd + 1
  BY PiecesRange DEF ToScan, InRange, TypeOK

LEMMA StepsLeftRange ==
    ASSUME TypeOK, NEW s \in Sessions PROVE StepsLeft(s) \in 0..PortEnd + 19
<1>1. Deferred(held[s]) \in 0..5 /\ WatcherOwes(s) \in 0..1 /\ PortEnd \in Nat
      /\ ToScan(s) \in 0..PortEnd + 1
  BY PiecesRange, ScanRange
<1>. QED
  BY <1>1 DEF StepsLeft, StepsFrom

(* The handler returns.                                                     *)
LEMMA FailCounts ==
    ASSUME TypeOK, NEW s \in Sessions, Tidy(s), pc[s] \notin {"idle", "unwind", "active", "respond"},
           pc'[s] = "unwind", held'[s] \in {held[s], held[s] \cup {"slot"}}
    PROVE  StepsLeft(s)' \in Int /\ StepsLeft(s)' < StepsLeft(s) /\ Tidy(s)'
<1>1. /\ Deferred(held'[s]) \in 0..5 /\ WatcherOwes(s)' \in 0..1 /\ PortEnd \in Nat
      /\ ToScan(s) \in 0..PortEnd + 1
  BY PiecesRange, ScanRange
<1>2. StepsLeft(s)' = Deferred(held'[s]) + WatcherOwes(s)'
  BY DEF StepsLeft
<1>3. StepsLeft(s) >= 10
  BY <1>1 DEF StepsLeft, StepsFrom, TypeOK, Steps
<1>4. StepsLeft(s) \in Int
  BY <1>1, StepsLeftRange
<1>. QED
  BY <1>1, <1>2, <1>3, <1>4 DEF Tidy

(* It goes on to a later step.                                              *)
LEMMA OnCounts ==
    ASSUME TypeOK, TypeOK', NEW s \in Sessions, Tidy(s),
           pc[s] \notin {"idle", "unwind", "active", "respond", "listen"},
           held'[s] \in {held[s], held[s] \cup {"slot"}},
           \/ pc'[s] # "listen" /\ StepsFrom(pc'[s]) \in 10..StepsFrom(pc[s]) - 1
           \/ pc'[s] = "listen" /\ pc[s] \in {"portRecheck", "portReserve", "portCheck", "rate"}
    PROVE  StepsLeft(s)' \in Int /\ StepsLeft(s)' < StepsLeft(s) /\ Tidy(s)'
<1>1. /\ PortEnd \in Nat /\ PortStart \in Nat /\ ToScan(s)' \in 0..PortEnd + 1
  BY PiecesRange DEF ToScan, InRange, TypeOK
<1>2. StepsLeft(s) = StepsFrom(pc[s])
  BY DEF StepsLeft
<1>3. pc'[s] \notin {"idle", "unwind", "active", "respond"}
  BY <1>1 DEF StepsFrom
<1>4. StepsLeft(s)' = IF pc'[s] = "listen" THEN 10 + ToScan(s)' ELSE StepsFrom(pc'[s])
  BY <1>3 DEF StepsLeft
<1>5. pc[s] \in {"portRecheck", "portReserve", "portCheck", "rate"} => StepsFrom(pc[s]) >= PortEnd + 12
  BY <1>1 DEF StepsFrom
<1>6. StepsFrom(pc[s]) \in Int
  BY <1>1 DEF StepsFrom
<1>7. "conn" \in held'[s]
  BY DEF Tidy
<1>. QED
  BY <1>1, <1>2, <1>3, <1>4, <1>5, <1>6, <1>7 DEF Tidy

LEMMA MoveCounts ==
    ASSUME TypeOK, TypeOK', NEW s \in Sessions, Tidy(s),
           pc[s] \notin {"idle", "unwind", "active", "respond", "listen"},
           held'[s] \in {held[s], held[s] \cup {"slot"}},
           \/ pc'[s] = "unwind"
           \/ pc'[s] = "listen" /\ pc[s] \in {"portRecheck", "portReserve", "portCheck", "rate"}
           \/ pc'[s] # "listen" /\ StepsFrom(pc'[s]) \in 10..StepsFrom(pc[s]) - 1
    PROVE  StepsLeft(s)' \in Int /\ StepsLeft(s)' < StepsLeft(s) /\ Tidy(s)'
<1>1. CASE pc'[s] = "unwind"
  BY <1>1, FailCounts
<1>2. CASE pc'[s] # "unwind"
  BY <1>2, OnCounts
<1>. QED
  BY <1>1, <1>2

LEMMA SetUpCounts ==
    ASSUME TypeOK, TypeOK', NEW s \in Sessions, Tidy(s),
           \/ RecvRequest(s) \/ AcceptStreamFails(s) \/ Validate(s) \/ Resolve(s) \/ TryAcquire(s) \/ AllowRate(s)
           \/ CheckPort(s) \/ ReservePort(s) \/ RecheckPort(s)
           \/ AllocateID(s) \/ CheckSubdomain(s) \/ ReserveName(s) \/ RecheckName(s)
    PROVE  StepsLeft(s)' \in Int /\ StepsLeft(s)' < StepsLeft(s) /\ Tidy(s)'
<1>1. PortEnd \in Nat
  BY PiecesRange
<1>2. s \in DOMAIN pc /\ s \in DOMAIN held
  BY DEF TypeOK
<1>3. CASE RecvRequest(s)
  <2>1. pc[s] = "accept" /\ pc'[s] \in {"validate", "unwind"} /\ held'[s] = held[s]
    BY <1>2, <1>3 DEF RecvRequest
  <2>2. pc'[s] = "validate" => StepsFrom(pc'[s]) \in 10..StepsFrom(pc[s]) - 1
    BY <1>1, <2>1 DEF StepsFrom
  <2>. QED
    BY <2>1, <2>2, MoveCounts
<1>4. CASE AcceptStreamFails(s)
  <2>1. pc[s] = "accept" /\ pc'[s] = "unwind" /\ held'[s] = held[s]
    BY <1>2, <1>4 DEF AcceptStreamFails
  <2>. QED
    BY <2>1, MoveCounts
<1>5. CASE Validate(s)
  <2>1. pc[s] = "validate" /\ pc'[s] \in {"resolve", "unwind"} /\ held'[s] = held[s]
    BY <1>2, <1>5 DEF Validate
  <2>2. pc'[s] = "resolve" => StepsFrom(pc'[s]) \in 10..StepsFrom(pc[s]) - 1
    BY <1>1, <2>1 DEF StepsFrom
  <2>. QED
    BY <2>1, <2>2, MoveCounts
<1>6. CASE Resolve(s)
  <2>1. pc[s] = "resolve" /\ pc'[s] \in {"acquire", "unwind"} /\ held'[s] = held[s]
    BY <1>2, <1>6 DEF Resolve
  <2>2. pc'[s] = "acquire" => StepsFrom(pc'[s]) \in 10..StepsFrom(pc[s]) - 1
    BY <1>1, <2>1 DEF StepsFrom
  <2>. QED
    BY <2>1, <2>2, MoveCounts
<1>7. CASE TryAcquire(s)
  <2>1. /\ pc[s] = "acquire" /\ pc'[s] \in {"rate", "unwind"}
        /\ held'[s] \in {held[s], held[s] \cup {"slot"}}
    BY <1>2, <1>7 DEF TryAcquire
  <2>2. pc'[s] = "rate" => StepsFrom(pc'[s]) \in 10..StepsFrom(pc[s]) - 1
    BY <1>1, <2>1 DEF StepsFrom
  <2>. QED
    BY <2>1, <2>2, MoveCounts
<1>8. CASE AllowRate(s)
  <2>. Branch(s) \in {"name", "portCheck", "listen"}
    BY DEF Branch
  <2>1. pc[s] = "rate" /\ pc'[s] \in {"name", "portCheck", "listen", "unwind"} /\ held'[s] = held[s]
    BY <1>2, <1>8 DEF AllowRate
  <2>2. pc'[s] \in {"name", "portCheck"} => StepsFrom(pc'[s]) \in 10..StepsFrom(pc[s]) - 1
    BY <1>1, <2>1 DEF StepsFrom
  <2>. QED
    BY <2>1, <2>2, MoveCounts
<1>9. CASE CheckPort(s)
  <2>1. pc[s] = "portCheck" /\ pc'[s] \in {"portReserve", "listen", "unwind"} /\ held'[s] = held[s]
    BY <1>2, <1>9 DEF CheckPort
  <2>2. pc'[s] = "portReserve" => StepsFrom(pc'[s]) \in 10..StepsFrom(pc[s]) - 1
    BY <1>1, <2>1 DEF StepsFrom
  <2>. QED
    BY <2>1, <2>2, MoveCounts
<1>10. CASE ReservePort(s)
  <2>1. pc[s] = "portReserve" /\ pc'[s] \in {"portRecheck", "listen"} /\ held'[s] = held[s]
    BY <1>2, <1>10 DEF ReservePort
  <2>2. pc'[s] = "portRecheck" => StepsFrom(pc'[s]) \in 10..StepsFrom(pc[s]) - 1
    BY <1>1, <2>1 DEF StepsFrom
  <2>. QED
    BY <2>1, <2>2, MoveCounts
<1>11. CASE RecheckPort(s)
  <2>1. pc[s] = "portRecheck" /\ pc'[s] \in {"listen", "unwind"} /\ held'[s] = held[s]
    BY <1>2, <1>11 DEF RecheckPort
  <2>. QED
    BY <2>1, MoveCounts
<1>12. CASE AllocateID(s)
  <2>1. pc[s] = "name" /\ pc'[s] \in {"register", "unwind"} /\ held'[s] = held[s]
    BY <1>2, <1>12 DEF AllocateID
  <2>2. pc'[s] = "register" => StepsFrom(pc'[s]) \in 10..StepsFrom(pc[s]) - 1
    BY <1>1, <2>1 DEF StepsFrom
  <2>. QED
    BY <2>1, <2>2, MoveCounts
<1>13. CASE CheckSubdomain(s)
  <2>1. pc[s] = "name" /\ pc'[s] \in {"register", "nameReserve", "unwind"} /\ held'[s] = held[s]
    BY <1>2, <1>13 DEF CheckSubdomain
  <2>2. pc'[s] \in {"register", "nameReserve"} => StepsFrom(pc'[s]) \in 10..StepsFrom(pc[s]) - 1
    BY <1>1, <2>1 DEF StepsFrom
  <2>. QED
    BY <2>1, <2>2, MoveCounts
<1>14. CASE ReserveName(s)
  <2>1. pc[s] = "nameReserve" /\ pc'[s] \in {"register", "nameRecheck"} /\ held'[s] = held[s]
    BY <1>2, <1>14 DEF ReserveName
  <2>2. pc'[s] \in {"register", "nameRecheck"} => StepsFrom(pc'[s]) \in 10..StepsFrom(pc[s]) - 1
    BY <1>1, <2>1 DEF StepsFrom
  <2>. QED
    BY <2>1, <2>2, MoveCounts
<1>15. CASE RecheckName(s)
  <2>1. pc[s] = "nameRecheck" /\ pc'[s] \in {"register", "unwind"} /\ held'[s] = held[s]
    BY <1>2, <1>15 DEF RecheckName
  <2>2. pc'[s] = "register" => StepsFrom(pc'[s]) \in 10..StepsFrom(pc[s]) - 1
    BY <1>1, <2>1 DEF StepsFrom
  <2>. QED
    BY <2>1, <2>2, MoveCounts
<1>. QED
  BY <1>3, <1>4, <1>5, <1>6, <1>7, <1>8, <1>9, <1>10, <1>11,
     <1>12, <1>13, <1>14, <1>15

LEMMA TakingCounts ==
    ASSUME TypeOK, NEW s \in Sessions, Tidy(s), Taking(s)
    PROVE  StepsLeft(s)' \in Int /\ StepsLeft(s)' < StepsLeft(s) /\ Tidy(s)'
<1>1. s \in DOMAIN pc /\ s \in DOMAIN held /\ s \in DOMAIN port /\ port[s] \in Nat
  BY DEF TypeOK
<1>2. ASSUME pc[s] \in {"register", "listen"}, pc'[s] = "respond", held'[s] = held[s] \cup {"name"}
      PROVE  StepsLeft(s)' \in Int /\ StepsLeft(s)' < StepsLeft(s) /\ Tidy(s)'
  <2>1. StepsLeft(s)' = 9
    BY <1>2 DEF StepsLeft
  <2>2. StepsLeft(s) >= 10
    BY <1>2, ScanRange, PiecesRange DEF StepsLeft, StepsFrom
  <2>3. StepsLeft(s) \in Int
    BY StepsLeftRange, PiecesRange
  <2>. QED
    BY <1>2, <2>1, <2>2, <2>3 DEF Tidy
<1>3. CASE Register(s)
  <2>1. /\ pc[s] = "register"
        /\ \/ pc'[s] = "unwind" /\ held'[s] = held[s]
           \/ pc'[s] = "respond" /\ held'[s] = held[s] \cup {"name"}
    BY <1>1, <1>3 DEF Register, RegisterHTTPTunnel
  <2>. QED
    BY <1>2, <2>1, FailCounts
<1>4. CASE ListenRequested(s)
  <2>1. /\ pc[s] = "listen"
        /\ \/ pc'[s] = "unwind" /\ held'[s] = held[s]
           \/ pc'[s] = "respond" /\ held'[s] = held[s] \cup {"name"}
    BY <1>1, <1>4 DEF ListenRequested, Listen
  <2>. QED
    BY <1>2, <2>1, FailCounts
<1>5. CASE ListenScan(s)
  <2>1. /\ pc[s] = "listen" /\ req[s].port = 0 /\ req' = req
        /\ \/ pc'[s] = "unwind" /\ held'[s] = held[s]
           \/ pc'[s] = "respond" /\ held'[s] = held[s] \cup {"name"}
           \/ InRange(port[s]) /\ pc' = pc /\ held' = held /\ port'[s] = port[s] + 1
    BY <1>1, <1>5 DEF ListenScan, Listen
  <2>2. CASE InRange(port[s]) /\ pc' = pc /\ held' = held /\ port'[s] = port[s] + 1
    <3>1. ToScan(s) = PortEnd + 1 - port[s]
      BY <2>1, <2>2 DEF ToScan
    <3>2. ToScan(s)' = IF InRange(port[s] + 1) THEN PortEnd - port[s] ELSE 0
      BY <1>1, <2>1, <2>2, PiecesRange DEF ToScan, InRange
    <3>3. port[s] <= PortEnd
      BY <2>2 DEF InRange
    <3>4. StepsLeft(s) = 10 + ToScan(s) /\ StepsLeft(s)' = 10 + ToScan(s)'
      BY <2>1, <2>2 DEF StepsLeft
    <3>. QED
      BY <1>1, <2>1, <2>2, <3>1, <3>2, <3>3, <3>4, PiecesRange DEF Tidy
  <2>. QED
    BY <1>2, <2>1, <2>2, FailCounts
<1>. QED
  BY <1>3, <1>4, <1>5 DEF Taking

LEMMA WaitCounts ==
    ASSUME TypeOK, NEW s \in Sessions, Tidy(s), Respond(s) \/ WaitHTTP(s) \/ AcceptClosed(s) \/ AcceptError(s)
    PROVE  StepsLeft(s)' \in Int /\ StepsLeft(s)' < StepsLeft(s) /\ Tidy(s)'
<1>1. s \in DOMAIN pc /\ s \in DOMAIN held
  BY DEF TypeOK
<1>2. Deferred(held'[s]) \in 0..5 /\ WatcherOwes(s) \in 0..1 /\ WatcherOwes(s)' \in 0..1
  BY PiecesRange
<1>3. CASE Respond(s)
  <2>1. /\ pc[s] = "respond" /\ req' = req
        /\ \/ pc'[s] = "active" /\ held'[s] = held[s] \cup ({"gauge"} \cup Watcher(s))
           \/ pc'[s] = "unwind" /\ held'[s] = held[s] \cup {"gauge"}
    BY <1>1, <1>3 DEF Respond
  <2>2. StepsLeft(s) = 9
    BY <2>1 DEF StepsLeft
  <2>3. StepsLeft(s)' \in {7 + WatcherOwes(s)', Deferred(held'[s]) + WatcherOwes(s)'}
    BY <2>1 DEF StepsLeft
  <2>4. Tidy(s)'
    BY <2>1 DEF Tidy
  <2>. QED
    BY <1>2, <2>2, <2>3, <2>4
<1>4. CASE WaitHTTP(s) \/ AcceptClosed(s) \/ AcceptError(s)
  <2>1. /\ pc[s] = "active" /\ pc'[s] = "unwind"
        /\ UNCHANGED <<held, req, listener>>
    BY <1>1, <1>4 DEF WaitHTTP, AcceptClosed, AcceptError
  <2>2. WatcherOwes(s)' = WatcherOwes(s)
    BY <2>1 DEF WatcherOwes
  <2>3. StepsLeft(s) = 7 + WatcherOwes(s) /\ StepsLeft(s)' = Deferred(held'[s]) + WatcherOwes(s)'
    BY <2>1 DEF StepsLeft
  <2>4. Tidy(s)'
    BY <2>1 DEF Tidy
  <2>. QED
    BY <1>2, <2>2, <2>3, <2>4
<1>. QED
  BY <1>3, <1>4

LEMMA DropCounts ==
    ASSUME TypeOK, NEW s \in Sessions, NEW r \in {"gauge", "name", "slot", "session"},
           Tidy(s), pc[s] = "unwind", pc' = pc, r \in held[s], held'[s] = held[s] \ {r},
           \A p \in Ports : listener'[p] = s => listener[p] = s
    PROVE  StepsLeft(s)' \in Int /\ StepsLeft(s)' < StepsLeft(s) /\ Tidy(s)'
<1>1. WatcherOwes(s) \in 0..1 /\ WatcherOwes(s)' \in 0..1 /\ WatcherOwes(s)' <= WatcherOwes(s)
  BY DEF WatcherOwes
<1>2. Deferred(held'[s]) = Deferred(held[s]) - 1 /\ Deferred(held[s]) \in 0..5
  BY DEF Deferred
<1>3. /\ StepsLeft(s) = Deferred(held[s]) + WatcherOwes(s)
      /\ StepsLeft(s)' = Deferred(held'[s]) + WatcherOwes(s)'
  BY DEF StepsLeft
<1>. QED
  BY <1>1, <1>2, <1>3 DEF Tidy

LEMMA UnwindCounts ==
    ASSUME TypeOK, NEW s \in Sessions, Tidy(s), Unwind(s)
    PROVE  StepsLeft(s)' \in Int /\ StepsLeft(s)' < StepsLeft(s) /\ Tidy(s)'
<1>1. s \in DOMAIN pc /\ s \in DOMAIN held /\ DOMAIN listener = Ports
  BY DEF TypeOK
<1>2. CASE releaseTunnel(s)
  BY <1>1, <1>2, DropCounts DEF releaseTunnel
<1>3. CASE UnregisterHTTPTunnel(s)
  BY <1>1, <1>3, DropCounts DEF UnregisterHTTPTunnel
<1>4. CASE CloseListener(s)
  <2>1. \A p \in Ports : listener'[p] = s => listener[p] = s
    BY <1>1, <1>4, ControlAssumption DEF CloseListener
  <2>. QED
    BY <1>1, <1>4, <2>1, DropCounts DEF CloseListener
<1>5. CASE ReleaseSlot(s)
  BY <1>1, <1>5, DropCounts DEF ReleaseSlot
<1>6. CASE CloseSession(s)
  BY <1>1, <1>6, DropCounts DEF CloseSession
<1>7. CASE CloseConn(s)
  <2>1. pc[s] = "unwind" /\ "conn" \in held[s] /\ pc'[s] = "idle" /\ held'[s] = {}
    BY <1>1, <1>7 DEF CloseConn
  <2>2. StepsLeft(s)' = 0
    BY <2>1 DEF StepsLeft, StepsFrom
  <2>3. Deferred(held[s]) \in 1..5 /\ WatcherOwes(s) \in 0..1
    BY <2>1 DEF Deferred, WatcherOwes
  <2>4. StepsLeft(s) = Deferred(held[s]) + WatcherOwes(s)
    BY <2>1 DEF StepsLeft
  <2>. QED
    BY <2>1, <2>2, <2>3, <2>4 DEF Tidy
<1>. QED
  BY <1>2, <1>3, <1>4, <1>5, <1>6, <1>7 DEF Unwind

LEMMA WatchCounts ==
    ASSUME TypeOK, ListenerOwned, Placed, NEW s \in Sessions, Tidy(s), WatchTCP(s)
    PROVE  StepsLeft(s)' \in Int /\ StepsLeft(s)' < StepsLeft(s) /\ Tidy(s)'
<1>1. /\ "watcher" \in held[s] /\ listener[port[s]] = s
      /\ listener' = [listener EXCEPT ![port[s]] = NoSession]
      /\ UNCHANGED <<pc, held, req, port>>
  BY DEF WatchTCP
<1>2. WatcherOwes(s)' = 0
  <2>1. \A p \in Ports : listener'[p] # s
    BY <1>1, ControlAssumption DEF TypeOK, ListenerOwned
  <2>. QED
    BY <2>1 DEF WatcherOwes
<1>3. port[s] \in Ports
  BY <1>1 DEF Placed
<1>4. WatcherOwes(s) = 1
  BY <1>1, <1>3 DEF WatcherOwes
<1>5. pc[s] \in {"active", "unwind"}
  BY <1>1 DEF Placed
<1>6. Deferred(held[s]) \in 0..5
  BY PiecesRange
<1>. QED
  BY <1>1, <1>2, <1>4, <1>5, <1>6 DEF StepsLeft, Tidy

(* A step of another session does not touch the handler of q, nor the port  *)
(* it listens on.                                                           *)
Untouched(q) ==
    /\ pc'[q] = pc[q] /\ held'[q] = held[q] /\ req'[q] = req[q] /\ port'[q] = port[q] /\ up'[q] = up[q]
    /\ \A p \in Ports : listener'[p] = q <=> listener[p] = q

LEMMA UntouchedCounts ==
    ASSUME NEW q \in Sessions, Untouched(q), Tidy(q) PROVE StepsLeft(q)' = StepsLeft(q) /\ Tidy(q)'
<1>1. WatcherOwes(q)' = WatcherOwes(q) /\ ToScan(q)' = ToScan(q)
  BY DEF Untouched, WatcherOwes, ToScan
<1>. QED
  BY <1>1 DEF Untouched, StepsLeft, Tidy

LEMMA OthersUntouched ==
    ASSUME TypeOK, NEW s \in Sessions, Quiet(s) \/ Taking(s) \/ Giving(s), NEW q \in Sessions, q # s
    PROVE  Untouched(q)
<1>. USE DEF TypeOK, Untouched
<1>1. CASE AcceptConn(s)
  BY <1>1 DEF AcceptConn
<1>2. CASE RecvRequest(s)
  BY <1>2 DEF RecvRequest
<1>3. CASE Disconnect(s)
  BY <1>3 DEF Disconnect
<1>4. CASE AcceptError(s)
  BY <1>4 DEF AcceptError
<1>5. CASE AcceptStreamFails(s)
  BY <1>5 DEF AcceptStreamFails
<1>6. CASE Validate(s)
  BY <1>6 DEF Validate
<1>7. CASE Resolve(s)
  BY <1>7 DEF Resolve
<1>8. CASE TryAcquire(s)
  BY <1>8 DEF TryAcquire
<1>9. CASE AllowRate(s)
  BY <1>9 DEF AllowRate
<1>10. CASE CheckPort(s)
  BY <1>10 DEF CheckPort
<1>11. CASE ReservePort(s)
  BY <1>11 DEF ReservePort
<1>12. CASE RecheckPort(s)
  BY <1>12 DEF RecheckPort
<1>13. CASE AllocateID(s)
  BY <1>13 DEF AllocateID
<1>14. CASE CheckSubdomain(s)
  BY <1>14 DEF CheckSubdomain
<1>15. CASE ReserveName(s)
  BY <1>15 DEF ReserveName
<1>16. CASE RecheckName(s)
  BY <1>16 DEF RecheckName
<1>17. CASE Respond(s)
  BY <1>17 DEF Respond
<1>18. CASE WaitHTTP(s)
  BY <1>18 DEF WaitHTTP
<1>19. CASE AcceptClosed(s)
  BY <1>19 DEF AcceptClosed
<1>20. CASE releaseTunnel(s)
  BY <1>20 DEF releaseTunnel
<1>21. CASE ReleaseSlot(s)
  BY <1>21 DEF ReleaseSlot
<1>22. CASE CloseSession(s)
  BY <1>22 DEF CloseSession
<1>23. CASE CloseConn(s)
  BY <1>23 DEF CloseConn
<1>24. CASE Register(s)
  BY <1>24 DEF Register, RegisterHTTPTunnel
<1>25. CASE ListenRequested(s)
  BY <1>25, ControlAssumption DEF ListenRequested, Listen
<1>26. CASE ListenScan(s)
  BY <1>26, ControlAssumption DEF ListenScan, Listen
<1>27. CASE UnregisterHTTPTunnel(s)
  BY <1>27 DEF UnregisterHTTPTunnel
<1>28. CASE CloseListener(s)
  BY <1>28, ControlAssumption DEF CloseListener
<1>29. CASE WatchTCP(s)
  BY <1>29, ControlAssumption DEF WatchTCP
<1>. QED
  BY <1>1, <1>2, <1>3, <1>4, <1>5, <1>6, <1>7, <1>8, <1>9, <1>10, <1>11, <1>12,
     <1>13, <1>14, <1>15, <1>16, <1>17, <1>18, <1>19, <1>20, <1>21, <1>22,
     <1>23, <1>24, <1>25, <1>26, <1>27, <1>28, <1>29 DEF Quiet, Taking, Giving

LEMMA GoesStep ==
    ASSUME TypeOK, TypeOK', ListenerOwned, Placed, \A r \in Sessions : Tidy(r), [Next]_vars, NEW s \in Sessions
    PROVE  Goes(s)
<1>. DEFINE Less == StepsLeft(s)' \in Int /\ StepsLeft(s)' < StepsLeft(s) /\ Tidy(s)'
            Closed == pc[s] # "idle" /\ ~up[s] => ~up'[s]
<1>1. StepsLeft(s) \in Int /\ Tidy(s)
  BY StepsLeftRange, PiecesRange
<1>2. ASSUME Less, Closed PROVE Goes(s)
  BY <1>1, <1>2 DEF Goes
<1>3. ASSUME ~Moves(s), pc[s] # "idle" => StepsLeft(s)' = StepsLeft(s), Tidy(s)', Closed PROVE Goes(s)
  BY <1>1, <1>3 DEF Goes
<1>4. CASE Moves(s)
  <2>1. \/ RecvRequest(s) \/ AcceptStreamFails(s) \/ Validate(s) \/ Resolve(s) \/ TryAcquire(s) \/ AllowRate(s)
        \/ CheckPort(s) \/ ReservePort(s) \/ RecheckPort(s)
        \/ AllocateID(s) \/ CheckSubdomain(s) \/ ReserveName(s) \/ RecheckName(s)
        \/ Taking(s)
        \/ Respond(s) \/ WaitHTTP(s) \/ AcceptClosed(s) \/ AcceptError(s)
        \/ Unwind(s) \/ WatchTCP(s)
    BY <1>4 DEF Moves, Handler, Taking
  <2>2. Less
    BY <1>1, <2>1, SetUpCounts, TakingCounts, WaitCounts, UnwindCounts, WatchCounts
  <2>3. up' \in {up, [up EXCEPT ![s] = FALSE]}
    BY <2>1 DEF RecvRequest, AcceptStreamFails, Validate, Resolve, TryAcquire, AllowRate, CheckPort, ReservePort,
           RecheckPort, AllocateID, CheckSubdomain, ReserveName, RecheckName, Taking, Register, ListenRequested,
           ListenScan, Respond, WaitHTTP, AcceptClosed, AcceptError, WatchTCP, Unwind, releaseTunnel,
           UnregisterHTTPTunnel, CloseListener, ReleaseSlot, CloseSession, CloseConn
  <2>. QED
    BY <1>2, <2>2, <2>3 DEF TypeOK
<1>5. ASSUME ~Moves(s), NEW q \in Sessions, q # s, Quiet(q) \/ Taking(q) \/ Giving(q) PROVE Goes(s)
  <2>1. Untouched(s)
    BY <1>5, OthersUntouched
  <2>2. StepsLeft(s)' = StepsLeft(s) /\ Tidy(s)'
    BY <1>1, <2>1, UntouchedCounts
  <2>. QED
    BY <1>3, <1>5, <2>1, <2>2 DEF Untouched
<1>6. ASSUME ~Moves(s), AcceptConn(s) PROVE Goes(s)
  <2>1. pc[s] = "idle" /\ Tidy(s)'
    BY <1>6 DEF AcceptConn, Tidy, TypeOK
  <2>. QED
    BY <1>3, <1>6, <2>1
<1>7. ASSUME ~Moves(s), Disconnect(s) PROVE Goes(s)
  <2>1. UNCHANGED <<pc, held, req, port, listener>> /\ up'[s] = FALSE
    BY <1>7 DEF Disconnect, TypeOK
  <2>2. StepsLeft(s)' = StepsLeft(s) /\ Tidy(s)'
    BY <1>1, <2>1 DEF StepsLeft, WatcherOwes, ToScan, Tidy
  <2>. QED
    BY <1>3, <1>7, <2>1, <2>2
<1>8. ASSUME ~Moves(s), Operator \/ UNCHANGED vars PROVE Goes(s)
  <2>1. UNCHANGED <<pc, held, req, port, listener, up>>
    BY <1>8 DEF Operator, vars
  <2>2. Untouched(s)
    BY <2>1 DEF Untouched
  <2>3. StepsLeft(s)' = StepsLeft(s) /\ Tidy(s)'
    BY <1>1, <2>2, UntouchedCounts
  <2>. QED
    BY <1>3, <1>8, <2>1, <2>3
<1>9. ASSUME ~Moves(s), Restart PROVE Goes(s)
  <2>1. pc'[s] = "idle" /\ up'[s] = FALSE
    BY <1>9 DEF Restart
  <2>2. StepsLeft(s)' = 0 /\ Tidy(s)'
    BY <2>1 DEF StepsLeft, StepsFrom, Tidy
  <2>3. StepsLeft(s) >= 0
    BY StepsLeftRange, PiecesRange
  <2>. QED
    BY <1>9, <2>1, <2>2, <2>3 DEF Goes
<1>10. ASSUME ~Moves(s), Quiet(s) \/ Taking(s) \/ Giving(s) PROVE AcceptConn(s) \/ Disconnect(s)
  BY <1>10 DEF Moves, Handler, Unwind, Quiet, Taking, Giving
<1>. QED
  BY <1>4, <1>5, <1>6, <1>7, <1>8, <1>9, <1>10, NextCases

LEMMA TidyHolds == Spec => [](TypeOK /\ ListenerOwned /\ Placed /\ \A s \in Sessions : Tidy(s))
<1>1. Init => Placed /\ \A s \in Sessions : Tidy(s)
  BY DEF Init, Placed, Tidy
<1>2. TypeOK /\ TypeOK' /\ ListenerOwned /\ Placed /\ (\A s \in Sessions : Tidy(s)) /\ [Next]_vars
        => (\A s \in Sessions : Tidy(s))'
  BY GoesStep DEF Goes
<1>3. ControlInv => TypeOK /\ Shape /\ ListenerOwned
  BY DEF ControlInv, Owned
<1>. QED
  BY <1>1, <1>2, <1>3, PlacedStep, ControlInvHolds, PTL DEF Spec

(* Every step a handler or its watcher takes brings it nearer to its end,   *)
(* at most PortEnd + 19 of them from accept to the last deferred call, the  *)
(* scan of the ports included; nothing that other connections, the operator *)
(* or the client do gives it more to do, and a closed session stays closed. *)
THEOREM HandlersAreBounded ==
    Spec => /\ [](\A s \in Sessions : StepsLeft(s) \in 0..PortEnd + 19)
            /\ [][\A s \in Sessions :
                    /\ Handler(s) \/ WatchTCP(s) => StepsLeft(s)' < StepsLeft(s)
                    /\ pc[s] # "idle" => StepsLeft(s)' <= StepsLeft(s)
                    /\ pc[s] # "idle" /\ ~up[s] => ~up'[s]]_vars
<1>1. TypeOK => \A s \in Sessions : StepsLeft(s) \in 0..PortEnd + 19
  BY StepsLeftRange
<1>2. /\ TypeOK /\ TypeOK' /\ ListenerOwned /\ Placed /\ (\A s \in Sessions : Tidy(s))
      /\ [Next]_vars
      => [\A s \in Sessions :
            /\ Handler(s) \/ WatchTCP(s) => StepsLeft(s)' < StepsLeft(s)
            /\ pc[s] # "idle" => StepsLeft(s)' <= StepsLeft(s)
            /\ pc[s] # "idle" /\ ~up[s] => ~up'[s]]_vars
  BY GoesStep DEF Goes, Moves
<1>. QED
  BY <1>1, <1>2, TidyHolds, PTL DEF Spec

(* What can be done next for a handler whose session is closed.  The steps  *)
(* not listed have an alternative in every state.                           *)
CanGoOn(s) ==
    /\ pc[s] = "active" =>
         \/ IsHTTP(s)                                     \* WaitHTTP
         \/ listener[port[s]] # s                         \* AcceptClosed
         \/ "watcher" \in held[s]                         \* WatchTCP
    /\ pc[s] = "unwind" =>
         \/ Unwinding(s, "gauge", {}) \/ Unwinding(s, "name", {"gauge"})
         \/ Unwinding(s, "slot", {"gauge", "name"})
         \/ Unwinding(s, "session", {"gauge", "name", "slot"})
         \/ Unwinding(s, "conn", {"gauge", "name", "slot", "session"})
    /\ pc[s] = "idle" => held[s] = {}

(* A handler whose session is closed is never stuck: somebody notices that  *)
(* it is, a deferred call is always next while it returns, and it has given *)
(* back everything when it has ended.  With HandlersAreBounded this is what *)
(* ClosedSessionReleases needs besides fairness.                            *)
THEOREM ClosedSessionsGoOn == Spec => [](\A s \in Sessions : ~up[s] => CanGoOn(s))
<1>1. ControlInv /\ (\A s \in Sessions : Tidy(s)) => \A s \in Sessions : ~up[s] => CanGoOn(s)
  BY DEF ControlInv, Shape, HandlerShape, Tidy, CanGoOn
<1>. QED
  BY <1>1, ControlInvHolds, TidyHolds, PTL
================================================================================
