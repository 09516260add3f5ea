--------------------------- MODULE ClientTunnelProofs --------------------------
(****************************************************************************)
(* Proofs about the life of a client tunnel, for any number of sessions and *)
(* public identities: its safety properties, and that its steps are steps   *)
(* of TunnelLife.                                                           *)
(****************************************************************************)
EXTENDS ClientTunnel, FiniteSetTheorems, TLAPS

USE DEF Goto, Started, Stopping, Finish, connVars, closeVars

(* Where a session can be open, by the step the main goroutine is at: the   *)
(* one it dialled, the one it accepts from, or none.                        *)
Dialling == pc \in {"request", "created", "setConn"}
Serving == pc \in {"loop", "accept", "closeOld"}
OpenWhere ==
    /\ Dialling => open \subseteq {new}
    /\ Serving => open \subseteq {cur}
    /\ ~Dialling /\ ~Serving => open = {}

(* What the references to sessions hold.                                    *)
References ==
    /\ Dialling => new \in Handles /\ new \notin {cur, acc}
    /\ pc = "closeOld" => new \notin open
    /\ ~Dialling /\ pc # "closeOld" => new = None
    /\ pc = "accept" => acc = cur
    /\ pc = "created" => ident[new] \in Publics
    /\ pc = "setConn" => ident[new] = public
    /\ snap # None => closer = "snapped"

(* Inside Start nothing is visible yet: no session, no Close, no result.    *)
Phases ==
    /\ phase = "start" =>
         /\ pc \in {"dial", "dialWait", "request", "created", "startFailed"}
         /\ cur = None /\ acc = None /\ snap = None
         /\ closing = FALSE /\ closer = "idle" /\ done = "none"
    /\ phase = "run" => cur # None /\ pc # "startFailed" /\ public \in Publics
    /\ closer # "idle" => closing
    /\ closing => closer # "idle"
    /\ done = "none" <=> pc # "finished"

TunnelInv ==
    /\ TypeOK /\ OpenWhere /\ References /\ Phases
    /\ ServesItsPublicName /\ EndIsExplained

LEMMA InitInv == Init => TunnelInv
  BY ClientAssumption DEF Init, TunnelInv, TypeOK, OpenWhere, References, Phases, Dialling, Serving,
     ServesItsPublicName, EndIsExplained, Steps

LEMMA StepInv == TunnelInv /\ [Next]_vars => TunnelInv'
<1>. SUFFICES ASSUME TunnelInv, [Next]_vars PROVE TunnelInv'
  OBVIOUS
<1>. USE ClientAssumption DEF TunnelInv, TypeOK, OpenWhere, References, Phases, Dialling, Serving,
                              ServesItsPublicName, EndIsExplained, Steps
<1>1. CASE DialSucceeds
  <2>1. PICK h \in Unused : /\ new' = h /\ open' = open \cup {h}
                           /\ ident' = [ident EXCEPT ![h] = None]
    BY <1>1 DEF DialSucceeds
  <2>2. h \in Handles /\ h \notin {cur, acc, new, snap}
    BY DEF Unused
  <2>3. TypeOK'
    BY <1>1, <2>1, <2>2 DEF DialSucceeds
  <2>. QED
    BY <1>1, <2>1, <2>2, <2>3 DEF DialSucceeds
<1>2. CASE DialFails
  BY <1>2 DEF DialFails, ReturnError
<1>3. CASE DialTimer
  BY <1>3 DEF DialTimer, ReturnError
<1>4. CASE ServerAccepts
  BY <1>4 DEF ServerAccepts
<1>5. CASE RequestFails
  BY <1>5 DEF RequestFails, ReturnError, Refusals, isRetryableControlError
<1>6. CASE StartReturns
  <2>1. TypeOK'
    BY <1>6 DEF StartReturns
  <2>2. OpenWhere' /\ References'
    BY <1>6 DEF StartReturns
  <2>3. Phases' /\ ServesItsPublicName' /\ EndIsExplained'
    BY <1>6 DEF StartReturns
  <2>. QED
    BY <2>1, <2>2, <2>3
<1>7. CASE TakeSession
  <2>1. TypeOK'
    BY <1>7 DEF TakeSession
  <2>2. OpenWhere' /\ References'
    BY <1>7 DEF TakeSession
  <2>3. Phases' /\ EndIsExplained'
    BY <1>7 DEF TakeSession
  <2>4. ServesItsPublicName'
    BY <1>7 DEF TakeSession
  <2>. QED
    BY <2>1, <2>2, <2>3, <2>4
<1>8. CASE AcceptFails
  BY <1>8 DEF AcceptFails
<1>9. CASE AfterDrop
  BY <1>9 DEF AfterDrop
<1>10. CASE ReconnectTop
  BY <1>10 DEF ReconnectTop
<1>11. CASE ReconnectCreated
  BY <1>11 DEF ReconnectCreated
<1>12. CASE SetConn
  <2>1. cur \in Handles /\ new \in Handles /\ open \subseteq {new} /\ cur # new
    BY <1>12 DEF SetConn
  <2>2. TypeOK'
    BY <1>12, <2>1 DEF SetConn
  <2>3. OpenWhere' /\ References'
    BY <1>12, <2>1 DEF SetConn
  <2>. QED
    BY <1>12, <2>1, <2>2, <2>3 DEF SetConn
<1>13. CASE CloseOld
  BY <1>13 DEF CloseOld
<1>14. CASE Backoff
  BY <1>14 DEF Backoff
<1>15. CASE CloseFlag(TRUE) \/ CloseFlag(FALSE)
  BY <1>15 DEF CloseFlag
<1>16. CASE CloseSnapshot
  BY <1>16 DEF CloseSnapshot
<1>17. CASE CloseConn
  BY <1>17 DEF CloseConn
<1>18. CASE CtxCancel
  BY <1>18 DEF CtxCancel
<1>19. CASE ServerNotices
  <2>1. TypeOK'
    BY <1>19 DEF ServerNotices
  <2>2. OpenWhere' /\ References'
    BY <1>19 DEF ServerNotices
  <2>3. Phases' /\ ServesItsPublicName' /\ EndIsExplained'
    BY <1>19 DEF ServerNotices
  <2>. QED
    BY <2>1, <2>2, <2>3
<1>20. CASE \E h \in Handles : SessionEnds(h)
  <2>1. TypeOK'
    BY <1>20 DEF SessionEnds
  <2>2. OpenWhere' /\ References'
    BY <1>20 DEF SessionEnds
  <2>3. Phases' /\ ServesItsPublicName' /\ EndIsExplained'
    BY <1>20 DEF SessionEnds
  <2>. QED
    BY <2>1, <2>2, <2>3
<1>21. CASE UNCHANGED vars
  BY <1>21 DEF vars
<1>. QED
  BY <1>1, <1>2, <1>3, <1>4, <1>5, <1>6, <1>7, <1>8, <1>9, <1>10, <1>11, <1>12, <1>13, <1>14,
     <1>15, <1>16, <1>17, <1>18, <1>19, <1>20, <1>21 DEF Next, Main, Closer

LEMMA TunnelInvHolds == Spec => []TunnelInv
  BY InitInv, StepInv, PTL DEF Spec

----------------------------------------------------------------------------
(* The variables keep their types; for done this says that a port that is   *)
(* taken never ends a TCP tunnel and the limits of the server never end any *)
(* (isRetryableControlError).                                               *)
THEOREM TunnelTypes == Spec => []TypeOK
  BY TunnelInvHolds, PTL DEF TunnelInv

(* A tunnel serves under the identity its user was shown, through any       *)
(* number of reconnects (the resume check of reconnect).                    *)
THEOREM PublicNameIsKept == Spec => []ServesItsPublicName
  BY TunnelInvHolds, PTL DEF TunnelInv

(* What Wait returns is true (acceptStreams and reconnect test closing and  *)
(* the context after every blocking call).                                  *)
THEOREM EndsAreExplained == Spec => []EndIsExplained
  BY TunnelInvHolds, PTL DEF TunnelInv

(* Two sessions of one tunnel are never open together.                      *)
THEOREM SessionsDoNotOverlap == Spec => []OneOpenSession
<1>1. TunnelInv => OneOpenSession
  <2>. SUFFICES ASSUME TunnelInv PROVE Cardinality(open) <= 1
    BY DEF OneOpenSession
  <2>1. PICK h : open \subseteq {h}
    BY DEF TunnelInv, OpenWhere
  <2>2. Cardinality({h}) = 1 /\ IsFiniteSet({h})
    BY FS_Singleton
  <2>3. open = {} \/ open = {h}
    BY <2>1
  <2>4. Cardinality({}) = 0
    BY FS_EmptySet
  <2>. QED
    BY <2>2, <2>3, <2>4
<1>. QED
  BY <1>1, TunnelInvHolds, PTL

(* A tunnel that has ended, by whichever path of reconnect, leaves no       *)
(* session open.                                                            *)
THEOREM EndedLeavesNothing == Spec => []FinishedLeavesNothing
<1>1. TunnelInv => FinishedLeavesNothing
  BY DEF TunnelInv, OpenWhere, Dialling, Serving, FinishedLeavesNothing
<1>. QED
  BY <1>1, TunnelInvHolds, PTL

----------------------------------------------------------------------------
(* The refinement.  What each kind of step of the abstract tunnel needs.    *)

Same == UNCHANGED <<Stage, closing, Outcome, ctxDone>>
Moved == [Life!Next]_<<tunnel, ctxDone>>

LEMMA ToldRecord ==
    ASSUME NEW l, NEW t, NEW d, NEW r, NEW x, NEW s, NEW u,
           s = [life |-> l, told |-> t, deaf |-> d, result |-> r],
           u = [life |-> l, told |-> x, deaf |-> d, result |-> r]
    PROVE  u = [s EXCEPT !.told = x]
  OBVIOUS

LEMMA DeafRecord ==
    ASSUME NEW l, NEW t, NEW d, NEW r, NEW x, NEW s, NEW u,
           s = [life |-> l, told |-> t, deaf |-> d, result |-> r],
           u = [life |-> l, told |-> t, deaf |-> x, result |-> r]
    PROVE  u = [s EXCEPT !.deaf = x]
  OBVIOUS

LEMMA Now == /\ tunnel = [life |-> Stage, told |-> closing, deaf |-> Deaf, result |-> Outcome]
             /\ tunnel' = [life |-> Stage', told |-> closing', deaf |-> Deaf', result |-> Outcome']
  BY DEF tunnel

LEMMA Quiet ==
    ASSUME Same, Deaf \in BOOLEAN, Deaf' \in BOOLEAN, closing \in BOOLEAN,
           Deaf' # Deaf => Stage = "up" /\ closing
    PROVE  Moved
<1>1. CASE Deaf' = Deaf
  BY <1>1 DEF Same, Moved, tunnel
<1>2. CASE Deaf' # Deaf
  <2>1. tunnel' = [tunnel EXCEPT !.deaf = ~tunnel.deaf]
    <3>1. Deaf' = ~Deaf
      BY <1>2
    <3>2. tunnel' = [life |-> Stage, told |-> closing, deaf |-> Deaf', result |-> Outcome]
      BY Now DEF Same
    <3>3. tunnel' = [tunnel EXCEPT !.deaf = Deaf']
      BY <3>2, DeafRecord, Now
    <3>4. tunnel.deaf = Deaf
      BY Now, Zenon DEF tunnel
    <3>. QED
      BY <3>1, <3>3, <3>4, Zenon
  <2>2. tunnel.life = "up" /\ tunnel.told
    BY <1>2 DEF tunnel
  <2>3. tunnel' \in Life!DeafMoves(tunnel)
    BY <2>1, <2>2 DEF Life!DeafMoves
  <2>. QED
    BY <2>3 DEF Moved, Life!Next, Same
<1>. QED
  BY <1>1, <1>2

LEMMA Starts ==
    ASSUME Stage = "starting", Stage' \in {"up", "failed"},
           UNCHANGED <<closing, Deaf, Outcome, ctxDone>>
    PROVE  Moved
<1>1. tunnel' = [tunnel EXCEPT !.life = Stage'] /\ tunnel.life = "starting"
  BY DEF tunnel
<1>2. tunnel' \in Life!StartMoves(tunnel)
  BY <1>1 DEF Life!StartMoves
<1>. QED
  BY <1>2 DEF Moved, Life!Next

LEMMA Ends ==
    ASSUME Stage = "up", Stage' = "ended", UNCHANGED <<closing, ctxDone>>, Deaf' = FALSE,
                                                       closing \in BOOLEAN,
           \/ Outcome' = "err"
           \/ Outcome' = "nil" /\ closing
           \/ Outcome' = "ctx" /\ ctxDone
    PROVE  Moved
<1>1. /\ tunnel' = [life |-> "ended", told |-> closing, deaf |-> FALSE, result |-> Outcome']
      /\ tunnel.life = "up" /\ tunnel.told = closing
  BY Now, Zenon DEF tunnel
<1>2. Outcome' \in {x \in Life!Results \ {"none"} : tunnel.life = "up" /\ Life!MayEnd(tunnel, ctxDone, x)}
  BY <1>1 DEF Life!Results, Life!MayEnd
<1>3. tunnel' \in Life!EndMoves(tunnel, ctxDone)
  BY <1>1, <1>2 DEF Life!EndMoves
<1>. QED
  BY <1>3 DEF Moved, Life!Next

LEMMA ToldChange ==
    ASSUME UNCHANGED <<Stage, Deaf, Outcome>>
    PROVE  tunnel' = [tunnel EXCEPT !.told = closing']
<1>1. tunnel' = [life |-> Stage, told |-> closing', deaf |-> Deaf, result |-> Outcome]
  BY Now
<1>. QED
  BY <1>1, ToldRecord, Now

LEMMA Closes ==
    ASSUME Stage \in {"up", "ended"}, closing' = TRUE, UNCHANGED <<Stage, Deaf, Outcome, ctxDone>>
    PROVE  Moved
<1>1. tunnel' = [tunnel EXCEPT !.told = TRUE] /\ tunnel.life = Stage
  BY ToldChange, Zenon DEF tunnel
<1>2. tunnel' \in Life!ToldMoves(tunnel)
  BY <1>1 DEF Life!ToldMoves, Life!Told
<1>. QED
  BY <1>2 DEF Moved, Life!Next

LEMMA LifeStep == TunnelInv /\ TunnelInv' /\ [Next]_vars => Moved
<1>. SUFFICES ASSUME TunnelInv, TunnelInv', [Next]_vars PROVE Moved
  OBVIOUS
<1>. USE DEF TunnelInv, TypeOK, OpenWhere, References, Phases, Dialling, Serving, EndIsExplained, Steps
<1>1. Deaf \in BOOLEAN /\ Deaf' \in BOOLEAN /\ closing \in BOOLEAN
  BY DEF Deaf
<1>2. CASE CtxCancel
  <2>1. UNCHANGED <<Stage, Deaf, closing, Outcome>>
    BY <1>2 DEF CtxCancel, Stage, Deaf, Outcome
  <2>. QED
    BY <1>2, <2>1, Now DEF CtxCancel, Moved, Life!Next
<1>3. CASE CloseFlag(TRUE) \/ CloseFlag(FALSE)
  <2>1. UNCHANGED <<Stage, Outcome, Deaf, ctxDone>>
    BY <1>3 DEF CloseFlag, Stage, Deaf, Outcome
  <2>2. Stage \in {"up", "ended"} /\ closing' = TRUE
    BY <1>3 DEF CloseFlag, Stage
  <2>. QED
    BY <2>1, <2>2, Closes
<1>4. CASE UNCHANGED <<closing, ctxDone>> /\ pc' = "finished" /\ pc # "finished" /\ phase =
                       "run" /\ phase' = "run"
  <2>1. Stage = "up" /\ Stage' = "ended" /\ Deaf' = FALSE
    BY <1>4 DEF Stage, Deaf
  <2>2. \/ Outcome' = "err"
        \/ Outcome' = "nil" /\ closing
        \/ Outcome' = "ctx" /\ ctxDone
    BY <1>4 DEF Outcome
  <2>. QED
    BY <1>1, <1>4, <2>1, <2>2, Ends
<1>5. CASE /\ UNCHANGED <<closing, closer, ctxDone, done>>
           /\ phase = "start" /\ pc # "startFailed"
           /\ phase' = "run" \/ pc' = "startFailed"
  <2>1. Stage = "starting" /\ Stage' \in {"up", "failed"} /\ UNCHANGED <<Deaf, Outcome>>
    BY <1>5 DEF Stage, Deaf, Outcome
  <2>. QED
    BY <1>5, <2>1, Starts
<1>6. CASE /\ UNCHANGED <<closing, ctxDone, done, phase>>
           /\ pc = "startFailed" <=> pc' = "startFailed"
           /\ closer' = closer \/ closer # "idle"
  <2>1. Same
    BY <1>6 DEF Same, Stage, Outcome
  <2>2. Deaf' # Deaf => Stage = "up" /\ closing
    BY <1>6 DEF Deaf, Stage
  <2>. QED
    BY <1>1, <2>1, <2>2, Quiet
<1>7. CASE DialSucceeds
  BY <1>7, <1>6 DEF DialSucceeds
<1>8. CASE DialFails
  BY <1>8, <1>4, <1>5, <1>6 DEF DialFails, ReturnError
<1>9. CASE DialTimer
  BY <1>9, <1>4, <1>5, <1>6 DEF DialTimer, ReturnError
<1>10. CASE ServerAccepts
  BY <1>10, <1>6 DEF ServerAccepts
<1>11. CASE RequestFails
  BY <1>11, <1>4, <1>5, <1>6 DEF RequestFails, ReturnError
<1>12. CASE StartReturns
  BY <1>12, <1>5 DEF StartReturns
<1>13. CASE TakeSession
  BY <1>13, <1>6 DEF TakeSession
<1>14. CASE AcceptFails
  BY <1>14, <1>6 DEF AcceptFails
<1>15. CASE AfterDrop
  BY <1>15, <1>4, <1>6 DEF AfterDrop
<1>16. CASE ReconnectTop
  BY <1>16, <1>4, <1>6 DEF ReconnectTop
<1>17. CASE ReconnectCreated
  BY <1>17, <1>4, <1>6 DEF ReconnectCreated
<1>18. CASE SetConn
  BY <1>18, <1>6 DEF SetConn
<1>19. CASE CloseOld
  BY <1>19, <1>6 DEF CloseOld
<1>20. CASE Backoff
  BY <1>20, <1>4, <1>6 DEF Backoff
<1>21. CASE CloseSnapshot
  BY <1>21, <1>6 DEF CloseSnapshot
<1>22. CASE CloseConn
  BY <1>22, <1>6 DEF CloseConn
<1>23. CASE ServerNotices
  BY <1>23, <1>6 DEF ServerNotices
<1>24. CASE \E h \in Handles : SessionEnds(h)
  BY <1>24, <1>6 DEF SessionEnds
<1>25. CASE UNCHANGED vars
  BY <1>25, <1>6 DEF vars
<1>. QED
  BY <1>2, <1>3, <1>7, <1>8, <1>9, <1>10, <1>11, <1>12, <1>13, <1>14, <1>15, <1>16, <1>17,
     <1>18, <1>19, <1>20, <1>21, <1>22, <1>23, <1>24, <1>25 DEF Next, Main, Closer

(* Every step of a client tunnel is one TunnelLife allows, or none at all:  *)
(* the commands of internal/cli see nothing but Start return, Close set the *)
(* flag, and Wait end with a reason that is true (http.go, tcp.go).         *)
THEOREM TunnelLifeIsKept == Spec => Life!Safe
<1>1. Init => Life!Init
  BY DEF Init, Life!Init, Life!New, tunnel, Stage, Deaf, Outcome
<1>2. TunnelInv /\ TunnelInv' /\ [Next]_vars => [Life!Next]_<<tunnel, ctxDone>>
  BY LifeStep DEF Moved
<1>. QED
  BY <1>1, <1>2, TunnelInvHolds, PTL DEF Spec, Life!Safe
================================================================================
