------------------------------- MODULE TunnelLife ------------------------------
(****************************************************************************)
(* What a client tunnel promises the commands that start it                 *)
(* (internal/cli): Start returns a tunnel or an error, Close may be called  *)
(* on it, and Wait returns once, with the reason it ended.  ClientTunnel    *)
(* implements this; ClientProcess builds on it.                             *)
(*                                                                          *)
(* A tunnel is one record, so that a command can hold several.              *)
(****************************************************************************)
VARIABLES tun, ctxDone

Lives == {"starting", "failed", "up", "ended"}
Results == {"none", "nil", "ctx", "err"}
States == [life : Lives, told : BOOLEAN, deaf : BOOLEAN, result : Results]

New == [life |-> "starting", told |-> FALSE, deaf |-> FALSE, result |-> "none"]

(* Start...TunnelWithOptions returns.                                       *)
StartMoves(s) == {[s EXCEPT !.life = l] : l \in IF s.life = "starting" THEN {"up", "failed"} ELSE {}}

(* Close returns; a second call changes nothing.                            *)
Told(s) == [s EXCEPT !.told = TRUE]
ToldMoves(s) == IF s.life \in {"up", "ended"} THEN {Told(s)} ELSE {}

(* Wait has a result.  nil is for a tunnel that was told to close, the      *)
(* error of the context for one whose context is done.                      *)
MayEnd(s, c, r) == r = "err" \/ (r = "nil" /\ s.told) \/ (r = "ctx" /\ c)
EndMoves(s, c) ==
    {[life |-> "ended", told |-> s.told, deaf |-> FALSE, result |-> r] :
        r \in {x \in Results \ {"none"} : s.life = "up" /\ MayEnd(s, c, x)}}

(* A tunnel that was told to close while it reconnected may serve on, until *)
(* its new session is lost.                                                 *)
DeafMoves(s) == IF s.life = "up" /\ s.told THEN {[s EXCEPT !.deaf = ~s.deaf]} ELSE {}

Next ==
    \/ /\ tun' \in StartMoves(tun) \cup ToldMoves(tun) \cup EndMoves(tun, ctxDone) \cup DeafMoves(tun)
       /\ ctxDone' = ctxDone
    \/ ~ctxDone /\ ctxDone' = TRUE /\ tun' = tun

Init == tun = New /\ ctxDone = FALSE

Over == tun.life \in {"failed", "ended"}

(* Cancelling the context ends Start or Wait; a tunnel that was told to     *)
(* close ends, if it is not deaf.                                           *)
CancelEnds == ctxDone ~> Over
CloseIsHeard == tun.told ~> Over \/ tun.deaf

Safe == Init /\ [][Next]_<<tun, ctxDone>>
Spec == Safe /\ CancelEnds /\ CloseIsHeard
================================================================================
