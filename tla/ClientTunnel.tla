----------------------------- MODULE ClientTunnel ------------------------------
(****************************************************************************)
(* The life of one client tunnel (internal/client: tcp.go, http.go,         *)
(* control.go): Start, the accept loop with its reconnects, Close and Wait. *)
(* TCPTunnel and HTTPTunnel have the same structure; they differ in the     *)
(* errors they retry and in what identifies a resumed tunnel.               *)
(*                                                                          *)
(* Three activities share the tunnel: the goroutine that starts the tunnel  *)
(* and runs acceptStreams, whoever calls Close, and the context.  The       *)
(* server and the network are the environment.                              *)
(****************************************************************************)
EXTENDS Naturals, FiniteSets

CONSTANTS
    Handles,    \* yamux sessions of the client; one is reused once no
                \* variable refers to it any more
    Publics,    \* public identities: the remote port, or the id and URL
    None

ASSUME ClientAssumption ==
    /\ IsFiniteSet(Handles)
    /\ None \notin Handles \cup Publics

VARIABLES
    kind,       \* "tcp" or "http"
    pc,         \* next step of the main goroutine
    phase,      \* "start" inside Start...Tunnel, "run" in acceptStreams
    cur,        \* t.session (and t.ws), None before Start returns
    acc,        \* the session acceptStreams is waiting on
    new,        \* the session a create...Tunnel call has dialled
    open,       \* sessions that are not closed
    ident,      \* session -> public identity the server answered with
    public,     \* t.RemotePort, or t.ID and t.URL
    closing,    \* t.closing
    closer,     \* progress of the body of closeOnce
    snap,       \* the session Close took from conn()
    ctxDone,    \* ctx.Err() # nil
    ghost,      \* the server still holds the registration of a lost session
    done        \* what finish has sent: "none", "nil", "ctx" or an error

closeVars == <<closing, closer, snap>>
connVars == <<cur, acc, new, open, ident, public>>
vars == <<kind, pc, phase, connVars, closeVars, ctxDone, ghost, done>>

Steps == {"dial", "dialWait", "request", "created", "setConn", "closeOld",
          "loop", "accept", "dropped", "reconnect", "backoff",
          "finished", "startFailed"}

Init ==
    /\ kind \in {"tcp", "http"}
    /\ pc = "dial" /\ phase = "start"
    /\ cur = None /\ acc = None /\ new = None
    /\ open = {}
    /\ ident = [h \in Handles |-> None]
    /\ public = None
    /\ closing = FALSE /\ closer = "idle" /\ snap = None
    /\ ctxDone = FALSE /\ ghost = FALSE
    /\ done = "none"

Goto(l) == pc' = l
Started == phase = "run"
Stopping == closing \/ ctxDone

(* acceptStreams returns, after finish(err); Wait returns err.              *)
Finish(err) == pc' = "finished" /\ done' = err

(* An error returned by create...Tunnel: Start returns it; reconnect        *)
(* returns it to acceptStreams, which finishes.                             *)
ReturnError(err) ==
    IF Started THEN Finish(err) ELSE Goto("startFailed") /\ UNCHANGED done

Unused == {h \in Handles : h \notin open \cup {cur, acc, new, snap}}

----------------------------------------------------------------------------
(* dialControlWithRetry: retries for ever, doubling a delay; only the       *)
(* context stops it.  The delay ends with its timer or with the context,    *)
(* whichever the select picks.                                              *)

DialSucceeds ==
    /\ pc = "dial" /\ ~ctxDone
    /\ \E h \in Unused : /\ new' = h
                         /\ open' = open \cup {h}
                         /\ ident' = [ident EXCEPT ![h] = None]
    /\ Goto("request")
    /\ UNCHANGED <<kind, phase, cur, acc, public, closeVars, ctxDone, ghost, done>>

DialFails ==
    /\ pc = "dial"
    /\ IF ctxDone THEN ReturnError("ctx") ELSE Goto("dialWait") /\ UNCHANGED done
    /\ UNCHANGED <<kind, phase, connVars, closeVars, ctxDone, ghost>>

DialTimer ==
    /\ pc = "dialWait"
    /\ (ctxDone /\ ReturnError("ctx")) \/ (Goto("dial") /\ UNCHANGED done)
    /\ UNCHANGED <<kind, phase, connVars, closeVars, ctxDone, ghost>>

----------------------------------------------------------------------------
(* createTCPTunnel, createHTTPTunnel: the request and its response.         *)

(* "busy": "requested port unavailable" for TCP, "failed to register        *)
(* tunnel" for HTTP; "limited": "too many active tunnels" and "rate limit   *)
(* exceeded"; "refused": every other error of the server, and a response    *)
(* that cannot be read.                                                     *)
Refusals == {"busy", "limited", "refused"}

(* Mutant: a port that is taken ends a tunnel.                              *)
isRetryableControlErrorAlike(k, e) == e = "limited"

isRetryableControlError(k, e) == e = "limited" \/ (k = "tcp" /\ e = "busy")

(* A resume asks for the port or name the tunnel has; it is taken while the *)
(* server holds the registration of the lost session.                       *)
ServerAccepts ==
    /\ pc = "request" /\ new \in open
    /\ \E p \in Publics : /\ ~(ghost /\ p = public)
                          /\ ident' = [ident EXCEPT ![new] = p]
    /\ Goto("created")
    /\ UNCHANGED <<kind, phase, cur, acc, new, open, public, closeVars, ctxDone, ghost, done>>

(* Mutant: the session of a failed request is not closed.                   *)
RequestFailsKeepsSession ==
    /\ pc = "request"
    /\ new' = None
    /\ \E e \in Refusals :
         IF Started /\ isRetryableControlError(kind, e)
         THEN Goto("backoff") /\ UNCHANGED done
         ELSE ReturnError(e)
    /\ UNCHANGED <<kind, phase, cur, acc, open, ident, public, closeVars, ctxDone, ghost>>

(* The session is closed; during reconnect a transient error is retried     *)
(* after a delay.                                                           *)
RequestFails ==
    /\ pc = "request"
    /\ open' = open \ {new} /\ new' = None
    /\ \E e \in Refusals :
         IF Started /\ isRetryableControlError(kind, e)
         THEN Goto("backoff") /\ UNCHANGED done
         ELSE ReturnError(e)
    /\ UNCHANGED <<kind, phase, cur, acc, ident, public, closeVars, ctxDone, ghost>>

----------------------------------------------------------------------------
(* Start...TunnelWithOptions builds the tunnel and starts its goroutines.   *)
StartReturns ==
    /\ pc = "created" /\ ~Started
    /\ phase' = "run"
    /\ public' = ident[new]
    /\ cur' = new /\ new' = None
    /\ Goto("loop")
    /\ UNCHANGED <<kind, acc, open, ident, closeVars, ctxDone, ghost, done>>

(* acceptStreams: currentSession, then AcceptStream until it fails.  The    *)
(* streams it accepts are handled in goroutines of their own.               *)
TakeSession ==
    /\ pc = "loop"
    /\ acc' = cur
    /\ Goto("accept")
    /\ UNCHANGED <<kind, phase, cur, new, open, ident, public, closeVars, ctxDone, ghost, done>>

AcceptFails ==
    /\ pc = "accept" /\ acc \notin open
    /\ Goto("dropped")
    /\ UNCHANGED <<kind, phase, connVars, closeVars, ctxDone, ghost, done>>

(* Mutants: a lost session counts as an orderly end; a tunnel that is to    *)
(* stop goes round the accept loop instead of returning.                    *)
AfterDropEnds ==
    /\ pc = "dropped"
    /\ Finish(IF ctxDone THEN "ctx" ELSE "nil")
    /\ UNCHANGED <<kind, phase, connVars, closeVars, ctxDone, ghost>>
AfterDropContinues ==
    /\ pc = "dropped"
    /\ IF Stopping THEN Goto("loop") ELSE Goto("reconnect")
    /\ UNCHANGED <<kind, phase, connVars, closeVars, ctxDone, ghost, done>>

AfterDrop ==
    /\ pc = "dropped"
    /\ IF Stopping THEN Finish(IF ctxDone THEN "ctx" ELSE "nil")
                   ELSE Goto("reconnect") /\ UNCHANGED done
    /\ UNCHANGED <<kind, phase, connVars, closeVars, ctxDone, ghost>>

----------------------------------------------------------------------------
(* reconnect: the test of closing at the top of its loop; a tunnel that is  *)
(* closing goes back to acceptStreams, which finds its session closed.      *)
ReconnectTop ==
    /\ pc = "reconnect"
    /\ \/ ctxDone /\ Finish("ctx")
       \/ ~ctxDone /\ closing /\ Goto("loop") /\ UNCHANGED done
       \/ ~Stopping /\ Goto("dial") /\ UNCHANGED done
    /\ UNCHANGED <<kind, phase, connVars, closeVars, ctxDone, ghost>>

(* Mutants: no comparison of the identities; the session of a resume that   *)
(* is given up is not closed.                                               *)
ReconnectCreatedAnywhere ==
    /\ pc = "created" /\ Started
    /\ \/ /\ Stopping
          /\ open' = open \ {new} /\ new' = None
          /\ IF ctxDone THEN Finish("ctx") ELSE Goto("loop") /\ UNCHANGED done
       \/ ~Stopping /\ Goto("setConn") /\ UNCHANGED <<open, new, done>>
    /\ UNCHANGED <<kind, phase, cur, acc, ident, public, closeVars, ctxDone, ghost>>
ReconnectCreatedLeaks ==
    /\ pc = "created" /\ Started
    /\ \/ /\ Stopping /\ new' = None
          /\ IF ctxDone THEN Finish("ctx") ELSE Goto("loop") /\ UNCHANGED done
       \/ ~Stopping /\ ident[new] # public /\ new' = None /\ Finish("mismatch")
       \/ ~Stopping /\ ident[new] = public /\ Goto("setConn") /\ UNCHANGED <<new, done>>
    /\ UNCHANGED <<kind, phase, cur, acc, open, ident, public, closeVars, ctxDone, ghost>>

(* A second test once the server has accepted, and the resume check.        *)
ReconnectCreated ==
    /\ pc = "created" /\ Started
    /\ \/ /\ Stopping
          /\ open' = open \ {new} /\ new' = None
          /\ IF ctxDone THEN Finish("ctx") ELSE Goto("loop") /\ UNCHANGED done
       \/ /\ ~Stopping /\ ident[new] # public
          /\ open' = open \ {new} /\ new' = None
          /\ Finish("mismatch")
       \/ /\ ~Stopping /\ ident[new] = public
          /\ Goto("setConn") /\ UNCHANGED <<open, new, done>>
    /\ UNCHANGED <<kind, phase, cur, acc, ident, public, closeVars, ctxDone, ghost>>

(* setConn swaps the sessions; the old one stays in new until closeOld.     *)
SetConn ==
    /\ pc = "setConn"
    /\ cur' = new /\ new' = cur
    /\ Goto("closeOld")
    /\ UNCHANGED <<kind, phase, acc, open, ident, public, closeVars, ctxDone, ghost, done>>

CloseOld ==
    /\ pc = "closeOld"
    /\ open' = open \ {new} /\ new' = None
    /\ Goto("loop")
    /\ UNCHANGED <<kind, phase, cur, acc, ident, public, closeVars, ctxDone, ghost, done>>

Backoff ==
    /\ pc = "backoff"
    /\ (ctxDone /\ Finish("ctx")) \/ (Goto("reconnect") /\ UNCHANGED done)
    /\ UNCHANGED <<kind, phase, connVars, closeVars, ctxDone, ghost>>

----------------------------------------------------------------------------
(* Close, by its user or by the goroutine that waits for the context.  The  *)
(* body of closeOnce runs once; later calls do nothing.                     *)

CloseFlag(byCtx) ==
    /\ Started /\ closer = "idle"
    /\ byCtx => ctxDone
    /\ closing' = TRUE /\ closer' = "flagged"
    /\ UNCHANGED <<kind, pc, phase, connVars, snap, ctxDone, ghost, done>>

CloseSnapshot ==
    /\ closer = "flagged"
    /\ snap' = cur /\ closer' = "snapped"
    /\ UNCHANGED <<kind, pc, phase, connVars, closing, ctxDone, ghost, done>>

CloseConn ==
    /\ closer = "snapped"
    /\ open' = open \ {snap} /\ snap' = None /\ closer' = "done"
    /\ UNCHANGED <<kind, pc, phase, cur, acc, new, ident, public, closing, ctxDone, ghost, done>>

----------------------------------------------------------------------------
(* The environment: the caller cancels the context, the server or the       *)
(* network ends a session.  A session runs on websocket.NetConn(ctx, ...),  *)
(* so it does not outlive the context.                                      *)

CtxCancel ==
    /\ ~ctxDone /\ ctxDone' = TRUE
    /\ UNCHANGED <<kind, pc, phase, connVars, closeVars, ghost, done>>

(* The server learns of it at once, or goes on holding the registration.    *)
SessionEnds(h) ==
    /\ h \in open
    /\ open' = open \ {h}
    /\ ghost' \in {ghost, TRUE}
    /\ UNCHANGED <<kind, pc, phase, cur, acc, new, ident, public, closeVars, ctxDone, done>>

(* The keepalive of the server's session fails, or a write: its handler     *)
(* gives everything back (ClosedSessionReleases in ControlPlane).           *)
ServerNotices ==
    /\ ghost /\ ghost' = FALSE
    /\ UNCHANGED <<kind, pc, phase, connVars, closeVars, ctxDone, done>>

Main ==
    \/ DialSucceeds \/ DialFails \/ DialTimer \/ ServerAccepts \/ RequestFails
    \/ StartReturns \/ TakeSession \/ AcceptFails \/ AfterDrop
    \/ ReconnectTop \/ ReconnectCreated \/ SetConn \/ CloseOld \/ Backoff

Closer == CloseFlag(TRUE) \/ CloseSnapshot \/ CloseConn

Next ==
    \/ Main \/ Closer \/ CloseFlag(FALSE) \/ CtxCancel \/ ServerNotices
    \/ \E h \in Handles : SessionEnds(h)

Spec == Init /\ [][Next]_vars

(* The goroutines run on.  A cancelled context ends the sessions built on   *)
(* it.  A server whose client is gone notices.  A server that keeps being   *)
(* dialled is reached again at some point, and accepts at some point.       *)
Fairness ==
    /\ WF_vars(Main) /\ WF_vars(Closer) /\ WF_vars(ServerNotices)
    /\ \A h \in Handles : WF_vars(ctxDone /\ SessionEnds(h))
    /\ SF_vars(DialSucceeds) /\ SF_vars(ServerAccepts)
FairSpec == Spec /\ Fairness

----------------------------------------------------------------------------
(* Properties.                                                              *)

TypeOK ==
    /\ kind \in {"tcp", "http"}
    /\ pc \in Steps /\ phase \in {"start", "run"}
    /\ cur \in Handles \cup {None} /\ acc \in Handles \cup {None}
    /\ new \in Handles \cup {None} /\ snap \in Handles \cup {None}
    /\ open \subseteq Handles
    /\ ident \in [Handles -> Publics \cup {None}]
    /\ public \in Publics \cup {None}
    /\ closing \in BOOLEAN /\ ctxDone \in BOOLEAN
    /\ closer \in {"idle", "flagged", "snapped", "done"}
    /\ ghost \in BOOLEAN
    /\ done \in {"none", "nil", "ctx", "busy", "refused", "mismatch"}

(* The session streams are accepted from always carries the identity the    *)
(* user was shown when the tunnel started, through any number of            *)
(* reconnects: a resume under another port or URL is refused.               *)
ServesItsPublicName ==
    Started => cur # None /\ ident[cur] = public /\ (acc # None => ident[acc] = public)

(* The tunnel never has two open sessions with the server: it dials only    *)
(* after its session failed, and closes what it does not adopt.             *)
OneOpenSession == Cardinality(open) <= 1

(* When Wait has returned no session stays open behind it, whichever of the *)
(* error paths of reconnect ended the tunnel.                               *)
FinishedLeavesNothing == pc \in {"finished", "startFailed"} => open = {}

(* What Wait returns is true: nil only for a tunnel that was closed, the    *)
(* context's error only when it was cancelled (acceptStreams and reconnect  *)
(* read closing and ctx again after every blocking call).                   *)
EndIsExplained ==
    /\ done = "nil" => closing
    /\ done = "ctx" => ctxDone

(* A started tunnel that loses its session is served again, or ends for a   *)
(* reason that lasts: it outlives a server that is away, at its limits, or  *)
(* that still holds the registration of the lost session.  An HTTP tunnel   *)
(* does not outlive the last, its resume is refused with an error that is   *)
(* not retried.                                                             *)
ResumeOutlastsServer ==
    pc = "dropped" ~> \/ pc = "accept" \/ Stopping
                      \/ done \in {"refused", "mismatch"} \/ (kind = "http" /\ done = "busy")

(* What internal/cli relies on: Start, Close and Wait of the tunnel are     *)
(* those of TunnelLife, whatever happens inside, which includes that        *)
(* cancelling ends it from every state and that Close does, unless it found *)
(* a session that was replaced behind its back.                             *)
Stage ==
    CASE pc = "startFailed"          -> "failed"
      [] pc = "finished"             -> "ended"
      [] Started /\ pc # "finished"  -> "up"
      [] OTHER                       -> "starting"
Deaf == closer = "done" /\ pc # "finished" /\ cur \in open
Outcome == IF done \in {"none", "nil", "ctx"} THEN done ELSE "err"
tunnel == [life |-> Stage, told |-> closing, deaf |-> Deaf, result |-> Outcome]
Life == INSTANCE TunnelLife WITH tun <- tunnel
ImplementsTunnelLife == Life!Spec

(* Close ends Wait: what reconnect_test.go relies on when it calls          *)
(* tunnel.Close() and then waits for the tunnel to stop.                    *)
CloseEndsWait == closing ~> pc = "finished"
================================================================================
