----------------------------- MODULE ClientProcess -----------------------------
(****************************************************************************)
(* One run of the client (internal/cli): "eosrift http" and "eosrift tcp"   *)
(* with one tunnel, "eosrift start" with all its named tunnels, and the     *)
(* inspector beside them.  The tunnels are what TunnelLife promises.        *)
(****************************************************************************)
EXTENDS Inspector, FiniteSets

CONSTANT N          \* tunnels of the start command

ASSUME ProcessAssumption == N \in Nat \ {0} /\ Tunnels = 1..N

VARIABLES
    command,    \* "http", "tcp" or "start"
    inspected,  \* tunnels that got the store
    pc,         \* progress of the command
    started,    \* tunnels that were started
    tun,        \* tunnel -> its TunnelLife
    idOf,       \* tunnel -> its id
    ctxDone,    \* the context was cancelled: an interrupt
    serving,    \* the inspector accepts connections
    waiting,    \* tunnels whose Wait a goroutine of waitAll is in
    errCh,      \* the channel of waitAll
    received,   \* results waitAll has received
    firstErr,   \* firstErr of waitAll, or what the only Wait returned
    exit        \* exit status, -1 while running

mainVars == <<pc, started, waiting, errCh, received, firstErr, exit>>
vars == <<command, inspected, mainVars, tun, idOf, ctxDone, serving, inspectorVars>>

Life(t) == INSTANCE TunnelLife WITH tun <- tun[t]

Wanted == IF command = "start" THEN N ELSE 1
AfterStart == IF inspected # {} THEN "inspector" ELSE "wait"

Init ==
    /\ \/ /\ command = "start" /\ inspected \in SUBSET Tunnels
          /\ pc = IF inspected # {} THEN "inspector" ELSE "start"
       \/ command = "http" /\ inspected \in SUBSET {1} /\ pc = "start"
       \/ command = "tcp" /\ inspected = {} /\ pc = "start"
    /\ started = 0
    /\ tun = [t \in Tunnels |-> Life(t)!New]
    /\ idOf = [t \in Tunnels |-> None]
    /\ ctxDone = FALSE /\ serving = FALSE
    /\ waiting = {} /\ errCh = <<>> /\ received = 0 /\ firstErr = "nil"
    /\ exit = -1
    /\ InspectorInit

Running == exit = -1

----------------------------------------------------------------------------
(* Starting.                                                                *)

(* No port between the one asked for and 5000 may be free; the start        *)
(* command then has no store either, the http command keeps its own.        *)
StartInspector ==
    /\ pc = "inspector"
    /\ \E ok \in BOOLEAN :
         /\ serving' = ok
         /\ inspected' = IF command = "start" /\ ~ok THEN {} ELSE inspected
    /\ pc' = IF command = "start" THEN "start" ELSE "wait"
    /\ UNCHANGED <<command, started, waiting, errCh, received, firstErr, exit,
                   tun, idOf, ctxDone, inspectorVars>>

(* A TCP tunnel has no id and no inspector.                                 *)
IDs(t) ==
    CASE command = "tcp" -> {None}
      [] command = "start" /\ t \notin inspected -> TunnelIDs \cup {None}
      [] OTHER -> TunnelIDs

(* Start...TunnelWithOptions of the next tunnel returns.  A tunnel that is  *)
(* refused ends the command at once, whatever it has started before.        *)
TunnelStarts ==
    LET t == started + 1
    IN  /\ pc = "start"
        /\ \E s \in Life(t)!StartMoves(tun[t]) :
             /\ tun' = [tun EXCEPT ![t] = s]
             /\ IF s.life = "up"
                THEN /\ \E i \in IDs(t) : idOf' = [idOf EXCEPT ![t] = i]
                     /\ pc' = "started" /\ UNCHANGED <<exit, serving>>
                ELSE pc' = "exited" /\ exit' = 1 /\ serving' = FALSE /\ UNCHANGED idOf
    /\ UNCHANGED <<command, inspected, started, waiting, errCh, received, firstErr,
                   ctxDone, inspectorVars>>

(* The start command enters an HTTP tunnel in its map and goes on; the      *)
(* tunnel serves already.  waitAll starts a goroutine for each tunnel.      *)
TunnelStarted ==
    LET t    == started + 1
        last == t = Wanted
    IN  /\ pc = "started"
        /\ started' = t
        /\ IF command = "start" /\ idOf[t] # None THEN SetTarget(idOf[t], t) ELSE UNCHANGED targets
        /\ pc' = IF ~last THEN "start" ELSE IF command = "start" THEN "wait" ELSE AfterStart
        /\ waiting' = IF last /\ command = "start" THEN Tunnels ELSE waiting
    /\ UNCHANGED <<command, inspected, errCh, received, firstErr, exit, tun, idOf,
                   ctxDone, serving, storeVars, pageVars, replay>>

----------------------------------------------------------------------------
(* Waiting.                                                                 *)

CloseAll == tun' = [t \in Tunnels |-> Life(t)!Told(tun[t])]

(* The http and tcp commands have one tunnel and no waitAll.                *)
WaitReturns ==
    /\ pc = "wait" /\ command # "start"
    /\ tun[1].life = "ended"
    /\ firstErr' = tun[1].result /\ pc' = "return"
    /\ UNCHANGED <<command, inspected, started, waiting, errCh, received, exit,
                   tun, idOf, ctxDone, serving, inspectorVars>>

(* One goroutine for each tunnel: errCh <- t.Wait(), with room for all.     *)
SendResult(t) ==
    /\ t \in waiting /\ tun[t].life = "ended" /\ Len(errCh) < N
    /\ errCh' = Append(errCh, tun[t].result)
    /\ waiting' = waiting \ {t}
    /\ UNCHANGED <<command, inspected, pc, started, received, firstErr, exit,
                   tun, idOf, ctxDone, serving, inspectorVars>>

(* Mutants: the last error counts; the others are not closed.               *)
ReceiveLastResult ==
    /\ pc = "wait" /\ errCh # <<>>
    /\ errCh' = Tail(errCh) /\ received' = received + 1
    /\ firstErr' = Head(errCh) /\ CloseAll
    /\ pc' = IF received' = N THEN "return" ELSE pc
    /\ UNCHANGED <<command, inspected, started, waiting, exit,
                   idOf, ctxDone, serving, inspectorVars>>
ReceiveResultOnly ==
    /\ pc = "wait" /\ errCh # <<>>
    /\ errCh' = Tail(errCh) /\ received' = received + 1
    /\ firstErr' = IF firstErr = "nil" THEN Head(errCh) ELSE firstErr
    /\ pc' = IF received' = N THEN "return" ELSE pc
    /\ UNCHANGED <<command, inspected, started, waiting, exit,
                   tun, idOf, ctxDone, serving, inspectorVars>>

(* The first result that is no nil is kept; until there is one, each result *)
(* closes every tunnel.                                                     *)
ReceiveResult ==
    /\ pc = "wait" /\ errCh # <<>>
    /\ errCh' = Tail(errCh) /\ received' = received + 1
    /\ IF firstErr = "nil" THEN firstErr' = Head(errCh) /\ CloseAll
                           ELSE UNCHANGED <<firstErr, tun>>
    /\ pc' = IF received' = N THEN "return" ELSE pc
    /\ UNCHANGED <<command, inspected, started, waiting, exit,
                   idOf, ctxDone, serving, inspectorVars>>

WaitCancelled ==
    /\ pc = "wait" /\ command = "start" /\ ctxDone
    /\ CloseAll /\ firstErr' = "ctx" /\ pc' = "return"
    /\ UNCHANGED <<command, inspected, started, waiting, errCh, received, exit,
                   idOf, ctxDone, serving, inspectorVars>>

(* The deferred calls close the tunnels and stop the inspector.             *)
Return ==
    /\ pc = "return" /\ pc' = "exited"
    /\ exit' = IF firstErr \in {"nil", "ctx"} \/ ctxDone THEN 0 ELSE 1
    /\ tun' = [t \in Tunnels |-> IF t <= started THEN Life(t)!Told(tun[t]) ELSE tun[t]]
    /\ serving' = FALSE
    /\ UNCHANGED <<command, inspected, started, waiting, errCh, received, firstErr,
                   idOf, ctxDone, inspectorVars>>

----------------------------------------------------------------------------
(* The tunnels, as TunnelLife lets them, the context and what follows it.   *)

otherVars == <<command, inspected, mainVars, idOf, inspectorVars>>

TunnelMoves(t, moves) ==
    /\ \E s \in moves : tun' = [tun EXCEPT ![t] = s]
    /\ UNCHANGED <<otherVars, ctxDone, serving>>

TunnelEnds(t) == TunnelMoves(t, Life(t)!EndMoves(tun[t], ctxDone))
TunnelDeafens(t) == TunnelMoves(t, Life(t)!DeafMoves(tun[t]))

(* The goroutine of Start...Tunnel that waits for the context.              *)
CtxCloses(t) == ctxDone /\ TunnelMoves(t, Life(t)!ToldMoves(tun[t]))

Interrupt == ~ctxDone /\ ctxDone' = TRUE /\ UNCHANGED <<otherVars, tun, serving>>

InspectorStops ==
    /\ ctxDone /\ serving /\ serving' = FALSE
    /\ UNCHANGED <<otherVars, tun, ctxDone>>

----------------------------------------------------------------------------
(* Traffic and the page.                                                    *)

processVars == <<command, inspected, mainVars, tun, idOf, ctxDone, serving>>

(* A stream through an inspected tunnel ends, perhaps after the tunnel did. *)
Capture(t) ==
    /\ t \in inspected /\ tun[t].life \in {"up", "ended"}
    /\ Add(idOf[t])
    /\ UNCHANGED processVars

(* The http command replays to its one service, without looking at the id.  *)
TargetOf(i) == IF command = "start" THEN targets[i] ELSE 1

Page ==
    /\ \/ serving /\ (Refresh \/ ClickReplay)
       \/ Select \/ ReplayGet \/ ReplaySend(TargetOf(replay.got.tunnel)) \/ ReplayEnds
    /\ UNCHANGED processVars

----------------------------------------------------------------------------
Main ==
    \/ StartInspector \/ TunnelStarted \/ WaitReturns \/ ReceiveResult
    \/ WaitCancelled \/ Return

Next ==
    /\ Running
    /\ \/ Main \/ TunnelStarts \/ Interrupt \/ InspectorStops \/ Page
       \/ \E t \in Tunnels : \/ SendResult(t) \/ TunnelEnds(t) \/ TunnelDeafens(t)
                             \/ CtxCloses(t) \/ Capture(t)

Spec == Init /\ [][Next]_vars

(* The goroutines run on.  Of the tunnels only what TunnelLife promises:    *)
(* cancelling ends Start and Wait, Close ends Wait unless it went unheard.  *)
Fairness ==
    /\ WF_vars(Running /\ Main)
    /\ WF_vars(Running /\ ctxDone /\ TunnelStarts)
    /\ \A t \in Tunnels :
         /\ WF_vars(Running /\ SendResult(t))
         /\ WF_vars(Running /\ ctxDone /\ TunnelEnds(t))
         /\ WF_vars(Running /\ tun[t].told /\ ~tun[t].deaf /\ TunnelEnds(t))
FairSpec == Spec /\ Fairness

----------------------------------------------------------------------------
(* Properties.                                                              *)

TypeOK ==
    /\ InspectorTypeOK
    /\ command \in {"http", "tcp", "start"} /\ inspected \subseteq Tunnels
    /\ pc \in {"inspector", "start", "started", "wait", "return", "exited"}
    /\ started \in 0..N
    /\ tun \in [Tunnels -> Life(1)!States]
    /\ idOf \in [Tunnels -> TunnelIDs \cup {None}]
    /\ ctxDone \in BOOLEAN /\ serving \in BOOLEAN
    /\ waiting \subseteq Tunnels /\ received + Len(errCh) + Cardinality(waiting) <= N
    /\ firstErr \in Life(1)!Results \ {"none"}
    /\ exit \in {-1, 0, 1}

(* The exit status is true: 1 only when a tunnel was refused or failed, 0   *)
(* only when the user interrupted the client.  Tunnels that waitAll closed  *)
(* because another failed do not hide its error.                            *)
ExitIsExplained ==
    /\ exit = 1 => \E t \in Tunnels : tun[t].life = "failed" \/ tun[t].result = "err"
    /\ exit = 0 => ctxDone

(* Once the command waits, every request that was captured can be replayed, *)
(* and a replay goes to a service the tunnel of that id forwards to.  (While*)
(* tunnels are still being started, one of them may serve a request before  *)
(* its target is entered: its replay is answered with "unknown tunnel".)    *)
CapturesCanBeReplayed ==
    /\ pc \in {"wait", "return"} => \A e \in ToSet(entries) : TargetOf(e.tunnel) # None
    /\ replay.step = "sent" => idOf[replay.to] = replay.got.tunnel

(* The process ends after an interrupt, whatever it was doing, and after    *)
(* the end of any one tunnel, by closing the others, unless one of them     *)
(* does not hear it.                                                        *)
ProcessEnds ==
    /\ ctxDone ~> ~Running
    /\ (pc = "wait" /\ \E t \in Tunnels : tun[t].life = "ended")
          ~> (~Running \/ \E t \in Tunnels : tun[t].deaf)
================================================================================
