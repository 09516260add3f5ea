--------------------------- MODULE DeployHookProofs ----------------------------
(****************************************************************************)
(* Proofs about the deploy webhook, for any runs and any number of health   *)
(* check attempts.                                                          *)
(****************************************************************************)
EXTENDS DeployHook, FiniteSetTheorems, TLAPS

Alive == {"begin", "tmp", "mv", "cmd"}
Active(r) == act[r] # "none" \/ r \in child

(* Only a deploy the handler accepted is active, and it accepts none while  *)
(* there is one.  A command is running only under its script, or under the  *)
(* shell the timeout killed, which has to be waited for.                    *)
Exclusion ==
    /\ \A r \in Runs : Active(r) => running
    /\ \A r, q \in Runs : Active(r) /\ Active(q) => r = q
    /\ \A r \in child : act[r] \in {"cmd", "killed"}

(* What the script writes next is true, and a run that the status file says *)
(* is running is, unless it was interrupted.                                *)
Truth ==
    /\ \A r \in Runs : stage[r] = "success" => r \in healthy
    /\ \A r \in Runs : act[r] = "mv" => tmp = [state |-> StateOf(stage[r]), run |-> r]
    /\ \A r \in Runs : act[r] = "killed" => r \in interrupted
    /\ status # NoStatus =>
         /\ status.state = "success" => status.run \in healthy
         /\ status.state = "running" => status.run \in interrupted \/ act[status.run] \in Alive

DeployInv == TypeOK /\ Exclusion /\ Truth

USE DEF history, To, Stages, Acts, States

LEMMA DeployInit == Init => DeployInv
<1>. SUFFICES ASSUME Init PROVE DeployInv
  OBVIOUS
<1>. USE DEF Init
<1>1. TypeOK
  BY DEF TypeOK
<1>2. Exclusion
  BY DEF Exclusion, Active
<1>3. Truth
  BY DEF Truth
<1>. QED
  BY <1>1, <1>2, <1>3 DEF DeployInv

LEMMA TypesStep == ASSUME TypeOK, [Next]_vars PROVE TypeOK'
<1>. USE DEF TypeOK
<1>1. ASSUME NEW e \in Delivery, ServeHTTP(e) PROVE TypeOK'
  <2>1. e.run \in Runs
    BY DEF Delivery
  <2>2. CASE Matches(e) /\ ~running
    BY <1>1, <2>1, <2>2 DEF ServeHTTP
  <2>3. CASE ~(Matches(e) /\ ~running)
    BY <1>1, <2>3 DEF ServeHTTP
  <2>. QED
    BY <2>2, <2>3
<1>2. ASSUME NEW r \in Runs, WriteTmp(r) PROVE TypeOK'
  <2>1. [state |-> StateOf(stage[r]), run |-> r] \in [state : {"running", "success", "error"}, run : Runs]
    BY DEF StateOf
  <2>. QED
    BY <1>2, <2>1 DEF WriteTmp
<1>3. ASSUME NEW r \in Runs, ScriptBegins(r) \/ MoveStatus(r) \/ WriteFails(r) PROVE TypeOK'
  BY <1>3 DEF ScriptBegins, MoveStatus, WriteFails
<1>4. ASSUME NEW r \in Runs, CommandSucceeds(r) \/ CommandFails(r) \/ OrphanEnds(r) PROVE TypeOK'
  BY <1>4 DEF CommandSucceeds, CommandFails, OrphanEnds
<1>5. ASSUME NEW r \in Runs, Timeout(r) \/ runTrigger(r) PROVE TypeOK'
  BY <1>5 DEF Timeout, runTrigger
<1>6. CASE ReceiverRestarts
  BY <1>6 DEF ReceiverRestarts
<1>7. CASE UNCHANGED vars
  BY <1>7 DEF vars
<1>. QED
  BY <1>1, <1>2, <1>3, <1>4, <1>5, <1>6, <1>7 DEF Next, Script

LEMMA ExclusionStep == ASSUME DeployInv, [Next]_vars PROVE Exclusion'
<1>. USE DEF DeployInv, TypeOK, Exclusion, Active
<1>1. ASSUME NEW e \in Delivery, ServeHTTP(e) PROVE Exclusion'
  <2>1. e.run \in Runs
    BY DEF Delivery
  <2>. QED
    BY <1>1, <2>1 DEF ServeHTTP
<1>2. ASSUME NEW r \in Runs, WriteTmp(r) \/ ScriptBegins(r) \/ WriteFails(r) PROVE Exclusion'
  BY <1>2 DEF WriteTmp, ScriptBegins, WriteFails
<1>3. ASSUME NEW r \in Runs, MoveStatus(r) PROVE Exclusion'
  BY <1>3 DEF MoveStatus
<1>4. ASSUME NEW r \in Runs, CommandSucceeds(r) \/ CommandFails(r) \/ OrphanEnds(r) PROVE Exclusion'
  BY <1>4 DEF CommandSucceeds, CommandFails, OrphanEnds
<1>5. ASSUME NEW r \in Runs, Timeout(r) PROVE Exclusion'
  BY <1>5 DEF Timeout
<1>6. ASSUME NEW r \in Runs, runTrigger(r) PROVE Exclusion'
  BY <1>6 DEF runTrigger
<1>7. CASE ReceiverRestarts
  BY <1>7 DEF ReceiverRestarts
<1>8. CASE UNCHANGED vars
  BY <1>8 DEF vars
<1>. QED
  BY <1>1, <1>2, <1>3, <1>4, <1>5, <1>6, <1>7, <1>8 DEF Next, Script

LEMMA TruthStep == ASSUME DeployInv, [Next]_vars PROVE Truth'
<1>. USE DEF DeployInv, TypeOK, Exclusion, Active, Truth, Alive
<1>1. ASSUME NEW e \in Delivery, ServeHTTP(e) PROVE Truth'
  <2>1. e.run \in Runs
    BY DEF Delivery
  <2>2. CASE UNCHANGED <<running, stage, act, attempt, interrupted>>
    BY <1>1, <2>2 DEF ServeHTTP
  <2>3. CASE Matches(e) /\ ~running
    BY <1>1, <2>1, <2>3 DEF ServeHTTP
  <2>. QED
    BY <1>1, <2>2, <2>3 DEF ServeHTTP
<1>2. ASSUME NEW r \in Runs, WriteTmp(r) PROVE Truth'
  BY <1>2 DEF WriteTmp
<1>3. ASSUME NEW r \in Runs, ScriptBegins(r) PROVE Truth'
  BY <1>3 DEF ScriptBegins
<1>4. ASSUME NEW r \in Runs, WriteFails(r) PROVE Truth'
  BY <1>4 DEF WriteFails
<1>5. ASSUME NEW r \in Runs, MoveStatus(r) PROVE Truth'
  <2>1. status' = [state |-> StateOf(stage[r]), run |-> r] /\ act[r] = "mv"
    BY <1>5 DEF MoveStatus
  <2>2. status'.state = "success" => status'.run \in healthy
    BY <2>1 DEF StateOf
  <2>3. status'.state = "running" => act'[status'.run] = "cmd"
    BY <1>5, <2>1 DEF StateOf, LastStage, MoveStatus
  <2>4. \A q \in Runs : act'[q] = "mv" => FALSE
    BY <1>5, <2>1 DEF MoveStatus
  <2>. QED
    BY <1>5, <2>2, <2>3, <2>4 DEF MoveStatus
<1>6. ASSUME NEW r \in Runs, CommandSucceeds(r) \/ CommandFails(r) \/ OrphanEnds(r) PROVE Truth'
  BY <1>6 DEF CommandSucceeds, CommandFails, OrphanEnds
<1>7. ASSUME NEW r \in Runs, Timeout(r) \/ runTrigger(r) PROVE Truth'
  BY <1>7 DEF Timeout, runTrigger
<1>8. CASE ReceiverRestarts
  BY <1>8 DEF ReceiverRestarts
<1>9. CASE UNCHANGED vars
  BY <1>9 DEF vars
<1>. QED
  BY <1>1, <1>2, <1>3, <1>4, <1>5, <1>6, <1>7, <1>8, <1>9 DEF Next, Script

LEMMA DeployInvariant == Spec => []DeployInv
<1>1. DeployInv /\ [Next]_vars => DeployInv'
  BY TypesStep, ExclusionStep, TruthStep DEF DeployInv
<1>. QED
  BY <1>1, DeployInit, PTL DEF Spec

(* Types of the receiver, the script and its files.                         *)
THEOREM DeployTypes == Spec => []TypeOK
<1>1. DeployInv => TypeOK
  BY DEF DeployInv
<1>. QED
  BY <1>1, DeployInvariant, PTL

(* Two deploys never overlap, timed out ones and their commands included.   *)
THEOREM DeploysDoNotOverlap == Spec => []OneDeployAtATime
<1>1. DeployInv => OneDeployAtATime
  <2>. SUFFICES ASSUME DeployInv PROVE OneDeployAtATime
    OBVIOUS
  <2>1. \A r \in Busy : r \in Runs /\ Active(r)
    BY DEF Busy, Active
  <2>2. \A r, q \in Busy : r = q
    BY <2>1 DEF DeployInv, Exclusion
  <2>3. Busy # {} => running
    BY <2>1 DEF DeployInv, Exclusion
  <2>4. Cardinality(Busy) = 0 \/ Cardinality(Busy) = 1
    <3>1. CASE Busy = {}
      BY <3>1, FS_EmptySet
    <3>2. ASSUME NEW r \in Busy PROVE Cardinality(Busy) = 1
      <4>1. Busy = {r}
        BY <2>2
      <4>. QED
        BY <4>1, FS_Singleton
    <3>. QED
      BY <3>1, <3>2
  <2>5. Cardinality(Busy) <= 1
    BY <2>4
  <2>. QED
    BY <2>3, <2>5 DEF OneDeployAtATime
<1>. QED
  BY <1>1, DeployInvariant, PTL

(* The status file never claims a success without a passed health check, nor*)
(* a running deploy when there is none, except for an interrupted one.      *)
THEOREM StatusIsTrue == Spec => []StatusIsTruthful
<1>1. DeployInv => StatusIsTruthful
  <2>. SUFFICES ASSUME DeployInv, status # NoStatus, status.state = "running", ~running
                PROVE  status.run \in interrupted
    BY DEF DeployInv, Truth, StatusIsTruthful
  <2>1. status.run \in Runs
    BY DEF DeployInv, TypeOK
  <2>. QED
    BY <2>1 DEF DeployInv, Truth, Exclusion, Active, Alive
<1>. QED
  BY <1>1, DeployInvariant, PTL

(* What an accepted deploy does next: a step of the script, the end of a    *)
(* command, or the return of the trigger.                                   *)
NextStep(r) ==
    \/ act[r] \in {"begin", "tmp", "mv"}
    \/ act[r] \in {"cmd", "killed"} /\ r \in child
    \/ act[r] \in {"exited", "killed"} /\ r \notin child
Going ==
    /\ running => \E r \in Runs : act[r] # "none"
    /\ \A r \in Runs : act[r] = "cmd" => r \in child

LEMMA GoingStep == ASSUME DeployInv, Going, [Next]_vars PROVE Going'
<1>. USE DEF DeployInv, TypeOK, Exclusion, Active, Going
<1>1. ASSUME NEW e \in Delivery, ServeHTTP(e) PROVE Going'
  <2>1. e.run \in Runs
    BY DEF Delivery
  <2>2. CASE UNCHANGED <<running, stage, act, attempt, interrupted>>
    BY <1>1, <2>2 DEF ServeHTTP
  <2>3. CASE running' = TRUE /\ act' = [act EXCEPT ![e.run] = "begin"]
    <3>1. act'[e.run] = "begin" /\ \A r \in Runs : act'[r] = "cmd" => act[r] = "cmd"
      BY <2>1, <2>3
    <3>. QED
      BY <1>1, <2>1, <3>1 DEF ServeHTTP
  <2>. QED
    BY <1>1, <2>2, <2>3 DEF ServeHTTP
<1>2. ASSUME NEW r \in Runs, WriteTmp(r) \/ ScriptBegins(r) \/ WriteFails(r) PROVE Going'
  <2>1. running' = running /\ child' = child /\ act'[r] \notin {"none", "cmd"}
    BY <1>2 DEF WriteTmp, ScriptBegins, WriteFails
  <2>2. \A q \in Runs : q # r => act'[q] = act[q]
    BY <1>2 DEF WriteTmp, ScriptBegins, WriteFails
  <2>. QED
    BY <2>1, <2>2
<1>3. ASSUME NEW r \in Runs, MoveStatus(r) PROVE Going'
  BY <1>3 DEF MoveStatus
<1>4. ASSUME NEW r \in Runs, CommandSucceeds(r) \/ CommandFails(r) \/ OrphanEnds(r) PROVE Going'
  BY <1>4 DEF CommandSucceeds, CommandFails, OrphanEnds
<1>5. ASSUME NEW r \in Runs, Timeout(r) PROVE Going'
  BY <1>5 DEF Timeout
<1>6. ASSUME NEW r \in Runs, runTrigger(r) PROVE Going'
  BY <1>6 DEF runTrigger
<1>7. CASE ReceiverRestarts
  BY <1>7 DEF ReceiverRestarts
<1>8. CASE UNCHANGED vars
  BY <1>8 DEF vars
<1>. QED
  BY <1>1, <1>2, <1>3, <1>4, <1>5, <1>6, <1>7, <1>8 DEF Next, Script

(* The receiver never refuses deploys with nothing under way: while running *)
(* is set, an accepted deploy has a next step, whatever failed in it and    *)
(* wherever the timeout hit it: the safety half of DeployEnds.              *)
THEOREM DeploysAreUnderWay == Spec => [](running => \E r \in Runs : NextStep(r))
<1>1. Init => Going
  BY DEF Init, Going
<1>2. DeployInv /\ Going /\ [Next]_vars => Going'
  BY GoingStep
<1>3. ASSUME DeployInv, Going, running PROVE \E r \in Runs : NextStep(r)
  <2>1. PICK r \in Runs : act[r] # "none"
    BY <1>3 DEF Going
  <2>2. r \in child => act[r] \in {"cmd", "killed"}
    BY <1>3 DEF DeployInv, Exclusion
  <2>3. act[r] = "cmd" => r \in child
    BY <1>3 DEF Going
  <2>4. act[r] \in Acts
    BY <1>3 DEF DeployInv, TypeOK
  <2>. QED
    BY <2>1, <2>2, <2>3, <2>4 DEF NextStep
<1>4. DeployInv /\ Going => (running => \E r \in Runs : NextStep(r))
  BY <1>3
<1>. QED
  BY <1>1, <1>2, <1>4, DeployInvariant, PTL DEF Spec

----------------------------------------------------------------------------
(* A deploy takes a bounded number of steps.                                *)

(* The steps a deploy may still take from a stage, while its command runs;  *)
(* n is the number of health checks it has made.                            *)
InStage(s, n) ==
    IF s = "pull" THEN MaxAttempts + 13
    ELSE IF s = "recreate" THEN MaxAttempts + 10
    ELSE IF s = "health" THEN MaxAttempts + 7 - n
    ELSE IF s = "success" THEN 4 ELSE 2

StepsLeft(r) ==
    IF act[r] = "begin" THEN MaxAttempts + 16
    ELSE IF act[r] = "tmp" THEN InStage(stage[r], 0) + 2
    ELSE IF act[r] = "mv" THEN InStage(stage[r], 0) + 1
    ELSE IF act[r] = "cmd" THEN InStage(stage[r], attempt[r])
    ELSE IF act[r] = "killed" /\ r \in child THEN 2
    ELSE IF act[r] = "none" THEN 0 ELSE 1

(* The stage fits what the script does next, and no health check is made    *)
(* before the loop.                                                         *)
InOrder(r) ==
    /\ act[r] \in {"tmp", "mv"} => stage[r] # "init"
    /\ act[r] = "cmd" => stage[r] \in {"pull", "recreate", "health"} /\ attempt[r] < MaxAttempts
    /\ act[r] = "begin" \/ (act[r] \in {"tmp", "mv", "cmd"} /\ stage[r] \in {"pull", "recreate"})
         => attempt[r] = 0
    /\ act[r] \in {"tmp", "mv"} /\ stage[r] = "health" => attempt[r] = 0

(* What a step of the receiver does to the deploy of r.                     *)
Advances(r) ==
    /\ InOrder(r)'
    /\ Script(r) \/ Timeout(r) \/ runTrigger(r) => StepsLeft(r)' < StepsLeft(r)
    /\ running => StepsLeft(r)' <= StepsLeft(r)

LEMMA StageSteps ==
    ASSUME NEW s \in Stages, NEW n \in 0..MaxAttempts
    PROVE  InStage(s, n) \in 2..MaxAttempts + 13
  BY DeployAssumption DEF InStage

LEMMA StepsLeftRange ==
    ASSUME TypeOK, NEW r \in Runs, InOrder(r) PROVE StepsLeft(r) \in 0..MaxAttempts + 16
<1>. USE DEF TypeOK
<1>1. MaxAttempts \in Nat \ {0} /\ stage[r] \in Stages /\ attempt[r] \in Nat /\ act[r] \in Acts
  BY DeployAssumption
<1>2. InStage(stage[r], 0) \in 2..MaxAttempts + 13
  BY <1>1, StageSteps
<1>3. act[r] = "cmd" => InStage(stage[r], attempt[r]) \in 2..MaxAttempts + 13
  BY <1>1, StageSteps DEF InOrder
<1>. QED
  BY <1>1, <1>2, <1>3 DEF StepsLeft

LEMMA OthersWait ==
    ASSUME TypeOK, NEW r \in Runs, NEW q \in Runs, q # r, InOrder(q),
           Script(r) \/ Timeout(r) \/ runTrigger(r)
    PROVE  InOrder(q)' /\ StepsLeft(q)' = StepsLeft(q)
<1>. USE DEF TypeOK
<1>1. /\ stage'[q] = stage[q] /\ act'[q] = act[q] /\ attempt'[q] = attempt[q]
      /\ q \in child' <=> q \in child
  BY DEF Script, ScriptBegins, WriteTmp, MoveStatus, WriteFails, CommandSucceeds, CommandFails,
         OrphanEnds, Timeout, runTrigger
<1>. QED
  BY <1>1 DEF InOrder, StepsLeft, InStage

LEMMA OwnStep ==
    ASSUME TypeOK, NEW r \in Runs, InOrder(r), r \in child => act[r] \in {"cmd", "killed"},
           Script(r) \/ Timeout(r) \/ runTrigger(r)
    PROVE  InOrder(r)' /\ StepsLeft(r)' \in Int /\ StepsLeft(r)' < StepsLeft(r)
<1>. USE DEF TypeOK, InOrder
<1>1. MaxAttempts \in Nat \ {0} /\ stage[r] \in Stages /\ attempt[r] \in Nat
  BY DeployAssumption
<1>2. CASE ScriptBegins(r)
  BY <1>1, <1>2 DEF ScriptBegins, StepsLeft, InStage
<1>3. CASE WriteTmp(r)
  BY <1>1, <1>3 DEF WriteTmp, StepsLeft, InStage
<1>4. CASE MoveStatus(r)
  BY <1>1, <1>4 DEF MoveStatus, LastStage, StepsLeft, InStage
<1>5. CASE WriteFails(r)
  BY <1>1, <1>5 DEF WriteFails, StepsLeft, InStage
<1>6. CASE CommandSucceeds(r)
  BY <1>1, <1>6 DEF CommandSucceeds, StepsLeft, InStage
<1>7. CASE CommandFails(r)
  BY <1>1, <1>7 DEF CommandFails, StepsLeft, InStage
<1>8. CASE OrphanEnds(r)
  BY <1>1, <1>8 DEF OrphanEnds, StepsLeft
<1>9. CASE runTrigger(r)
  BY <1>1, <1>9 DEF runTrigger, StepsLeft
<1>10. CASE Timeout(r)
  BY <1>1, <1>10 DEF Timeout, StepsLeft, InStage
<1>. QED
  BY <1>2, <1>3, <1>4, <1>5, <1>6, <1>7, <1>8, <1>9, <1>10 DEF Script

LEMMA AdvanceStep ==
    ASSUME DeployInv, \A r \in Runs : InOrder(r), [Next]_vars, NEW r \in Runs PROVE Advances(r)
<1>. USE DEF DeployInv
<1>1. StepsLeft(r) \in Nat /\ InOrder(r) /\ (r \in child => act[r] \in {"cmd", "killed"})
  BY StepsLeftRange DEF Exclusion
<1>2. CASE Script(r) \/ Timeout(r) \/ runTrigger(r)
  <2>1. InOrder(r)' /\ StepsLeft(r)' \in Int /\ StepsLeft(r)' < StepsLeft(r)
    BY <1>1, <1>2, OwnStep
  <2>. QED
    BY <1>1, <2>1 DEF Advances
<1>3. ASSUME ~(Script(r) \/ Timeout(r) \/ runTrigger(r)), InOrder(r)', StepsLeft(r)' = StepsLeft(r)
      PROVE  Advances(r)
  BY <1>1, <1>3 DEF Advances
<1>4. ASSUME NEW q \in Runs, q # r, Script(q) \/ Timeout(q) \/ runTrigger(q),
             ~(Script(r) \/ Timeout(r) \/ runTrigger(r))
      PROVE  Advances(r)
  BY <1>1, <1>3, <1>4, OthersWait
<1>5. ASSUME NEW e \in Delivery, ServeHTTP(e), ~(Script(r) \/ Timeout(r) \/ runTrigger(r)) PROVE Advances(r)
  <2>1. CASE UNCHANGED <<stage, act, attempt, child>>
    BY <1>1, <1>3, <1>5, <2>1 DEF InOrder, StepsLeft
  <2>2. CASE Matches(e) /\ ~running
    <3>1. e.run \in Runs
      BY DEF Delivery
    <3>2. InOrder(r)'
      BY <1>1, <1>5, <2>2, <3>1 DEF ServeHTTP, InOrder, TypeOK
    <3>. QED
      BY <1>5, <2>2, <3>2 DEF Advances
  <2>. QED
    BY <1>5, <2>1, <2>2 DEF ServeHTTP
<1>6. CASE ReceiverRestarts /\ ~(Script(r) \/ Timeout(r) \/ runTrigger(r))
  <2>1. act'[r] = "none"
    BY <1>6 DEF ReceiverRestarts
  <2>2. InOrder(r)' /\ StepsLeft(r)' = 0
    BY <2>1 DEF InOrder, StepsLeft
  <2>. QED
    BY <1>1, <1>6, <2>2 DEF Advances
<1>7. CASE UNCHANGED vars /\ ~(Script(r) \/ Timeout(r) \/ runTrigger(r))
  BY <1>1, <1>3, <1>7 DEF vars, InOrder, StepsLeft
<1>. QED
  BY <1>2, <1>4, <1>5, <1>6, <1>7 DEF Next

LEMMA InOrderHolds == Spec => [](\A r \in Runs : InOrder(r))
<1>1. Init => \A r \in Runs : InOrder(r)
  BY DEF Init, InOrder
<1>2. DeployInv /\ (\A r \in Runs : InOrder(r)) /\ [Next]_vars => (\A r \in Runs : InOrder(r))'
  BY AdvanceStep DEF Advances
<1>. QED
  BY <1>1, <1>2, DeployInvariant, PTL DEF Spec

(* An accepted deploy has at most MaxAttempts + 16 steps, whatever fails in *)
(* it and whenever it times out: every step of its script, the timeout and  *)
(* the return of the trigger leave fewer, and while it runs no delivery and *)
(* no restart of the receiver adds one.  With DeploysAreUnderWay this is    *)
(* what DeployEnds needs besides fairness.                                  *)
THEOREM DeploysAreBounded ==
    Spec => /\ [](\A r \in Runs : StepsLeft(r) \in 0..MaxAttempts + 16)
            /\ [][\A r \in Runs :
                    /\ Script(r) \/ Timeout(r) \/ runTrigger(r) => StepsLeft(r)' < StepsLeft(r)
                    /\ running => StepsLeft(r)' <= StepsLeft(r)]_vars
<1>1. DeployInv /\ (\A r \in Runs : InOrder(r)) => \A r \in Runs : StepsLeft(r) \in 0..MaxAttempts + 16
  BY StepsLeftRange DEF DeployInv
<1>2. DeployInv /\ (\A r \in Runs : InOrder(r)) /\ [Next]_vars
        => [\A r \in Runs :
              /\ Script(r) \/ Timeout(r) \/ runTrigger(r) => StepsLeft(r)' < StepsLeft(r)
              /\ running => StepsLeft(r)' <= StepsLeft(r)]_vars
  BY AdvanceStep DEF Advances
<1>. QED
  BY <1>1, <1>2, InOrderHolds, DeployInvariant, PTL DEF Spec
================================================================================
