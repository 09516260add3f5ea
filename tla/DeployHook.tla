------------------------------ MODULE DeployHook -------------------------------
(****************************************************************************)
(* The deploy webhook: the HTTP handler of internal/deployhook, the trigger *)
(* of cmd/deployhook that runs the deploy script under a timeout, and the   *)
(* script deploy/webhook/eosrift-deploy.sh, which reports its progress in a *)
(* status file that the server's admin page reads (readDeployStatus).       *)
(****************************************************************************)
EXTENDS Naturals, FiniteSets

CONSTANTS
    Runs,           \* workflow runs GitHub may report
    MaxAttempts,    \* HEALTH_ATTEMPTS
    NoStatus        \* the file does not exist

ASSUME DeployAssumption == IsFiniteSet(Runs) /\ MaxAttempts \in Nat \ {0}

VARIABLES
    running,        \* Handler.running
    stage,          \* run -> stage the script is in
    act,            \* run -> what the script does next
    child,          \* runs of which a docker, curl or sleep command is running
    attempt,        \* run -> health check attempts made
    tmp,            \* the file STATUS_PATH.tmp
    status,         \* the file STATUS_PATH
    healthy,        \* history: runs whose health check passed
    interrupted     \* history: runs whose script ended without its last word

vars == <<running, stage, act, child, attempt, tmp, status,
          healthy, interrupted>>
history == <<healthy, interrupted>>

Stages == {"init", "pull", "recreate", "health", "success", "error"}
Acts == {"none", "begin", "tmp", "mv", "cmd", "exited", "killed"}
States == {"running", "success", "error"}

(* What of a delivery the handler looks at; match: the six comparisons of   *)
(* Handler.match.                                                           *)
Delivery == [signed : BOOLEAN, event : {"ping", "workflow_run"}, match : BOOLEAN, run : Runs]

Init ==
    /\ running = FALSE
    /\ stage = [r \in Runs |-> "init"] /\ act = [r \in Runs |-> "none"]
    /\ child = {} /\ attempt = [r \in Runs |-> 0]
    /\ tmp = NoStatus /\ status = NoStatus
    /\ healthy = {} /\ interrupted = {}

----------------------------------------------------------------------------
(* ServeHTTP: everything but a signed, matching workflow_run event is       *)
(* answered without effect, and so is a matching one while running is set.  *)
Matches(e) == e.signed /\ e.event = "workflow_run" /\ e.match

ServeHTTP(e) ==
    /\ IF Matches(e) /\ ~running
       THEN /\ running' = TRUE
            /\ stage' = [stage EXCEPT ![e.run] = "init"]
            /\ act' = [act EXCEPT ![e.run] = "begin"]
            /\ attempt' = [attempt EXCEPT ![e.run] = 0]
            /\ interrupted' = interrupted \ {e.run}
       ELSE UNCHANGED <<running, stage, act, attempt, interrupted>>
    /\ UNCHANGED <<child, tmp, status, healthy>>

(* Mutants: it does not wait for the output pipe; running is cleared only   *)
(* when the trigger succeeded.                                              *)
runTriggerNoWait(r) ==
    /\ act[r] \in {"exited", "killed"}
    /\ running' = FALSE
    /\ act' = [act EXCEPT ![r] = "none"]
    /\ UNCHANGED <<stage, child, attempt, tmp, status, history>>
runTriggerStuck(r) ==
    /\ act[r] \in {"exited", "killed"} /\ r \notin child
    /\ running' = (act[r] = "killed")
    /\ act' = [act EXCEPT ![r] = "none"]
    /\ UNCHANGED <<stage, child, attempt, tmp, status, history>>

(* runTrigger returns once cmd.Run does: the script has ended, and so has   *)
(* every command that inherited its output pipe.  The curl of the health    *)
(* check writes to /dev/null, so a killed health check may be left behind;  *)
(* it only reads, and is forgotten here.                                    *)
runTrigger(r) ==
    /\ act[r] \in {"exited", "killed"}
    /\ r \notin child \/ stage[r] = "health"
    /\ running' = FALSE
    /\ act' = [act EXCEPT ![r] = "none"]
    /\ child' = child \ {r}
    /\ UNCHANGED <<stage, attempt, tmp, status, history>>

(* The timeout kills the shell, not the command it is waiting for; the trap *)
(* of the script does not run.                                              *)
Timeout(r) ==
    /\ act[r] \in {"begin", "tmp", "mv", "cmd"}
    /\ act' = [act EXCEPT ![r] = "killed"]
    /\ interrupted' = interrupted \cup {r}
    /\ UNCHANGED <<running, stage, child, attempt, tmp, status, healthy>>

----------------------------------------------------------------------------
(* The script.                                                              *)

To(r, s, a) ==
    /\ stage' = [stage EXCEPT ![r] = s]
    /\ act' = [act EXCEPT ![r] = a]

(* The working directory is checked before the trap is set.                 *)
ScriptBegins(r) ==
    /\ act[r] = "begin"
    /\ \/ To(r, "pull", "tmp") /\ UNCHANGED interrupted
       \/ To(r, "init", "exited") /\ interrupted' = interrupted \cup {r}
    /\ UNCHANGED <<running, child, attempt, tmp, status, healthy>>

(* Mutant: success is written before the health check.                      *)
StateOfEarly(s) ==
    IF s \in {"health", "success"} THEN "success" ELSE IF s = "error" THEN s ELSE "running"

StateOf(s) == IF s \in {"success", "error"} THEN s ELSE "running"
LastStage(s) == s \in {"success", "error"}

(* write_status: the new contents go to a temporary file, which then        *)
(* replaces the status file.                                                *)
WriteTmp(r) ==
    /\ act[r] = "tmp"
    /\ tmp' = [state |-> StateOf(stage[r]), run |-> r]
    /\ To(r, stage[r], "mv")
    /\ UNCHANGED <<running, child, attempt, status, history>>

MoveStatus(r) ==
    /\ act[r] = "mv"
    /\ status' = tmp /\ tmp' = NoStatus
    /\ IF LastStage(stage[r])
       THEN To(r, stage[r], "exited") /\ UNCHANGED child
       ELSE To(r, stage[r], "cmd") /\ child' = child \cup {r}
    /\ UNCHANGED <<running, attempt, history>>

(* set -e: a write that fails ends the script through its trap, which       *)
(* writes "error"; when that fails too, for good.                           *)
WriteFails(r) ==
    /\ act[r] \in {"tmp", "mv"}
    /\ IF stage[r] = "error"
       THEN To(r, "error", "exited") /\ interrupted' = interrupted \cup {r}
       ELSE To(r, "error", "tmp") /\ UNCHANGED interrupted
    /\ UNCHANGED <<running, child, attempt, tmp, status, healthy>>

(* compose pull, compose up, and the health check loop.                     *)
CommandSucceeds(r) ==
    /\ act[r] = "cmd" /\ r \in child
    /\ \/ stage[r] = "pull" /\ To(r, "recreate", "tmp") /\ UNCHANGED healthy
       \/ stage[r] = "recreate" /\ To(r, "health", "tmp") /\ UNCHANGED healthy
       \/ stage[r] = "health" /\ To(r, "success", "tmp") /\ healthy' = healthy \cup {r}
    /\ child' = child \ {r}
    /\ UNCHANGED <<running, attempt, tmp, status, interrupted>>

CommandFails(r) ==
    /\ act[r] = "cmd" /\ r \in child
    /\ \/ /\ stage[r] = "health" /\ attempt[r] + 1 < MaxAttempts
          /\ attempt' = [attempt EXCEPT ![r] = @ + 1]
          /\ UNCHANGED <<stage, act, child>>
       \/ /\ stage[r] # "health" \/ attempt[r] + 1 = MaxAttempts
          /\ To(r, "error", "tmp") /\ child' = child \ {r} /\ UNCHANGED attempt
    /\ UNCHANGED <<running, tmp, status, history>>

(* A command whose shell was killed ends on its own.                        *)
OrphanEnds(r) ==
    /\ act[r] = "killed" /\ r \in child
    /\ child' = child \ {r}
    /\ UNCHANGED <<running, stage, act, attempt, tmp, status, history>>

(* The receiver's container stops and starts again: every process in it is  *)
(* gone, the files stay.                                                    *)
ReceiverRestarts ==
    /\ running' = FALSE
    /\ act' = [r \in Runs |-> "none"]
    /\ child' = {}
    /\ interrupted' = interrupted \cup {r \in Runs : act[r] \in {"begin", "tmp", "mv", "cmd"}}
    /\ UNCHANGED <<stage, attempt, tmp, status, healthy>>

Script(r) ==
    \/ ScriptBegins(r) \/ WriteTmp(r) \/ MoveStatus(r) \/ WriteFails(r)
    \/ CommandSucceeds(r) \/ CommandFails(r) \/ OrphanEnds(r)

Next ==
    \/ \E e \in Delivery : ServeHTTP(e)
    \/ \E r \in Runs : Script(r) \/ Timeout(r) \/ runTrigger(r)
    \/ ReceiverRestarts

Spec == Init /\ [][Next]_vars

(* The script and the commands it runs make progress (each ends by itself,  *)
(* after a kill too), and runTrigger returns when it can.                   *)
Fairness == \A r \in Runs : WF_vars(Script(r)) /\ WF_vars(runTrigger(r))
FairSpec == Spec /\ Fairness

----------------------------------------------------------------------------
TypeOK ==
    /\ running \in BOOLEAN
    /\ stage \in [Runs -> Stages] /\ act \in [Runs -> Acts]
    /\ child \subseteq Runs /\ attempt \in [Runs -> Nat]
    /\ {tmp, status} \subseteq [state : States, run : Runs] \cup {NoStatus}
    /\ healthy \subseteq Runs /\ interrupted \subseteq Runs

Busy == {r \in Runs : act[r] \in {"begin", "tmp", "mv", "cmd"} \/ r \in child}

(* Two deploys never work on the service at once, not even a new one and    *)
(* the commands a timed out one left running (running.CompareAndSwap, and   *)
(* cmd.Run waiting for the output pipe).                                    *)
OneDeployAtATime ==
    /\ Cardinality(Busy) <= 1
    /\ Busy # {} => running

(* What the admin page shows is true: success only after that run's health  *)
(* check passed, and "running" without a running deploy only for a run that *)
(* was interrupted (killed, restarted, or unable to write).                 *)
StatusIsTruthful ==
    status # NoStatus =>
        /\ status.state = "success" => status.run \in healthy
        /\ status.state = "running" /\ ~running => status.run \in interrupted

(* The receiver always becomes free again: a deploy that was accepted ends, *)
(* whatever fails in it.                                                    *)
DeployEnds == running ~> ~running
================================================================================
