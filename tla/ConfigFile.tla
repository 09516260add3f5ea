------------------------------- MODULE ConfigFile -------------------------------
(****************************************************************************)
(* The configuration file of the client (internal/config) and the commands  *)
(* "eosrift config add-authtoken", "set-server" and "set-host-header"       *)
(* (internal/cli), each a process that loads the file, changes one setting  *)
(* and saves it.  A process may be killed between any two steps.  The       *)
(* content of a file is the set of settings in it.                          *)
(****************************************************************************)
EXTENDS Naturals, Sequences

CONSTANTS
    Commands,   \* processes, each with a setting of its own to save
    Others,     \* settings no command changes: the tunnels, the inspector
    Torn,       \* content of a file that is not, or not wholly, written
    Broken,     \* content a user left in the file and that does not parse
    None        \* no file, no content

ASSUME ConfigAssumption ==
    /\ Torn # Broken /\ Torn # None /\ Broken # None
    /\ \A c \in SUBSET (Commands \cup Others) : c \notin {Torn, Broken, None}

VARIABLES
    file,       \* content of the configuration file
    first,      \* history: its content before the first command
    pc,         \* next step of each process
    cfg,        \* the settings it has in memory
    tmp,        \* content of its temporary file
    exit,       \* how it ended
    saves,      \* history: the processes that have saved, in order
    seen        \* history: how many saves there were when it loaded the file

vars == <<file, first, pc, cfg, tmp, exit, saves, seen>>

Contents == SUBSET (Commands \cup Others)
Over == {p \in Commands : exit[p] # "running"}

Init ==
    /\ file \in {None, Broken, {}, Others} /\ first = file
    /\ pc = [p \in Commands |-> "load"]
    /\ cfg = [p \in Commands |-> {}]
    /\ tmp = [p \in Commands |-> None]
    /\ exit = [p \in Commands |-> "running"]
    /\ saves = <<>> /\ seen = [p \in Commands |-> 0]

At(p, l) == p \notin Over /\ pc[p] = l
Goto(p, l) == pc' = [pc EXCEPT ![p] = l]
End(p, e) == exit' = [exit EXCEPT ![p] = e]
Put(p, c) == tmp' = [tmp EXCEPT ![p] = c]

(* Mutant: a file that does not parse counts as an empty one.               *)
LoadLeniently(p) ==
    /\ At(p, "load")
    /\ cfg' = [cfg EXCEPT ![p] = (IF file \in {None, Broken} THEN {} ELSE file) \cup {p}]
    /\ seen' = [seen EXCEPT ![p] = Len(saves)]
    /\ Goto(p, "create")
    /\ UNCHANGED <<file, first, tmp, exit, saves>>

(* Mutant: the command saves its own setting alone.                         *)
LoadNothing(p) ==
    /\ At(p, "load")
    /\ cfg' = [cfg EXCEPT ![p] = {p}]
    /\ seen' = [seen EXCEPT ![p] = Len(saves)]
    /\ Goto(p, "create")
    /\ UNCHANGED <<file, first, tmp, exit, saves>>

(* config.Load: no file is no error; one that cannot be read or parsed is.  *)
(* Then the command changes its setting.                                    *)
Load(p) ==
    /\ At(p, "load")
    /\ \/ /\ file # Broken
          /\ cfg' = [cfg EXCEPT ![p] = (IF file = None THEN {} ELSE file) \cup {p}]
          /\ seen' = [seen EXCEPT ![p] = Len(saves)]
          /\ Goto(p, "create") /\ UNCHANGED exit
       \/ End(p, "failed") /\ UNCHANGED <<pc, cfg, seen>>
    /\ UNCHANGED <<file, first, tmp, saves>>

(* Mutant: the file itself is truncated and written.                        *)
CreateInPlace(p) ==
    /\ At(p, "create")
    /\ file' = Torn /\ Put(p, Torn) /\ Goto(p, "write")
    /\ UNCHANGED <<first, cfg, exit, saves, seen>>

(* config.Save: MkdirAll and CreateTemp, in the directory of the file and   *)
(* under a name of its own.                                                 *)
Create(p) ==
    /\ At(p, "create")
    /\ \/ Put(p, Torn) /\ Goto(p, "write") /\ UNCHANGED exit
       \/ End(p, "failed") /\ UNCHANGED <<tmp, pc>>
    /\ UNCHANGED <<file, first, cfg, saves, seen>>

(* Chmod, Write and Close.                                                  *)
Write(p) ==
    /\ At(p, "write")
    /\ \/ Put(p, cfg[p]) /\ Goto(p, "rename")
       \/ UNCHANGED tmp /\ Goto(p, "remove")
    /\ UNCHANGED <<file, first, cfg, exit, saves, seen>>

(* os.Rename replaces the file in one step; the deferred Remove then finds  *)
(* nothing.                                                                 *)
Rename(p) ==
    /\ At(p, "rename")
    /\ \/ /\ file' = tmp[p] /\ Put(p, None) /\ End(p, "saved")
          /\ saves' = Append(saves, p) /\ UNCHANGED pc
       \/ Goto(p, "remove") /\ UNCHANGED <<file, tmp, exit, saves>>
    /\ UNCHANGED <<first, cfg, seen>>

(* The deferred Remove, whose error is ignored.                             *)
Remove(p) ==
    /\ At(p, "remove")
    /\ tmp' \in {tmp, [tmp EXCEPT ![p] = None]}
    /\ End(p, "failed")
    /\ UNCHANGED <<file, first, pc, cfg, saves, seen>>

Kill(p) ==
    /\ p \notin Over /\ End(p, "killed")
    /\ UNCHANGED <<file, first, pc, cfg, tmp, saves, seen>>

Next == \E p \in Commands : Load(p) \/ Create(p) \/ Write(p) \/ Rename(p) \/ Remove(p) \/ Kill(p)

Spec == Init /\ [][Next]_vars

----------------------------------------------------------------------------
(* Properties.                                                              *)

TypeOK ==
    /\ file # Torn /\ file \in Contents \cup {None, Broken}
    /\ first \in Contents \cup {None, Broken}
    /\ pc \in [Commands -> {"load", "create", "write", "rename", "remove"}]
    /\ cfg \in [Commands -> Contents]
    /\ tmp \in [Commands -> Contents \cup {Torn, None}]
    /\ exit \in [Commands -> {"running", "saved", "failed", "killed"}]
    /\ saves \in Seq(Commands)
    /\ seen \in [Commands -> 0..Len(saves)]

(* What the user has written stays: whatever commands run together, fail or *)
(* are killed half way, the file that tunnels are started from is a whole   *)
(* one with all the settings it had, and one that does not parse is left    *)
(* for the user to mend.                                                    *)
FileIsWhole ==
    IF first \in {None, Broken} THEN file \in {first} \cup (IF first = None THEN Contents ELSE {})
    ELSE file \in Contents /\ first \subseteq file

(* The setting of a command that reported success is in the file, unless    *)
(* another one loaded the file before that and saved it after: commands     *)
(* that run one after the other never lose a setting.                       *)
LostByOverlapOnly ==
    \A i \in DOMAIN saves :
        saves[i] \in file \/ \E j \in (i + 1)..Len(saves) : seen[saves[j]] < i
================================================================================
