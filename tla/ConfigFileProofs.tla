---------------------------- MODULE ConfigFileProofs ----------------------------
(****************************************************************************)
(* Proofs about the configuration file, for any commands and settings.      *)
(****************************************************************************)
EXTENDS ConfigFile, TLAPS

(* The save at place i was overwritten by one that had not seen it.         *)
Overlapped(i) == \E j \in (i + 1)..Len(saves) : seen[saves[j]] < i

(* A command that has loaded the file holds all it had then, and what has   *)
(* been saved before that or has been lost by overlap already.              *)
Holds(p) ==
    /\ p \in cfg[p] /\ first # Broken /\ (first = None \/ first \subseteq cfg[p])
    /\ \A i \in DOMAIN saves : i <= seen[p] => saves[i] \in cfg[p] \/ Overlapped(i)
    /\ pc[p] = "rename" => tmp[p] = cfg[p]

History ==
    /\ saves # <<>> => file \in Contents
    /\ \A i \in DOMAIN saves : exit[saves[i]] = "saved"

FileInv ==
    /\ TypeOK /\ FileIsWhole /\ LostByOverlapOnly /\ History
    /\ \A p \in Commands : exit[p] = "running" /\ pc[p] # "load" => Holds(p)

LEMMA Distinct ==
    /\ Torn # Broken /\ Torn # None /\ Broken # None
    /\ \A c \in Contents : c # Torn /\ c # Broken /\ c # None
BY ConfigAssumption DEF Contents

LEMMA FileInit == Init => FileInv
<1>. SUFFICES ASSUME Init PROVE FileInv
  OBVIOUS
<1>1. {} \in Contents /\ Others \in Contents
  BY DEF Contents
<1>2. saves = <<>> /\ DOMAIN saves = {}
  BY DEF Init
<1>3. TypeOK
  <2>1. file # Torn /\ file \in Contents \cup {None, Broken} /\ first = file
    BY <1>1, Distinct DEF Init
  <2>2. saves \in Seq(Commands) /\ seen \in [Commands -> 0..Len(saves)]
    BY <1>2 DEF Init
  <2>. QED
    BY <1>1, <2>1, <2>2 DEF Init, TypeOK
<1>4. FileIsWhole
  BY <1>1, Distinct DEF Init, FileIsWhole
<1>5. LostByOverlapOnly /\ History
  BY <1>2 DEF LostByOverlapOnly, History
<1>6. \A p \in Commands : pc[p] = "load"
  BY DEF Init
<1>. QED
  BY <1>3, <1>4, <1>5, <1>6 DEF FileInv

(* A command takes in the whole of the file it has loaded.                  *)
LEMMA LoadStep == ASSUME FileInv, NEW p \in Commands, Load(p) PROVE FileInv'
<1>. USE DEF FileInv, At, Over, Goto, End
<1>1. CASE exit' # exit
  <2>1. exit' = [exit EXCEPT ![p] = "failed"] /\ exit[p] = "running"
    BY <1>1 DEF Load, TypeOK
  <2>2. UNCHANGED <<file, first, pc, cfg, tmp, saves, seen>>
    BY <1>1 DEF Load
  <2>3. TypeOK'
    BY <2>1, <2>2 DEF TypeOK
  <2>4. FileIsWhole' /\ LostByOverlapOnly'
    BY <2>2 DEF FileIsWhole, LostByOverlapOnly
  <2>5. History'
    BY <2>1, <2>2 DEF History, TypeOK
  <2>6. ASSUME NEW q \in Commands, exit'[q] = "running", pc'[q] # "load" PROVE Holds(q)'
    BY <2>1, <2>2, <2>6 DEF Holds, Overlapped, TypeOK
  <2>. QED
    BY <2>3, <2>4, <2>5, <2>6
<1>2. CASE exit' = exit
  <2>. DEFINE c == IF file = None THEN {} ELSE file
  <2>1. /\ exit[p] = "running" /\ pc[p] = "load" /\ file # Broken
        /\ cfg' = [cfg EXCEPT ![p] = c \cup {p}]
        /\ seen' = [seen EXCEPT ![p] = Len(saves)]
        /\ pc' = [pc EXCEPT ![p] = "create"]
        /\ UNCHANGED <<file, first, tmp, exit, saves>>
    BY <1>2 DEF Load, TypeOK
  <2>2. c \in Contents
    BY <2>1, Distinct DEF TypeOK, Contents
  <2>3. c \cup {p} \in Contents
    BY <2>2 DEF Contents
  <2>4. Len(saves) \in Nat
    BY DEF TypeOK
  <2>5. TypeOK'
    BY <2>1, <2>3, <2>4 DEF TypeOK
  <2>6. ASSUME NEW i \in DOMAIN saves, Overlapped(i) PROVE Overlapped(i)'
    <3>1. PICK j \in (i + 1)..Len(saves) : seen[saves[j]] < i
      BY <2>6 DEF Overlapped
    <3>2. j \in DOMAIN saves /\ saves[j] \in Commands /\ exit[saves[j]] = "saved"
      BY <3>1 DEF TypeOK, History
    <3>3. seen'[saves[j]] = seen[saves[j]]
      BY <2>1, <3>2 DEF TypeOK
    <3>. QED
      BY <2>1, <3>1, <3>3 DEF Overlapped
  <2>7. FileIsWhole' /\ History'
    BY <2>1 DEF FileIsWhole, History
  <2>8. LostByOverlapOnly'
    BY <2>1, <2>6 DEF LostByOverlapOnly, Overlapped
  <2>9. ASSUME NEW q \in Commands, exit'[q] = "running", pc'[q] # "load" PROVE Holds(q)'
    <3>1. CASE q # p
      <4>1. cfg'[q] = cfg[q] /\ seen'[q] = seen[q] /\ pc'[q] = pc[q] /\ Holds(q)
        BY <2>1, <2>9, <3>1 DEF TypeOK
      <4>. QED
        BY <2>1, <2>6, <4>1 DEF Holds
    <3>2. CASE q = p
      <4>1. cfg'[p] = c \cup {p} /\ pc'[p] = "create"
        BY <2>1 DEF TypeOK
      <4>2. first # Broken /\ (first = None \/ first \subseteq c)
        BY <2>1, Distinct DEF FileIsWhole, TypeOK
      <4>3. ASSUME NEW i \in DOMAIN saves PROVE saves[i] \in c \/ Overlapped(i)
        <5>1. saves # <<>>
          BY <4>3
        <5>2. c = file
          BY <5>1, Distinct DEF History
        <5>. QED
          BY <5>2 DEF LostByOverlapOnly, Overlapped
      <4>. QED
        BY <2>1, <2>6, <3>2, <4>1, <4>2, <4>3 DEF Holds
    <3>. QED
      BY <3>1, <3>2
  <2>. QED
    BY <2>5, <2>7, <2>8, <2>9
<1>. QED
  BY <1>1, <1>2

(* Nothing but Load and Rename touches what is saved or loaded.             *)
LEMMA OtherStep ==
    ASSUME FileInv, NEW p \in Commands, Create(p) \/ Write(p) \/ Remove(p) \/ Kill(p)
    PROVE  FileInv'
<1>. USE DEF FileInv
<1>1. UNCHANGED <<file, first, cfg, saves, seen>> /\ exit[p] = "running"
  BY DEF Create, Write, Remove, Kill, At, Over, TypeOK
<1>2. TypeOK'
  BY DEF TypeOK, Create, Write, Remove, Kill, Put, Goto, End
<1>3. \A q \in Commands \ {p} : exit'[q] = exit[q] /\ pc'[q] = pc[q] /\ tmp'[q] = tmp[q]
  BY DEF Create, Write, Remove, Kill, Put, Goto, End, TypeOK
<1>4. FileIsWhole' /\ LostByOverlapOnly'
  BY <1>1 DEF FileIsWhole, LostByOverlapOnly
<1>5. History'
  BY <1>1, <1>3 DEF History, TypeOK
<1>6. exit'[p] = "running" => pc[p] # "load" /\ (pc'[p] = "rename" => tmp'[p] = cfg[p])
  BY DEF Create, Write, Remove, Kill, At, Over, Put, Goto, End, TypeOK
<1>7. ASSUME NEW q \in Commands, exit'[q] = "running", pc'[q] # "load" PROVE Holds(q)'
  BY <1>1, <1>3, <1>6, <1>7 DEF Holds, Overlapped
<1>. QED
  BY <1>2, <1>4, <1>5, <1>7

(* What replaces the file holds all the first one did, and any save missing *)
(* from it is one this command had not seen.                                *)
LEMMA RenameStep == ASSUME FileInv, NEW p \in Commands, Rename(p) PROVE FileInv'
<1>. USE DEF FileInv
<1>1. exit[p] = "running" /\ pc[p] = "rename" /\ UNCHANGED <<first, cfg, seen>> /\ Holds(p)
  BY DEF Rename, At, Over, TypeOK
<1>2. CASE UNCHANGED <<file, tmp, exit, saves>> /\ Goto(p, "remove")
  <2>1. TypeOK'
    BY <1>1, <1>2 DEF TypeOK, Goto
  <2>2. FileIsWhole' /\ LostByOverlapOnly' /\ History'
    BY <1>1, <1>2 DEF FileIsWhole, LostByOverlapOnly, History
  <2>3. ASSUME NEW q \in Commands, exit'[q] = "running", pc'[q] # "load" PROVE Holds(q)'
    BY <1>1, <1>2, <2>3 DEF Holds, Overlapped, Goto, TypeOK
  <2>. QED
    BY <2>1, <2>2, <2>3
<1>3. CASE file' = tmp[p] /\ Put(p, None) /\ End(p, "saved") /\ saves' = Append(saves, p) /\ UNCHANGED pc
  <2>1. file' = cfg[p] /\ cfg[p] \in Contents
    BY <1>1, <1>3 DEF Holds, TypeOK
  <2>2. /\ Len(saves') = Len(saves) + 1 /\ saves'[Len(saves) + 1] = p
        /\ saves' \in Seq(Commands) /\ Len(saves) \in Nat
        /\ \A i \in DOMAIN saves : saves'[i] = saves[i]
        /\ DOMAIN saves' = DOMAIN saves \cup {Len(saves) + 1} /\ DOMAIN saves = 1..Len(saves)
    BY <1>3 DEF TypeOK
  <2>3. seen \in [Commands -> 0..(Len(saves) + 1)]
    BY <2>2 DEF TypeOK
  <2>4. TypeOK'
    BY <1>1, <1>3, <2>1, <2>2, <2>3, Distinct DEF TypeOK, Put, End
  <2>5. FileIsWhole'
    BY <1>1, <2>1 DEF FileIsWhole, Holds
  <2>6. ASSUME NEW i \in DOMAIN saves, Overlapped(i) PROVE Overlapped(i)'
    <3>1. PICK j \in (i + 1)..Len(saves) : seen[saves[j]] < i
      BY <2>6 DEF Overlapped
    <3>2. j \in DOMAIN saves /\ j \in (i + 1)..Len(saves')
      BY <2>2, <3>1
    <3>. QED
      BY <1>1, <2>2, <3>1, <3>2 DEF Overlapped
  <2>7. ASSUME NEW i \in DOMAIN saves PROVE saves[i] \in cfg[p] \/ Overlapped(i)'
    <3>1. CASE i <= seen[p]
      BY <1>1, <2>6, <3>1 DEF Holds
    <3>2. CASE seen[p] < i
      <4>1. Len(saves) + 1 \in (i + 1)..Len(saves')
        BY <2>2
      <4>. QED
        BY <1>1, <2>2, <3>2, <4>1 DEF Overlapped
    <3>. QED
      BY <2>2, <3>1, <3>2 DEF TypeOK
  <2>8. LostByOverlapOnly'
    <3>. SUFFICES ASSUME NEW i \in DOMAIN saves' PROVE (saves[i] \in file \/ Overlapped(i))'
      BY DEF LostByOverlapOnly, Overlapped
    <3>1. CASE i \in DOMAIN saves
      BY <2>1, <2>2, <2>7, <3>1
    <3>2. CASE i = Len(saves) + 1
      BY <1>1, <2>1, <2>2, <3>2 DEF Holds
    <3>. QED
      BY <2>2, <3>1, <3>2
  <2>9. History'
    BY <1>3, <2>1, <2>2 DEF History, TypeOK, End
  <2>10. ASSUME NEW q \in Commands, exit'[q] = "running", pc'[q] # "load" PROVE Holds(q)'
    <3>1. q # p /\ exit[q] = "running" /\ tmp'[q] = tmp[q] /\ Holds(q)
      BY <1>3, <2>10 DEF End, Put, TypeOK
    <3>2. ASSUME NEW i \in DOMAIN saves', i <= seen[q] PROVE saves'[i] \in cfg[q] \/ Overlapped(i)'
      <4>1. i \in DOMAIN saves
        BY <2>2, <3>2 DEF TypeOK
      <4>. QED
        BY <2>2, <2>6, <3>1, <3>2, <4>1 DEF Holds
    <3>. QED
      BY <1>1, <1>3, <3>1, <3>2 DEF Holds
  <2>. QED
    BY <2>4, <2>5, <2>8, <2>9, <2>10
<1>. QED
  BY <1>1, <1>2, <1>3 DEF Rename

LEMMA FileInvariant == Spec => []FileInv
<1>1. ASSUME FileInv, UNCHANGED vars PROVE FileInv'
  BY <1>1 DEF vars, FileInv, TypeOK, FileIsWhole, LostByOverlapOnly, History, Holds, Overlapped
<1>2. FileInv /\ [Next]_vars => FileInv'
  BY <1>1, LoadStep, OtherStep, RenameStep DEF Next
<1>. QED
  BY <1>2, FileInit, PTL DEF Spec

(* Types of the file, the processes and their temporary files.              *)
THEOREM FileTypes == Spec => []TypeOK
BY FileInvariant, PTL DEF FileInv

(* Whichever commands run together, fail or are killed, config.yml is a     *)
(* whole file with all the settings it had.                                 *)
THEOREM FileStaysWhole == Spec => []FileIsWhole
BY FileInvariant, PTL DEF FileInv

(* A saved setting is lost only to a command that loaded the file before    *)
(* and saved it after.                                                      *)
THEOREM SavesAreKept == Spec => []LostByOverlapOnly
BY FileInvariant, PTL DEF FileInv
================================================================================
