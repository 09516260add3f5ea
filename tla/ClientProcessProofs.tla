-------------------------- MODULE ClientProcessProofs --------------------------
(****************************************************************************)
(* Proofs about a run of the client and its inspector, for any number of    *)
(* tunnels, any ids and any limit of the store.                             *)
(****************************************************************************)
EXTENDS ClientProcess, FiniteSetTheorems, SequenceTheorems, TLAPS

USE DEF storeVars, pageVars, inspectorVars, Running

----------------------------------------------------------------------------
(* The tunnels: what their moves are.                                       *)

States == [life : {"starting", "failed", "up", "ended"}, told : BOOLEAN, deaf : BOOLEAN,
           result : {"none", "nil", "ctx", "err"}]

LEMMA SameStates == ASSUME NEW t PROVE Life(t)!States = States
  BY DEF Life!States, Life!Lives, Life!Results, States

LEMMA StartMove ==
    ASSUME NEW t, NEW s \in States, NEW u \in Life(t)!StartMoves(s)
    PROVE  /\ u \in States /\ s.life = "starting" /\ u.life \in {"up", "failed"}
           /\ u.told = s.told /\ u.result = s.result
  BY DEF Life!StartMoves, States

LEMMA ToldMove ==
    ASSUME NEW t, NEW s \in States
    PROVE  /\ Life(t)!Told(s) \in States
           /\ Life(t)!Told(s).life = s.life /\ Life(t)!Told(s).result = s.result
           /\ \A u \in Life(t)!ToldMoves(s) : u = Life(t)!Told(s) /\ s.life \in {"up", "ended"}
  BY DEF Life!ToldMoves, Life!Told, States

LEMMA EndMove ==
    ASSUME NEW t, NEW s \in States, NEW c \in BOOLEAN, NEW u \in Life(t)!EndMoves(s, c)
    PROVE  /\ u \in States /\ s.life = "up" /\ u.life = "ended"
           /\ u.told = s.told /\ u.result # "none"
           /\ u.result = "nil" => s.told
           /\ u.result = "ctx" => c
<1>1. PICK r \in {x \in Life(t)!Results \ {"none"} : s.life = "up" /\ Life(t)!MayEnd(s, c, x)} :
         u = [life |-> "ended", told |-> s.told, deaf |-> FALSE, result |-> r]
  BY Zenon DEF Life!EndMoves
<1>2. /\ r \in {"nil", "ctx", "err"} /\ s.life = "up"
      /\ r = "nil" => s.told
      /\ r = "ctx" => c
  BY DEF Life!MayEnd, Life!Results
<1>3. s.told \in BOOLEAN
  BY DEF States
<1>. QED
  BY <1>1, <1>2, <1>3 DEF States

LEMMA DeafMove ==
    ASSUME NEW t, NEW s \in States, NEW u \in Life(t)!DeafMoves(s)
    PROVE  /\ u \in States /\ u.life = s.life /\ u.told = s.told /\ u.result = s.result
  BY DEF Life!DeafMoves, States

----------------------------------------------------------------------------
(* The store and its page.                                                  *)

LEMMA NewestOf ==
    ASSUME NEW S, NEW s \in Seq(S)
    PROVE  LET n == IF Len(s) > MaxEntries THEN MaxEntries ELSE Len(s)
           IN  /\ Newest(s) \in Seq(S) /\ Len(Newest(s)) = n
               /\ \A k \in 1..n : Newest(s)[k] = s[Len(s) - n + k]
<1>. DEFINE m == IF Len(s) > MaxEntries THEN Len(s) - MaxEntries + 1 ELSE 1
<1>1. Len(s) \in Nat /\ MaxEntries \in Nat \ {0}
  BY InspectorAssumption
<1>2. m \in 1..Len(s) + 1 /\ m \in Int /\ Len(s) \in Int
  BY <1>1
<1>3. \A i \in m..Len(s) : s[i] \in S
  BY <1>1, <1>2, ElementOfSeq
<1>4. Newest(s) = SubSeq(s, m, Len(s))
  BY DEF Newest
<1>. HIDE DEF m
<1>5. /\ Newest(s) \in Seq(S)
      /\ Len(Newest(s)) = IF m <= Len(s) THEN Len(s) - m + 1 ELSE 0
      /\ \A i \in 1..Len(s) - m + 1 : Newest(s)[i] = s[m + i - 1]
  BY <1>2, <1>3, <1>4, SubSeqProperties
<1>. DEFINE n == IF Len(s) > MaxEntries THEN MaxEntries ELSE Len(s)
<1>6. n = Len(s) - m + 1 /\ n \in Nat /\ (m <= Len(s) \/ n = 0)
  BY <1>1 DEF m
<1>7. Len(Newest(s)) = n
  BY <1>1, <1>2, <1>5, <1>6
<1>. HIDE DEF n
<1>8. \A k \in 1..n : Newest(s)[k] = s[Len(s) - n + k]
  BY <1>1, <1>2, <1>5, <1>6
<1>. QED
  BY <1>5, <1>7, <1>8 DEF n

LEMMA AddedEntries ==
    ASSUME NEW S, NEW s \in Seq(S), NEW x \in S
    PROVE  ToSet(Newest(Append(s, x))) \subseteq ToSet(s) \cup {x}
<1>. DEFINE u == Append(s, x)
            n == IF Len(u) > MaxEntries THEN MaxEntries ELSE Len(u)
<1>1. /\ u \in Seq(S) /\ Len(u) = Len(s) + 1 /\ Len(s) \in Nat /\ MaxEntries \in Nat
      /\ \A k \in 1..Len(s) : u[k] = s[k]
      /\ u[Len(s) + 1] = x
  BY InspectorAssumption, AppendProperties
<1>. HIDE DEF u
<1>2. /\ Newest(u) \in Seq(S) /\ Len(Newest(u)) = n
      /\ \A k \in 1..n : Newest(u)[k] = u[Len(u) - n + k]
  BY <1>1, NewestOf
<1>3. n \in Nat /\ n <= Len(u)
  BY <1>1
<1>. HIDE DEF n
<1>4. DOMAIN Newest(u) = 1..n /\ DOMAIN s = 1..Len(s)
  BY <1>2, <1>3
<1>5. ASSUME NEW k \in 1..n PROVE Newest(u)[k] \in ToSet(s) \cup {x}
  <2>1. Len(u) - n + k \in 1..Len(s) + 1 /\ Newest(u)[k] = u[Len(u) - n + k]
    <3>1. k \in Nat /\ 1 <= k /\ k <= n
      BY <1>3
    <3>2. Len(u) - n + k \in 1..Len(s) + 1
      BY <1>1, <1>3, <3>1
    <3>. QED
      BY <1>2, <3>2
  <2>2. PICK j \in 1..Len(s) + 1 : Newest(u)[k] = u[j]
    BY <2>1
  <2>. QED
    BY <1>1, <1>4, <2>2 DEF ToSet
<1>6. ToSet(Newest(u)) \subseteq ToSet(s) \cup {x}
  BY <1>4, <1>5 DEF ToSet
<1>. QED
  BY <1>6 DEF u

LEMMA ListOf ==
    ASSUME NEW S, NEW s \in Seq(S)
    PROVE  Reverse(s) \in Seq(S) /\ Len(Reverse(s)) = Len(s)
           /\ ToSet(Reverse(s)) \subseteq ToSet(s)
<1>1. Len(s) \in Nat /\ \A i \in 1..Len(s) : Len(s) - i + 1 \in 1..Len(s) /\ s[Len(s) - i + 1] \in S
  BY ElementOfSeq
<1>2. Reverse(s) \in [1..Len(s) -> S]
  BY <1>1 DEF Reverse
<1>3. Reverse(s) \in Seq(S) /\ Len(Reverse(s)) = Len(s)
  BY <1>1, <1>2
<1>4. DOMAIN Reverse(s) = 1..Len(s) /\ DOMAIN s = 1..Len(s)
  BY <1>2
<1>5. \A i \in 1..Len(s) : Reverse(s)[i] = s[Len(s) - i + 1]
  BY DEF Reverse
<1>. QED
  BY <1>1, <1>3, <1>4, <1>5 DEF ToSet

(* An entry the page shows or a replay is for: it was captured, and no other*)
(* entry of the store has its id.                                           *)
Agrees(e) ==
    /\ e \in Entries /\ e.id <= nextID
    /\ \A f \in ToSet(entries) : f.id = e.id => f = e

StoreInv ==
    /\ InspectorTypeOK /\ StoreHoldsNewest
    /\ \A e \in ToSet(shown) : Agrees(e)
    /\ replay.step # "idle" => Agrees(replay.want)
    /\ ReplayRunsWhatWasShown

LEMMA EntryAgrees == ASSUME StoreInv, NEW e \in ToSet(entries) PROVE Agrees(e)
<1>1. entries \in Seq(Entries) /\ nextID \in Nat /\ MaxEntries \in Nat
  BY InspectorAssumption DEF StoreInv, InspectorTypeOK
<1>2. DOMAIN entries = 1..Len(entries) /\ Len(entries) \in Nat
  BY <1>1
<1>3. \A k \in 1..Len(entries) : entries[k].id = nextID - Len(entries) + k
  BY DEF StoreInv, StoreHoldsNewest
<1>4. PICK j \in 1..Len(entries) : e = entries[j]
  BY <1>2 DEF ToSet
<1>5. e \in Entries /\ e.id <= nextID
  BY <1>1, <1>2, <1>3, <1>4, ElementOfSeq
<1>6. ASSUME NEW f \in ToSet(entries), f.id = e.id PROVE f = e
  <2>1. PICK k \in 1..Len(entries) : f = entries[k]
    BY <1>2 DEF ToSet
  <2>2. k = j
    BY <1>1, <1>2, <1>3, <1>4, <1>6, <2>1
  <2>. QED
    BY <1>4, <2>1, <2>2
<1>. QED
  BY <1>5, <1>6 DEF Agrees

LEMMA AddStep == ASSUME StoreInv, NEW i \in TunnelIDs, Add(i) PROVE StoreInv'
<1>. DEFINE new == [id |-> nextID + 1, tunnel |-> i]
            longer == Append(entries, new)
<1>1. /\ entries \in Seq(Entries) /\ nextID \in 0..MaxRequests /\ Len(entries) \in Nat
      /\ MaxEntries \in Nat \ {0} /\ MaxRequests \in Nat /\ nextID < MaxRequests
  BY InspectorAssumption DEF StoreInv, InspectorTypeOK, Add
<1>2. new \in Entries /\ new.id = nextID + 1
  BY <1>1 DEF Entries
<1>. HIDE DEF new
<1>3. /\ longer \in Seq(Entries) /\ Len(longer) = Len(entries) + 1
      /\ \A k \in 1..Len(entries) : longer[k] = entries[k]
      /\ longer[Len(entries) + 1] = new
  BY <1>1, <1>2, AppendProperties
<1>. HIDE DEF longer
<1>4. /\ entries' = Newest(longer) /\ nextID' = nextID + 1
      /\ UNCHANGED <<targets, shown, selected, replay>>
  BY DEF Add, new, longer
<1>. DEFINE n == IF Len(longer) > MaxEntries THEN MaxEntries ELSE Len(longer)
<1>5. /\ entries' \in Seq(Entries) /\ Len(entries') = n
      /\ \A k \in 1..n : entries'[k] = longer[Len(longer) - n + k]
  BY <1>3, <1>4, NewestOf
<1>6. /\ n \in Nat /\ n <= MaxEntries /\ n <= Len(longer) /\ Len(longer) \in Nat
       /\ n = IF nextID' < MaxEntries THEN nextID' ELSE MaxEntries
  <2>1. Len(entries) = IF nextID < MaxEntries THEN nextID ELSE MaxEntries
    BY DEF StoreInv, StoreHoldsNewest
  <2>. QED
    BY <1>1, <1>3, <1>4, <2>1
<1>. HIDE DEF n
<1>7. \A k \in 1..n : Len(longer) - n + k \in 1..Len(longer)
  BY <1>6
<1>8. InspectorTypeOK'
  BY <1>1, <1>3, <1>4, <1>5, <1>6 DEF StoreInv, InspectorTypeOK
<1>9. \A k \in 1..Len(longer) : longer[k].id = nextID + 1 - Len(longer) + k
  <2>1. \A k \in 1..Len(entries) : entries[k].id = nextID - Len(entries) + k
    BY DEF StoreInv, StoreHoldsNewest
  <2>. QED
    BY <1>1, <1>2, <1>3, <2>1
<1>10. StoreHoldsNewest'
  <2>1. ASSUME NEW k \in 1..n PROVE entries'[k].id = nextID' - n + k
    <3>1. entries'[k].id = nextID + 1 - Len(longer) + (Len(longer) - n + k)
      BY <1>5, <1>9, <1>7
    <3>. QED
      BY <1>1, <1>4, <1>6, <3>1
  <2>. QED
    BY <1>5, <1>6, <2>1 DEF StoreHoldsNewest
<1>11. ToSet(entries') \subseteq ToSet(entries) \cup {new}
  BY <1>1, <1>2, <1>4, AddedEntries DEF longer
<1>12. ASSUME NEW e, Agrees(e) PROVE Agrees(e)'
  <2>1. e \in Entries /\ e.id <= nextID /\ e.id \in Nat
    BY <1>12 DEF Agrees, Entries
  <2>. QED
    BY <1>1, <1>2, <1>4, <1>11, <1>12, <2>1 DEF Agrees
<1>. QED
  BY <1>4, <1>8, <1>10, <1>12 DEF StoreInv, ReplayRunsWhatWasShown

LEMMA SetTargetStep ==
    ASSUME StoreInv, NEW i \in TunnelIDs, NEW t \in Tunnels, SetTarget(i, t),
           UNCHANGED <<storeVars, pageVars, replay>>
    PROVE  StoreInv'
  BY DEF StoreInv, InspectorTypeOK, StoreHoldsNewest, ReplayRunsWhatWasShown, Agrees, SetTarget

LEMMA SilentStep == ASSUME StoreInv, UNCHANGED inspectorVars PROVE StoreInv'
  BY DEF StoreInv, InspectorTypeOK, StoreHoldsNewest, ReplayRunsWhatWasShown, Agrees

LEMMA PageStep ==
    ASSUME StoreInv, ASSUME NEW i \in TunnelIDs PROVE TargetOf(i) \in Tunnels \cup {None},
           Refresh \/ Select \/ ClickReplay \/ ReplayGet \/ ReplaySend(TargetOf(replay.got.tunnel)) \/ ReplayEnds
    PROVE  StoreInv'
<1>. USE DEF StoreInv, InspectorTypeOK, StoreHoldsNewest, ReplayRunsWhatWasShown
<1>1. \A e : Agrees(e) => (UNCHANGED storeVars => Agrees(e)')
  BY DEF Agrees
<1>2. \A e \in ToSet(shown) : e \in Entries /\ e.id \in 0..MaxRequests
  BY DEF Agrees, Entries
<1>3. CASE Refresh
  <2>1. /\ shown' \in Seq(Entries) /\ ToSet(shown') \subseteq ToSet(entries)
        /\ UNCHANGED <<storeVars, targets, replay>>
    BY <1>3, ListOf DEF Refresh, List
  <2>2. selected' \in 0..MaxRequests
    <3>1. CASE shown' = <<>> \/ \E e \in ToSet(shown') : e.id = selected
      BY <1>3, <3>1 DEF Refresh, Selection
    <3>2. CASE ~(shown' = <<>> \/ \E e \in ToSet(shown') : e.id = selected)
      <4>1. Head(shown') \in Entries
        BY <2>1, <3>2, HeadTailProperties
      <4>2. selected' = Head(shown').id
        BY <1>3, <3>2 DEF Refresh, Selection
      <4>. QED
        BY <4>1, <4>2 DEF Entries
    <3>. QED
      BY <3>1, <3>2
  <2>3. \A e \in ToSet(shown') : Agrees(e)
    BY <2>1, EntryAgrees
  <2>. QED
    BY <1>1, <2>1, <2>2, <2>3
<1>4. CASE Select
  BY <1>1, <1>2, <1>4 DEF Select
<1>5. CASE ClickReplay
  <2>1. PICK e \in Card : replay' = [NoReplay EXCEPT !.step = "asked", !.want = e]
    BY <1>5 DEF ClickReplay
  <2>2. e \in Entries /\ Agrees(e)
    BY <1>2 DEF Card
  <2>3. replay' = [step |-> "asked", want |-> e, got |-> None, to |-> None]
    BY <2>1 DEF NoReplay
  <2>. QED
    BY <1>1, <1>5, <2>2, <2>3 DEF ClickReplay
<1>6. CASE ReplayGet
  <2>1. CASE replay' = NoReplay
    <3>1. UNCHANGED <<storeVars, targets, pageVars>>
      BY <1>6 DEF ReplayGet
    <3>. QED
      BY <1>1, <2>1, <3>1 DEF NoReplay
  <2>2. CASE Get(replay.want.id) # {}
    <3>1. PICK e \in Get(replay.want.id) : replay' = [replay EXCEPT !.step = "found", !.got = e]
      BY <1>6, <2>2 DEF ReplayGet
    <3>2. e \in ToSet(entries) /\ e.id = replay.want.id
      BY DEF Get
    <3>3. Agrees(replay.want)
      BY <1>6 DEF ReplayGet
    <3>4. e = replay.want /\ e \in Entries
      BY <3>2, <3>3 DEF Agrees
    <3>5. /\ replay'.step = "found" /\ replay'.want = replay.want /\ replay'.got = replay.want
          /\ replay' \in [step : {"idle", "asked", "found", "sent"}, want : Entries \cup {None},
                           got : Entries \cup {None}, to : Tunnels \cup {None}]
      BY <3>1, <3>4
    <3>. QED
      BY <1>1, <1>6, <3>3, <3>5 DEF ReplayGet
  <2>. QED
    BY <1>6, <2>1, <2>2 DEF ReplayGet
<1>7. CASE ReplaySend(TargetOf(replay.got.tunnel))
  <2>1. CASE replay' = NoReplay
    BY <1>1, <1>7, <2>1 DEF ReplaySend, NoReplay
  <2>2. CASE replay' # NoReplay
    <3>1. replay.step = "found"
      BY <1>7 DEF ReplaySend
    <3>2. replay.got.tunnel \in TunnelIDs
      BY <3>1 DEF Agrees, Entries
    <3>3. PICK t \in Tunnels \cup {None} : replay' = [replay EXCEPT !.step = "sent", !.to = t]
      BY <1>7, <2>2, <3>2 DEF ReplaySend
    <3>. QED
      BY <1>1, <1>7, <3>1, <3>3 DEF ReplaySend
  <2>. QED
    BY <2>1, <2>2
<1>8. CASE ReplayEnds
  BY <1>1, <1>8 DEF ReplayEnds, NoReplay
<1>. QED
  BY <1>3, <1>4, <1>5, <1>6, <1>7, <1>8

----------------------------------------------------------------------------
(* The command and its tunnels.                                             *)

(* What a step does to a tunnel, whoever takes it.                          *)
Later(t) ==
    /\ tun'[t] \in States
    /\ tun[t].life \in {"failed", "ended"} =>
         tun'[t].life = tun[t].life /\ tun'[t].result = tun[t].result
    /\ tun[t].life = "up" => tun'[t].life \in {"up", "ended"}
    /\ tun[t].life = "starting" =>
         tun'[t].life = "starting" \/ (TunnelStarts /\ t = started + 1 /\ tun'[t].life \in {"up", "failed"})
    /\ tun'[t].life # "ended" => tun'[t].result = tun[t].result
    /\ tun'[t].life = "ended" /\ tun[t].life # "ended" =>
         /\ tun[t].life = "up" /\ tun'[t].result # "none"
         /\ tun'[t].result = "nil" => tun[t].told
         /\ tun'[t].result = "ctx" => ctxDone

(* The steps that tell all tunnels to close.                                *)
Closing == ReceiveResult \/ WaitCancelled \/ Return

TunnelsTyped == tun \in [Tunnels -> States] /\ ctxDone \in BOOLEAN /\ started \in 0..N

LEMMA TunnelSteps ==
    ASSUME TunnelsTyped, [Next]_vars, NEW t \in Tunnels
    PROVE  /\ Later(t)
           /\ tun'[t].told => tun[t].told \/ ctxDone \/ Closing
<1>. USE DEF TunnelsTyped
<1>1. tun[t] \in States /\ DOMAIN tun = Tunnels
  OBVIOUS
<1>2. CASE tun' = tun
  BY <1>1, <1>2 DEF Later
<1>3. CASE tun'[t] = Life(t)!Told(tun[t]) /\ (Closing \/ ctxDone)
  BY <1>1, <1>3, ToldMove DEF Later
<1>4. CASE tun'[t] = tun[t]
  BY <1>1, <1>4 DEF Later
<1>5. CASE TunnelStarts
  <2>1. PICK s \in Life(started + 1)!StartMoves(tun[started + 1]) : tun' = [tun EXCEPT ![started + 1] = s]
    BY <1>5 DEF TunnelStarts
  <2>2. CASE t = started + 1
    <3>1. tun'[t] = s /\ s \in Life(t)!StartMoves(tun[t])
      BY <1>1, <2>1, <2>2
    <3>2. /\ s \in States /\ tun[t].life = "starting" /\ s.life \in {"up", "failed"}
          /\ s.told = tun[t].told /\ s.result = tun[t].result
      BY <1>1, <3>1, StartMove
    <3>. QED
      BY <1>5, <2>2, <3>1, <3>2 DEF Later
  <2>3. CASE t # started + 1
    BY <1>4, <2>1, <2>3
  <2>. QED
    BY <2>2, <2>3
<1>6. ASSUME NEW q \in Tunnels, TunnelEnds(q) \/ TunnelDeafens(q) \/ CtxCloses(q)
      PROVE  Later(t) /\ (tun'[t].told => tun[t].told \/ ctxDone)
  <2>1. CASE q # t
    BY <1>1, <1>4, <1>6, <2>1 DEF TunnelEnds, TunnelDeafens, CtxCloses, TunnelMoves
  <2>2. CASE q = t /\ TunnelEnds(t)
    <3>1. tun'[t] \in Life(t)!EndMoves(tun[t], ctxDone)
      BY <1>1, <2>2 DEF TunnelEnds, TunnelMoves
    <3>2. /\ tun'[t] \in States /\ tun[t].life = "up" /\ tun'[t].life = "ended"
          /\ tun'[t].told = tun[t].told /\ tun'[t].result # "none"
          /\ tun'[t].result = "nil" => tun[t].told
          /\ tun'[t].result = "ctx" => ctxDone
      BY <1>1, <3>1, EndMove
    <3>. QED
      BY <3>2 DEF Later
  <2>3. CASE q = t /\ TunnelDeafens(t)
    <3>1. tun'[t] \in Life(t)!DeafMoves(tun[t])
      BY <1>1, <2>3 DEF TunnelDeafens, TunnelMoves
    <3>2. tun'[t] \in States /\ tun'[t].life = tun[t].life /\ tun'[t].told = tun[t].told
          /\ tun'[t].result = tun[t].result
      BY <1>1, <3>1, DeafMove
    <3>. QED
      BY <1>1, <3>2 DEF Later
  <2>4. CASE q = t /\ CtxCloses(t)
    <3>1. tun'[t] \in Life(t)!ToldMoves(tun[t]) /\ ctxDone
      BY <1>1, <2>4 DEF CtxCloses, TunnelMoves
    <3>. QED
      BY <1>1, <1>3, <3>1, ToldMove
  <2>. QED
    BY <1>6, <2>1, <2>2, <2>3, <2>4
<1>7. CASE ReceiveResult \/ WaitCancelled \/ Return
  <2>1. tun'[t] = Life(t)!Told(tun[t]) \/ tun'[t] = tun[t]
    BY <1>1, <1>7 DEF ReceiveResult, WaitCancelled, Return, CloseAll
  <2>. QED
    BY <1>3, <1>4, <1>7, <2>1 DEF Closing
<1>8. CASE \/ StartInspector \/ TunnelStarted \/ WaitReturns \/ Interrupt \/ InspectorStops \/ Page
           \/ \E q \in Tunnels : SendResult(q) \/ Capture(q)
           \/ UNCHANGED vars
  BY <1>2, <1>8 DEF StartInspector, TunnelStarted, WaitReturns, Interrupt, InspectorStops, Page,
                    SendResult, Capture, vars, processVars
<1>. QED
  BY <1>5, <1>6, <1>7, <1>8 DEF Next, Main

Errs == {"nil", "ctx", "err"}

(* Results are for tunnels that ended.                                      *)
Results == \A t \in Tunnels : tun[t].result # "none" <=> tun[t].life = "ended"

(* The control of the command.                                              *)
Control ==
    /\ pc \in {"inspector", "start", "started"} => received = 0 /\ errCh = <<>> /\ waiting = {}
    /\ pc \in {"start", "started"} => started < Wanted
    /\ pc = "inspector" /\ command = "start" => started = 0
    /\ command = "tcp" => inspected = {}
    /\ command # "start" => waiting = {} /\ errCh = <<>>
    /\ exit = -1 <=> pc # "exited"

(* Every tunnel that may capture has its id.                                *)
Known == \A t \in inspected : tun[t].life \in {"up", "ended"} => idOf[t] \in TunnelIDs

ProcessTypes ==
    /\ command \in {"http", "tcp", "start"} /\ inspected \subseteq Tunnels
    /\ pc \in {"inspector", "start", "started", "wait", "return", "exited"}
    /\ started \in 0..N
    /\ tun \in [Tunnels -> States]
    /\ idOf \in [Tunnels -> TunnelIDs \cup {None}]
    /\ ctxDone \in BOOLEAN /\ serving \in BOOLEAN
    /\ waiting \subseteq Tunnels /\ received \in Nat /\ errCh \in Seq(Errs)
    /\ firstErr \in Errs
    /\ exit \in {-1, 0, 1}

LEMMA ResultsStep == ASSUME ProcessTypes, Results, [Next]_vars PROVE Results'
<1>. SUFFICES ASSUME NEW t \in Tunnels PROVE tun'[t].result # "none" <=> tun'[t].life = "ended"
  BY DEF Results
<1>1. Later(t)
  BY TunnelSteps DEF TunnelsTyped, ProcessTypes
<1>. QED
  BY <1>1 DEF Later, Results, ProcessTypes, States

LEMMA KnownStep == ASSUME ProcessTypes, Control, Known, [Next]_vars PROVE Known'
<1>. USE DEF ProcessTypes, Known
<1>1. \A t \in Tunnels : Later(t)
  BY TunnelSteps DEF TunnelsTyped
<1>2. CASE TunnelStarts
  <2>1. started + 1 \in Tunnels
    BY <1>2, ProcessAssumption DEF TunnelStarts, Control, Wanted
  <2>2. \A t \in inspected : t # started + 1 => tun'[t] = tun[t] /\ idOf'[t] = idOf[t]
    BY <1>2 DEF TunnelStarts
  <2>3. started + 1 \in inspected /\ tun'[started + 1].life \in {"up", "ended"}
          => idOf'[started + 1] \in TunnelIDs
    <3>. SUFFICES ASSUME started + 1 \in inspected, tun'[started + 1].life \in {"up", "ended"}
                  PROVE  idOf'[started + 1] \in TunnelIDs
      OBVIOUS
    <3>1. IDs(started + 1) = TunnelIDs
      BY DEF IDs, Control
    <3>2. PICK s \in Life(started + 1)!StartMoves(tun[started + 1]) :
            /\ tun' = [tun EXCEPT ![started + 1] = s]
            /\ s.life = "up" => \E i \in IDs(started + 1) : idOf' = [idOf EXCEPT ![started + 1] = i]
      BY <1>2 DEF TunnelStarts
    <3>3. s.life \in {"up", "failed"} /\ tun'[started + 1] = s
      BY <2>1, <3>2, StartMove
    <3>. QED
      BY <2>1, <3>1, <3>2, <3>3
  <2>4. inspected' = inspected
    BY <1>2 DEF TunnelStarts
  <2>. QED
    BY <2>2, <2>3, <2>4
<1>3. CASE ~TunnelStarts /\ inspected' \subseteq inspected /\ idOf' = idOf
  <2>1. \A t \in Tunnels : tun'[t].life \in {"up", "ended"} => tun[t].life \in {"up", "ended"}
    BY <1>1, <1>3 DEF Later, States
  <2>. QED
    BY <1>3, <2>1
<1>4. ~TunnelStarts => inspected' \subseteq inspected /\ idOf' = idOf
  BY DEF Next, Main, StartInspector, TunnelStarted, WaitReturns, ReceiveResult, WaitCancelled, Return,
         Interrupt, InspectorStops, Page, SendResult, TunnelEnds, TunnelDeafens, CtxCloses, TunnelMoves,
         Capture, otherVars, processVars, vars
<1>. QED
  BY <1>2, <1>3, <1>4

LEMMA TypesStep == ASSUME ProcessTypes, Control, Results, [Next]_vars PROVE ProcessTypes'
<1>. USE DEF ProcessTypes
<1>1. /\ \A t \in Tunnels : tun'[t] \in States
      /\ N \in Nat \ {0} /\ Tunnels = 1..N /\ Wanted \in 1..N
  BY TunnelSteps, ProcessAssumption DEF TunnelsTyped, Later, Wanted
<1>2. tun' \in [Tunnels -> States]
  <2>2. ASSUME NEW t, NEW u, tun' = [tun EXCEPT ![t] = u] PROVE tun' = [q \in Tunnels |-> tun'[q]]
    BY <2>2
  <2>3. CASE \E t \in Tunnels : TunnelEnds(t) \/ TunnelDeafens(t) \/ CtxCloses(t)
    <3>1. PICK t, u : tun' = [tun EXCEPT ![t] = u]
      BY <2>3 DEF TunnelEnds, TunnelDeafens, CtxCloses, TunnelMoves
    <3>. QED
      BY <1>1, <2>2, <3>1
  <2>4. CASE TunnelStarts
    <3>1. PICK u : tun' = [tun EXCEPT ![started + 1] = u]
      BY <2>4 DEF TunnelStarts
    <3>. QED
      BY <1>1, <2>2, <3>1
  <2>5. CASE Closing
    <3>1. tun' = tun \/ tun' = [t \in Tunnels |-> tun'[t]]
      BY <2>5 DEF Closing, ReceiveResult, WaitCancelled, Return, CloseAll
    <3>. QED
      BY <1>1, <3>1
  <2>6. CASE \/ StartInspector \/ TunnelStarted \/ WaitReturns \/ Interrupt \/ InspectorStops \/ Page
             \/ \E q \in Tunnels : SendResult(q) \/ Capture(q)
             \/ UNCHANGED vars
    BY <2>6 DEF StartInspector, TunnelStarted, WaitReturns, Interrupt, InspectorStops, Page,
                SendResult, Capture, vars, otherVars, processVars
  <2>. QED
    BY <2>3, <2>4, <2>5, <2>6 DEF Next, Main, Closing
<1>3. CASE StartInspector
  BY <1>2, <1>3 DEF StartInspector
<1>4. CASE TunnelStarts
  <2>1. idOf' \in [Tunnels -> TunnelIDs \cup {None}]
    <3>1. idOf' = idOf \/ \E i \in IDs(started + 1) : idOf' = [idOf EXCEPT ![started + 1] = i]
      BY <1>4 DEF TunnelStarts
    <3>2. IDs(started + 1) \subseteq TunnelIDs \cup {None}
      BY DEF IDs
    <3>. QED
      BY <3>1, <3>2
  <2>. QED
    BY <1>2, <1>4, <2>1 DEF TunnelStarts
<1>5. CASE TunnelStarted
  BY <1>1, <1>2, <1>5 DEF TunnelStarted, Control, AfterStart
<1>6. CASE WaitReturns
  <2>1. firstErr' \in Errs
    BY <1>1, <1>6 DEF WaitReturns, Results, States, Errs
  <2>. QED
    BY <1>2, <1>6, <2>1 DEF WaitReturns
<1>7. ASSUME NEW t \in Tunnels, SendResult(t) PROVE ProcessTypes'
  <2>1. tun[t].result \in Errs
    BY <1>7 DEF SendResult, Results, States, Errs
  <2>2. errCh' \in Seq(Errs)
    BY <1>7, <2>1, AppendProperties DEF SendResult
  <2>. QED
    BY <1>2, <1>7, <2>2 DEF SendResult
<1>8. CASE ReceiveResult
  <2>1. Head(errCh) \in Errs /\ Tail(errCh) \in Seq(Errs)
    BY <1>8, HeadTailProperties DEF ReceiveResult
  <2>2. firstErr' \in Errs /\ errCh' \in Seq(Errs) /\ received' \in Nat
    BY <1>8, <2>1 DEF ReceiveResult
  <2>. QED
    BY <1>2, <1>8, <2>2 DEF ReceiveResult
<1>9. CASE WaitCancelled
  BY <1>2, <1>9 DEF WaitCancelled, Errs
<1>10. CASE Return
  BY <1>2, <1>10 DEF Return
<1>11. CASE Interrupt \/ InspectorStops \/ Page \/ UNCHANGED vars
  BY <1>2, <1>11 DEF Interrupt, InspectorStops, Page, vars, mainVars, otherVars, processVars
<1>12. ASSUME NEW t \in Tunnels, TunnelEnds(t) \/ TunnelDeafens(t) \/ CtxCloses(t) \/ Capture(t)
       PROVE  ProcessTypes'
  BY <1>2, <1>12 DEF TunnelEnds, TunnelDeafens, CtxCloses, TunnelMoves, Capture, mainVars, otherVars, processVars
<1>. QED
  BY <1>3, <1>4, <1>5, <1>6, <1>7, <1>8, <1>9, <1>10, <1>11, <1>12 DEF Next, Main

LEMMA ControlStep == ASSUME ProcessTypes, Control, Results, [Next]_vars PROVE Control'
<1>. USE DEF ProcessTypes, Control
<1>1. N \in Nat \ {0} /\ Tunnels = 1..N /\ Wanted \in 1..N
  BY ProcessAssumption DEF Wanted
<1>2. command' = command /\ Wanted' = Wanted
  BY DEF Next, Main, StartInspector, TunnelStarted, WaitReturns, ReceiveResult, WaitCancelled, Return,
         TunnelStarts, Interrupt, InspectorStops, Page, SendResult, TunnelEnds, TunnelDeafens, CtxCloses,
         TunnelMoves, Capture, otherVars, processVars, vars, Wanted
<1>3. CASE StartInspector
  <2>1. command = "start" => started = 0 /\ Wanted = N /\ pc' = "start"
    BY <1>3 DEF StartInspector, Wanted
  <2>2. command # "start" => pc' = "wait"
    BY <1>3 DEF StartInspector
  <2>3. command = "tcp" => inspected' = {}
    BY <1>3 DEF StartInspector
  <2>4. UNCHANGED <<started, waiting, errCh, received, exit>> /\ pc = "inspector"
    BY <1>3 DEF StartInspector
  <2>. QED
    BY <1>1, <1>2, <2>1, <2>2, <2>3, <2>4
<1>4. CASE TunnelStarts
  BY <1>2, <1>4 DEF TunnelStarts
<1>5. CASE TunnelStarted
  BY <1>1, <1>2, <1>5 DEF TunnelStarted, AfterStart
<1>6. CASE WaitReturns
  BY <1>2, <1>6 DEF WaitReturns
<1>7. ASSUME NEW t \in Tunnels, SendResult(t) PROVE Control'
  BY <1>2, <1>7 DEF SendResult
<1>8. CASE ReceiveResult
  BY <1>2, <1>8 DEF ReceiveResult
<1>9. CASE WaitCancelled
  BY <1>2, <1>9 DEF WaitCancelled
<1>10. CASE Return
  BY <1>2, <1>10 DEF Return
<1>11. CASE Interrupt \/ InspectorStops \/ Page \/ UNCHANGED vars
  BY <1>2, <1>11 DEF Interrupt, InspectorStops, Page, vars, mainVars, otherVars, processVars
<1>12. ASSUME NEW t \in Tunnels, TunnelEnds(t) \/ TunnelDeafens(t) \/ CtxCloses(t) \/ Capture(t)
       PROVE  Control'
  BY <1>2, <1>12 DEF TunnelEnds, TunnelDeafens, CtxCloses, TunnelMoves, Capture, mainVars, otherVars, processVars
<1>. QED
  BY <1>3, <1>4, <1>5, <1>6, <1>7, <1>8, <1>9, <1>10, <1>11, <1>12 DEF Next, Main

----------------------------------------------------------------------------
(* The exit status.                                                         *)

SomeFailed == \E t \in Tunnels : tun[t].life = "failed" \/ tun[t].result = "err"

(* Without an interrupt no tunnel is told to close before an error was      *)
(* received, so the results until then are errors.                          *)
ExitInv ==
    /\ firstErr = "err" => SomeFailed
    /\ \A k \in 1..Len(errCh) : errCh[k] = "err" => SomeFailed
    /\ ~ctxDone =>
         /\ firstErr # "ctx"
         /\ firstErr = "nil" => /\ \A t \in Tunnels : ~tun[t].told /\ tun[t].result \in {"none", "err"}
                                /\ \A k \in 1..Len(errCh) : errCh[k] = "err"
                                /\ pc # "return"
    /\ command # "start" /\ pc \notin {"return", "exited"} => firstErr = "nil"
    /\ ExitIsExplained

LEMMA ExitStep == ASSUME ProcessTypes, Control, Results, ExitInv, [Next]_vars PROVE ExitInv'
<1>. USE DEF ProcessTypes, Errs
<1>1. SomeFailed => SomeFailed'
  <2>1. ASSUME NEW t \in Tunnels, tun[t].life = "failed" \/ tun[t].result = "err"
        PROVE  tun'[t].life = "failed" \/ tun'[t].result = "err"
    <3>1. Later(t)
      BY TunnelSteps DEF TunnelsTyped
    <3>. QED
      BY <2>1, <3>1 DEF Later, Results
  <2>. QED
    BY <2>1 DEF SomeFailed
<1>2. ctxDone => ctxDone'
  BY DEF Next, Main, StartInspector, TunnelStarted, WaitReturns, ReceiveResult, WaitCancelled, Return,
         TunnelStarts, Interrupt, InspectorStops, Page, SendResult, TunnelEnds, TunnelDeafens, CtxCloses,
         TunnelMoves, Capture, otherVars, processVars, vars
<1>3. command' = command /\ Len(errCh) \in Nat
  BY DEF Next, Main, StartInspector, TunnelStarted, WaitReturns, ReceiveResult, WaitCancelled, Return,
         TunnelStarts, Interrupt, InspectorStops, Page, SendResult, TunnelEnds, TunnelDeafens, CtxCloses,
         TunnelMoves, Capture, otherVars, processVars, vars
<1>4. ASSUME ~ctxDone, firstErr = "nil", ~Closing
      PROVE  \A t \in Tunnels : ~tun'[t].told /\ tun'[t].result \in {"none", "err"}
  <2>. SUFFICES ASSUME NEW t \in Tunnels PROVE ~tun'[t].told /\ tun'[t].result \in {"none", "err"}
    OBVIOUS
  <2>1. Later(t) /\ (tun'[t].told => tun[t].told \/ ctxDone \/ Closing)
    BY TunnelSteps DEF TunnelsTyped
  <2>2. ~tun[t].told /\ tun[t].result \in {"none", "err"} /\ tun'[t] \in States
    BY <1>4, <2>1 DEF ExitInv, Later
  <2>. QED
    BY <1>4, <2>1, <2>2 DEF Later, States
<1>5. CASE /\ pc' = pc \/ (pc' # "return" /\ pc \notin {"return", "exited"})
           /\ UNCHANGED <<exit, firstErr, errCh>> /\ ~Closing
  BY <1>1, <1>2, <1>4, <1>5, <1>3 DEF ExitInv, ExitIsExplained, SomeFailed
<1>6. CASE TunnelStarts
  <2>1. PICK s \in Life(started + 1)!StartMoves(tun[started + 1]) :
          /\ tun' = [tun EXCEPT ![started + 1] = s]
          /\ \/ s.life = "up" /\ pc' = "started" /\ exit' = exit
             \/ s.life # "up" /\ pc' = "exited" /\ exit' = 1
    BY <1>6 DEF TunnelStarts
  <2>2. started + 1 \in Tunnels
    BY <1>6, ProcessAssumption DEF TunnelStarts, Control, Wanted
  <2>3. exit' = 1 /\ s.life # "up" => SomeFailed'
    <3>1. s.life \in {"up", "failed"}
      BY <2>1, <2>2, StartMove
    <3>. QED
      BY <2>1, <2>2, <3>1 DEF SomeFailed
  <2>4. ~Closing /\ UNCHANGED <<firstErr, errCh>> /\ pc' # "return" /\ pc = "start"
    BY <1>6 DEF TunnelStarts, Closing, ReceiveResult, WaitCancelled, Return
  <2>. QED
    BY <1>1, <1>2, <1>4, <1>3, <2>1, <2>3, <2>4 DEF ExitInv, ExitIsExplained, SomeFailed
<1>7. CASE WaitReturns
  <2>1. 1 \in Tunnels /\ tun[1].result # "none" /\ tun[1].life = "ended" /\ firstErr = "nil"
    BY <1>7, ProcessAssumption DEF WaitReturns, Results, ExitInv
  <2>2. tun[1].result = "err" => SomeFailed
    BY <2>1 DEF SomeFailed
  <2>3. ~ctxDone => tun[1].result = "err"
    BY <2>1 DEF ExitInv
  <2>4. firstErr' = tun[1].result /\ pc' = "return" /\ UNCHANGED <<exit, errCh, tun, ctxDone>>
    BY <1>7 DEF WaitReturns
  <2>. QED
    BY <1>1, <1>3, <2>2, <2>3, <2>4 DEF ExitInv, ExitIsExplained, SomeFailed
<1>8. ASSUME NEW t \in Tunnels, SendResult(t) PROVE ExitInv'
  <2>1. tun[t].result \in Errs /\ tun[t].result # "none" /\ command = "start"
    BY <1>8 DEF SendResult, Results, States, Control
  <2>2. /\ errCh' = Append(errCh, tun[t].result)
        /\ UNCHANGED <<pc, exit, firstErr, tun, ctxDone>>
    BY <1>8 DEF SendResult
  <2>3. \A k \in 1..Len(errCh') : errCh'[k] = tun[t].result \/ (k \in 1..Len(errCh) /\ errCh'[k] = errCh[k])
    BY <1>3, <2>1, <2>2, AppendProperties
  <2>4. tun[t].result = "err" => SomeFailed
    BY DEF SomeFailed
  <2>5. ~ctxDone /\ firstErr = "nil" => tun[t].result = "err"
    BY <2>1 DEF ExitInv
  <2>. QED
    BY <1>1, <1>3, <2>1, <2>2, <2>3, <2>4, <2>5 DEF ExitInv, ExitIsExplained, SomeFailed
<1>9. CASE ReceiveResult
  <2>1. /\ errCh # <<>> /\ errCh' = Tail(errCh) /\ pc = "wait" /\ UNCHANGED <<exit, ctxDone>>
        /\ firstErr' = IF firstErr = "nil" THEN Head(errCh) ELSE firstErr
    BY <1>9 DEF ReceiveResult
  <2>2. /\ Len(errCh) \in Nat \ {0} /\ Head(errCh) = errCh[1] /\ Len(errCh') = Len(errCh) - 1
        /\ \A k \in 1..Len(errCh') : errCh'[k] = errCh[k + 1]
    BY <2>1, HeadTailProperties, EmptySeq
  <2>3. command = "start"
    BY <2>1 DEF Control
  <2>4. \A k \in 1..Len(errCh') : errCh'[k] = "err" => SomeFailed
    BY <2>2 DEF ExitInv
  <2>5. firstErr' = "err" => SomeFailed
    BY <2>1, <2>2 DEF ExitInv
  <2>6. ~ctxDone => firstErr' = "err"
    BY <2>1, <2>2 DEF ExitInv
  <2>7. ExitIsExplained'
    BY <1>1, <2>1 DEF ExitInv, ExitIsExplained, SomeFailed
  <2>. QED
    BY <1>1, <1>3, <2>1, <2>3, <2>4, <2>5, <2>6, <2>7 DEF ExitInv
<1>10. CASE WaitCancelled
  BY <1>1, <1>2, <1>3, <1>10 DEF WaitCancelled, ExitInv, ExitIsExplained, SomeFailed
<1>11. CASE Return
  BY <1>1, <1>2, <1>3, <1>11 DEF Return, ExitInv, ExitIsExplained, SomeFailed
<1>12. CASE \/ StartInspector \/ TunnelStarted \/ Interrupt \/ InspectorStops \/ Page \/ UNCHANGED vars
            \/ \E t \in Tunnels : TunnelEnds(t) \/ TunnelDeafens(t) \/ CtxCloses(t) \/ Capture(t)
  <2>1. CASE StartInspector \/ TunnelStarted
    BY <1>5, <2>1 DEF StartInspector, TunnelStarted, AfterStart, Closing, ReceiveResult, WaitCancelled, Return
  <2>2. CASE Closing
    BY <1>9, <1>10, <1>11, <2>2 DEF Closing
  <2>3. CASE ~Closing /\ ~StartInspector /\ ~TunnelStarted
    <3>1. UNCHANGED <<pc, exit, firstErr, errCh>>
      BY <1>12, <2>3 DEF Interrupt, InspectorStops, Page, TunnelEnds, TunnelDeafens, CtxCloses,
             TunnelMoves, Capture, otherVars, processVars, mainVars, vars
    <3>. QED
      BY <1>5, <2>3, <3>1
  <2>. QED
    BY <2>1, <2>2, <2>3
<1>. QED
  BY <1>6, <1>7, <1>8, <1>9, <1>10, <1>11, <1>12 DEF Next, Main

----------------------------------------------------------------------------
(* Every result is counted once.                                            *)
Counted == received + Len(errCh) + Cardinality(waiting) <= N

LEMMA CountedStep == ASSUME ProcessTypes, Control, Counted, [Next]_vars PROVE Counted'
<1>. USE DEF ProcessTypes, Counted
<1>1. /\ N \in Nat /\ Len(errCh) \in Nat
      /\ IsFiniteSet(waiting) /\ Cardinality(waiting) \in Nat /\ Cardinality(Tunnels) = N
  <2>1. N \in Nat /\ Tunnels = 1..N
    BY ProcessAssumption
  <2>2. IsFiniteSet(1..N) /\ Cardinality(1..N) = N
    <3>1. IsFiniteSet(1..N) /\ Cardinality(1..N) = IF 1 > N THEN 0 ELSE N - 1 + 1
      BY <2>1, FS_Interval
    <3>. QED
      BY <2>1, <3>1
  <2>3. IsFiniteSet(waiting)
    BY <2>1, <2>2, FS_Subset
  <2>4. Cardinality(waiting) \in Nat
    BY <2>3, FS_CardinalityType
  <2>5. Len(errCh) \in Nat
    OBVIOUS
  <2>. QED
    BY <2>1, <2>2, <2>3, <2>4, <2>5
<1>2. CASE TunnelStarted
  <2>1. received' = 0 /\ errCh' = <<>> /\ (waiting' = {} \/ waiting' = Tunnels)
    BY <1>2 DEF TunnelStarted, Control
  <2>2. Len(errCh') = 0 /\ Cardinality({}) = 0
    BY <2>1, FS_EmptySet
  <2>3. Cardinality(waiting') = 0 \/ Cardinality(waiting') = N
    BY <1>1, <2>1, <2>2
  <2>. QED
    BY <1>1, <2>1, <2>2, <2>3
<1>3. ASSUME NEW t \in Tunnels, SendResult(t) PROVE Counted'
  <2>1. Cardinality(waiting') = Cardinality(waiting) - 1
    BY <1>1, <1>3, FS_RemoveElement DEF SendResult
  <2>2. Len(errCh') = Len(errCh) + 1 /\ received' = received
    BY <1>3 DEF SendResult
  <2>. QED
    BY <1>1, <2>1, <2>2
<1>4. CASE ReceiveResult
  <2>1. Len(errCh') = Len(errCh) - 1
    BY <1>4, HeadTailProperties DEF ReceiveResult
  <2>2. received' = received + 1 /\ waiting' = waiting
    BY <1>4 DEF ReceiveResult
  <2>. QED
    BY <1>1, <2>1, <2>2
<1>5. CASE \/ StartInspector \/ WaitReturns \/ WaitCancelled \/ Return \/ TunnelStarts
           \/ Interrupt \/ InspectorStops \/ Page \/ UNCHANGED vars
           \/ \E t \in Tunnels : TunnelEnds(t) \/ TunnelDeafens(t) \/ CtxCloses(t) \/ Capture(t)
  BY <1>5 DEF StartInspector, WaitReturns, WaitCancelled, Return, TunnelStarts, Interrupt, InspectorStops,
         Page, TunnelEnds, TunnelDeafens, CtxCloses, TunnelMoves, Capture, otherVars, processVars, mainVars, vars
<1>. QED
  BY <1>2, <1>3, <1>4, <1>5 DEF Next, Main

LEMMA StoreStep == ASSUME ProcessTypes, Control, Known, StoreInv, [Next]_vars PROVE StoreInv'
<1>1. CASE TunnelStarted
  <2>1. started + 1 \in Tunnels /\ UNCHANGED <<storeVars, pageVars, replay>>
    BY <1>1, ProcessAssumption DEF TunnelStarted, Control, ProcessTypes, Wanted
  <2>2. CASE UNCHANGED targets
    BY <2>1, <2>2, SilentStep
  <2>3. CASE SetTarget(idOf[started + 1], started + 1) /\ idOf[started + 1] # None
    BY <2>1, <2>3, SetTargetStep DEF ProcessTypes
  <2>. QED
    BY <1>1, <2>2, <2>3 DEF TunnelStarted
<1>2. ASSUME NEW t \in Tunnels, Capture(t) PROVE StoreInv'
  <2>1. idOf[t] \in TunnelIDs /\ Add(idOf[t])
    BY <1>2 DEF Capture, Known
  <2>. QED
    BY <2>1, AddStep
<1>3. CASE Page
  <2>1. ASSUME NEW i \in TunnelIDs PROVE TargetOf(i) \in Tunnels \cup {None}
    BY ProcessAssumption DEF TargetOf, StoreInv, InspectorTypeOK
  <2>. QED
    BY <1>3, <2>1, PageStep DEF Page
<1>4. CASE \/ StartInspector \/ WaitReturns \/ ReceiveResult \/ WaitCancelled \/ Return \/ TunnelStarts
           \/ Interrupt \/ InspectorStops \/ UNCHANGED vars
           \/ \E t \in Tunnels : SendResult(t) \/ TunnelEnds(t) \/ TunnelDeafens(t) \/ CtxCloses(t)
  <2>1. UNCHANGED inspectorVars
    BY <1>4 DEF StartInspector, WaitReturns, ReceiveResult, WaitCancelled, Return, TunnelStarts, Interrupt,
           InspectorStops, SendResult, TunnelEnds, TunnelDeafens, CtxCloses, TunnelMoves, otherVars, vars
  <2>. QED
    BY <2>1, SilentStep
<1>. QED
  BY <1>1, <1>2, <1>3, <1>4 DEF Next, Main

----------------------------------------------------------------------------
(* What was captured can be replayed.                                       *)

Served(t) == tun[t].life \in {"up", "ended"}
HasTunnel(i) == \E t \in Tunnels : Served(t) /\ idOf[t] = i

(* How far the command has come.                                            *)
Progress ==
    /\ started <= Wanted
    /\ pc \in {"wait", "return"} => started = Wanted
    /\ pc = "inspector" /\ command # "start" => started = Wanted
    /\ pc = "started" => Served(started + 1)
    /\ \A t \in Tunnels : Served(t) => t <= started \/ (pc = "started" /\ t = started + 1)

(* Every tunnel that was started has a target under its id, and a target is *)
(* a tunnel of that id.                                                     *)
TargetsFit ==
    command = "start" =>
        /\ \A t \in Tunnels : t <= started /\ idOf[t] # None => targets[idOf[t]] # None
        /\ \A i \in TunnelIDs : targets[i] # None => Served(targets[i]) /\ idOf[targets[i]] = i

Captured ==
    /\ \A e \in ToSet(entries) : HasTunnel(e.tunnel)
    /\ replay.step \in {"found", "sent"} => HasTunnel(replay.got.tunnel)
    /\ replay.step = "sent" =>
          replay.to \in Tunnels /\ Served(replay.to) /\ idOf[replay.to] = replay.got.tunnel

LEMMA ServedStays ==
    ASSUME ProcessTypes, [Next]_vars, NEW t \in Tunnels
    PROVE  /\ Served(t) => Served(t)' /\ idOf'[t] = idOf[t]
           /\ Served(t)' => Served(t) \/ (TunnelStarts /\ t = started + 1)
<1>. USE DEF ProcessTypes, Served
<1>1. Later(t) /\ tun[t] \in States
  BY TunnelSteps DEF TunnelsTyped
<1>2. CASE TunnelStarts
  <2>1. PICK s \in Life(started + 1)!StartMoves(tun[started + 1]) : TRUE
    BY <1>2 DEF TunnelStarts
  <2>2. t = started + 1 => tun[t].life = "starting"
    BY <1>1, <2>1, StartMove
  <2>3. t # started + 1 => idOf'[t] = idOf[t]
    BY <1>2 DEF TunnelStarts
  <2>. QED
    BY <1>1, <1>2, <2>2, <2>3 DEF Later, States
<1>3. CASE ~TunnelStarts
  <2>1. idOf' = idOf
    BY <1>3 DEF Next, Main, StartInspector, TunnelStarted, WaitReturns, ReceiveResult, WaitCancelled, Return,
           Interrupt, InspectorStops, Page, SendResult, TunnelEnds, TunnelDeafens, CtxCloses, TunnelMoves,
           Capture, otherVars, processVars, vars
  <2>. QED
    BY <1>1, <1>3, <2>1 DEF Later, States
<1>. QED
  BY <1>2, <1>3

LEMMA StartedMove ==
    ASSUME ProcessTypes, TunnelStarted
    PROVE  /\ pc = "started" /\ started' = started + 1
           /\ pc' \in {"start", "wait", "inspector"}
           /\ pc' # "start" => started + 1 = Wanted
<1>1. pc = "started" /\ started' = started + 1
  BY DEF TunnelStarted
<1>2. CASE started + 1 = Wanted
  BY <1>1, <1>2 DEF TunnelStarted, AfterStart
<1>3. CASE started + 1 # Wanted
  BY <1>1, <1>3 DEF TunnelStarted
<1>. QED
  BY <1>2, <1>3

LEMMA ProgressStep == ASSUME ProcessTypes, Control, Progress, [Next]_vars PROVE Progress'
<1>. USE DEF ProcessTypes, Progress
<1>1. N \in Nat \ {0} /\ Tunnels = 1..N /\ Wanted \in 1..N
  BY ProcessAssumption DEF Wanted
<1>2. command' = command /\ Wanted' = Wanted
  BY DEF Next, Main, StartInspector, TunnelStarted, WaitReturns, ReceiveResult, WaitCancelled, Return,
         TunnelStarts, Interrupt, InspectorStops, Page, SendResult, TunnelEnds, TunnelDeafens, CtxCloses,
         TunnelMoves, Capture, otherVars, processVars, vars, Wanted
<1>3. \A t \in Tunnels : /\ Served(t) => Served(t)'
                         /\ Served(t)' => Served(t) \/ (TunnelStarts /\ t = started + 1)
  BY ServedStays
<1>4. CASE TunnelStarts
  <2>1. started + 1 \in Tunnels /\ pc = "start"
    BY <1>1, <1>4 DEF TunnelStarts, Control
  <2>2. PICK s \in Life(started + 1)!StartMoves(tun[started + 1]) :
          /\ tun' = [tun EXCEPT ![started + 1] = s]
          /\ \/ s.life = "up" /\ pc' = "started"
             \/ s.life # "up" /\ pc' = "exited"
    BY <1>4 DEF TunnelStarts
  <2>3. started' = started
    BY <1>4 DEF TunnelStarts
  <2>4. s.life \in {"up", "failed"} /\ tun'[started + 1] = s
    BY <2>1, <2>2, StartMove
  <2>5. pc' = "started" => Served(started + 1)'
    BY <2>2, <2>3, <2>4 DEF Served
  <2>6. ASSUME NEW t \in Tunnels, Served(t)' PROVE t <= started \/ (pc' = "started" /\ t = started + 1)
    <3>1. CASE t = started + 1
      BY <2>2, <2>4, <2>6, <3>1 DEF Served
    <3>2. CASE t # started + 1
      BY <1>3, <2>1, <2>6, <3>2
    <3>. QED
      BY <3>1, <3>2
  <2>. QED
    BY <1>1, <1>2, <2>1, <2>2, <2>3, <2>5, <2>6
<1>5. CASE TunnelStarted
  <2>1. /\ pc = "started" /\ started' = started + 1 /\ started < Wanted
        /\ pc' \in {"start", "wait", "inspector"}
        /\ pc' # "start" => started' = Wanted
    BY <1>5, StartedMove DEF Control
  <2>2. ~TunnelStarts
    BY <2>1 DEF TunnelStarts
  <2>3. \A t \in Tunnels : Served(t)' => t <= started + 1
    BY <1>1, <1>3, <2>1, <2>2
  <2>. QED
    BY <1>1, <1>2, <2>1, <2>3
<1>6. CASE StartInspector
  <2>1. /\ pc = "inspector" /\ started' = started /\ ~TunnelStarts
        /\ pc' = IF command = "start" THEN "start" ELSE "wait"
    BY <1>6 DEF StartInspector, TunnelStarts
  <2>. QED
    BY <1>2, <1>3, <2>1
<1>7. CASE /\ ~TunnelStarts
           /\ started' = started
           /\ pc' = pc \/ pc' = "exited" \/ (pc = "wait" /\ pc' = "return")
  <2>1. \A t \in Tunnels : Served(t)' => Served(t)
    BY <1>3, <1>7
  <2>2. pc' = "started" => Served(started + 1)'
    BY <1>1, <1>3, <1>7 DEF Control
  <2>3. pc' = "exited" => pc = "exited" \/ pc # "started"
    BY <1>7 DEF Next, Main, StartInspector, TunnelStarted, WaitReturns, ReceiveResult, WaitCancelled, Return,
         Interrupt, InspectorStops, Page, SendResult, TunnelEnds, TunnelDeafens, CtxCloses, TunnelMoves,
         Capture, otherVars, processVars, vars, mainVars
  <2>. QED
    BY <1>2, <1>7, <2>1, <2>2, <2>3
<1>8. TunnelStarts \/ TunnelStarted \/ StartInspector
        \/ (~TunnelStarts /\ started' = started
              /\ (pc' = pc \/ pc' = "exited" \/ (pc = "wait" /\ pc' = "return")))
  BY DEF Next, Main, WaitReturns, ReceiveResult, WaitCancelled, Return,
         Interrupt, InspectorStops, Page, SendResult, TunnelEnds, TunnelDeafens, CtxCloses,
         TunnelMoves, Capture, otherVars, processVars, vars, mainVars
<1>. QED
  BY <1>4, <1>5, <1>6, <1>7, <1>8

LEMMA TargetsStep ==
    ASSUME ProcessTypes, Control, Progress, TargetsFit, StoreInv, [Next]_vars PROVE TargetsFit'
<1>. SUFFICES ASSUME command = "start" PROVE TargetsFit'
  <2>1. command' = command
    BY DEF Next, Main, StartInspector, TunnelStarted, WaitReturns, ReceiveResult, WaitCancelled, Return,
           TunnelStarts, Interrupt, InspectorStops, Page, SendResult, TunnelEnds, TunnelDeafens, CtxCloses,
           TunnelMoves, Capture, otherVars, processVars, vars
  <2>. QED
    BY <2>1 DEF TargetsFit
<1>. USE DEF ProcessTypes, TargetsFit
<1>1. Tunnels = 1..N /\ N \in Nat /\ targets \in [TunnelIDs -> Tunnels \cup {None}] /\ None \notin Tunnels
  BY ProcessAssumption, InspectorAssumption DEF StoreInv, InspectorTypeOK
<1>2. \A t \in Tunnels : Served(t) => Served(t)' /\ idOf'[t] = idOf[t]
  BY ServedStays
<1>3. CASE TunnelStarted
  <2>1. /\ pc = "started" /\ started' = started + 1 /\ started + 1 \in Tunnels
        /\ idOf' = idOf /\ Served(started + 1) /\ tun' = tun
    BY <1>1, <1>3 DEF TunnelStarted, Control, Wanted, Progress
  <2>. DEFINE u == started + 1
  <2>2. u \in Tunnels /\ \A t \in Tunnels : t <= started' => t <= started \/ t = u
    BY <1>1, <2>1
  <2>3. targets' = IF idOf[u] # None THEN [targets EXCEPT ![idOf[u]] = u] ELSE targets
    BY <1>3 DEF TunnelStarted, SetTarget
  <2>4. Served(u) /\ idOf[u] \in TunnelIDs \cup {None}
    BY <2>1, <2>2
  <2>5. \A t : Served(t)' <=> Served(t)
    BY <2>1 DEF Served
  <2>. HIDE DEF u
  <2>6. ASSUME NEW t \in Tunnels, t <= started', idOf[t] # None PROVE targets'[idOf[t]] # None
    <3>1. idOf[t] \in TunnelIDs /\ (t <= started \/ t = u)
      BY <2>2, <2>6
    <3>. QED
      BY <1>1, <2>2, <2>3, <2>4, <2>6, <3>1
  <2>7. ASSUME NEW i \in TunnelIDs, targets'[i] # None
        PROVE  Served(targets'[i]) /\ idOf[targets'[i]] = i
    BY <1>1, <2>2, <2>3, <2>4, <2>7
  <2>8. idOf' = idOf
    BY <2>1
  <2>. QED
    BY <2>5, <2>6, <2>7, <2>8
<1>4. CASE ~TunnelStarted
  <2>1. targets' = targets /\ started' = started
    BY <1>4 DEF Next, Main, StartInspector, WaitReturns, ReceiveResult, WaitCancelled, Return,
           TunnelStarts, Interrupt, InspectorStops, Page, SendResult, TunnelEnds, TunnelDeafens, CtxCloses,
           TunnelMoves, Capture, otherVars, processVars, vars, mainVars, Add, Refresh, Select, ClickReplay,
           ReplayGet, ReplaySend, ReplayEnds
  <2>2. ASSUME NEW t \in Tunnels, t <= started PROVE idOf'[t] = idOf[t]
    <3>1. CASE TunnelStarts
      BY <1>1, <2>2, <3>1 DEF TunnelStarts
    <3>2. CASE ~TunnelStarts
      BY <1>4, <3>2 DEF Next, Main, StartInspector, WaitReturns, ReceiveResult, WaitCancelled, Return,
             Interrupt, InspectorStops, Page, SendResult, TunnelEnds, TunnelDeafens, CtxCloses,
             TunnelMoves, Capture, otherVars, processVars, vars
    <3>. QED
      BY <3>1, <3>2
  <2>. QED
    BY <1>1, <1>2, <2>1, <2>2
<1>. QED
  BY <1>3, <1>4

LEMMA CapturedStep ==
    ASSUME ProcessTypes, Control, Progress, TargetsFit, Known, StoreInv, Captured, [Next]_vars
    PROVE  Captured'
<1>. USE DEF ProcessTypes
<1>1. /\ Tunnels = 1..N /\ N \in Nat \ {0} /\ None \notin Tunnels
      /\ entries \in Seq(Entries) /\ nextID \in 0..MaxRequests /\ MaxRequests \in Nat
      /\ targets \in [TunnelIDs -> Tunnels \cup {None}]
  BY ProcessAssumption, InspectorAssumption DEF StoreInv, InspectorTypeOK
<1>2. \A t \in Tunnels : Served(t) => Served(t)' /\ idOf'[t] = idOf[t]
  BY ServedStays
<1>3. \A i : HasTunnel(i) => HasTunnel(i)'
  BY <1>2 DEF HasTunnel
<1>4. CASE entries' = entries /\ replay' = replay
  BY <1>2, <1>3, <1>4 DEF Captured
<1>5. ASSUME NEW t \in Tunnels, Capture(t) PROVE Captured'
  <2>1. /\ HasTunnel(idOf[t]) /\ idOf[t] \in TunnelIDs /\ Add(idOf[t])
        /\ replay' = replay
    BY <1>5 DEF Capture, HasTunnel, Served, Known, Add
  <2>. DEFINE new == [id |-> nextID + 1, tunnel |-> idOf[t]]
  <2>2. new \in Entries /\ new.tunnel = idOf[t]
    BY <1>1, <2>1 DEF Entries, Add
  <2>3. entries' = Newest(Append(entries, new))
    BY <2>1 DEF Add
  <2>. HIDE DEF new
  <2>4. ToSet(entries') \subseteq ToSet(entries) \cup {new}
    BY <1>1, <2>2, <2>3, AddedEntries
  <2>. QED
    BY <1>2, <1>3, <2>1, <2>2, <2>4 DEF Captured
<1>6. CASE ReplayGet
  <2>1. replay.step = "asked" /\ UNCHANGED entries
    BY <1>6 DEF ReplayGet
  <2>2. CASE replay' = NoReplay
    BY <1>2, <1>3, <2>1, <2>2 DEF Captured, NoReplay
  <2>3. CASE Get(replay.want.id) # {}
    <3>1. PICK e \in Get(replay.want.id) : replay' = [replay EXCEPT !.step = "found", !.got = e]
      BY <1>6, <2>3 DEF ReplayGet
    <3>2. e \in ToSet(entries)
      BY DEF Get
    <3>3. replay'.step = "found" /\ replay'.got = e
      BY <3>1 DEF StoreInv, InspectorTypeOK
    <3>. QED
      BY <1>3, <2>1, <3>2, <3>3 DEF Captured
  <2>. QED
    BY <1>6, <2>2, <2>3 DEF ReplayGet
<1>7. CASE ReplaySend(TargetOf(replay.got.tunnel)) /\ UNCHANGED processVars
  <2>1. /\ replay.step = "found" /\ UNCHANGED entries /\ UNCHANGED <<tun, idOf>>
        /\ replay.got = replay.want /\ replay.want \in Entries
    BY <1>7 DEF ReplaySend, processVars, StoreInv, ReplayRunsWhatWasShown, Agrees
  <2>. DEFINE i == replay.got.tunnel
              u == TargetOf(i)
  <2>2. i \in TunnelIDs /\ HasTunnel(i)
    BY <2>1 DEF Captured, Entries
  <2>3. CASE replay' = NoReplay
    BY <1>3, <2>1, <2>3 DEF Captured, NoReplay
  <2>4. CASE u # None /\ replay' = [replay EXCEPT !.step = "sent", !.to = u]
    <3>1. u \in Tunnels /\ Served(u) /\ idOf[u] = i
      <4>1. CASE command = "start"
        BY <1>1, <2>2, <2>4, <4>1 DEF TargetsFit, TargetOf
      <4>2. CASE command # "start"
        <5>1. PICK t \in Tunnels : Served(t) /\ idOf[t] = i
          BY <2>2 DEF HasTunnel
        <5>2. t = 1
          BY <1>1, <4>2, <5>1 DEF Progress, Control, Wanted
        <5>. QED
          BY <4>2, <5>1, <5>2 DEF TargetOf
      <4>. QED
        BY <4>1, <4>2
    <3>2. replay'.step = "sent" /\ replay'.to = u /\ replay'.got = replay.got
      BY <2>4 DEF StoreInv, InspectorTypeOK
    <3>. HIDE DEF u
    <3>. QED
      BY <1>2, <1>3, <2>1, <2>2, <3>1, <3>2 DEF Captured
  <2>. QED
    BY <1>7, <2>3, <2>4 DEF ReplaySend
<1>8. CASE ReplayEnds
  BY <1>3, <1>8 DEF ReplayEnds, NoReplay, Captured
<1>9. CASE ClickReplay
  <2>1. PICK e \in Card : replay' = [NoReplay EXCEPT !.step = "asked", !.want = e]
    BY <1>9 DEF ClickReplay
  <2>2. replay'.step = "asked" /\ UNCHANGED entries
    BY <1>9, <2>1 DEF NoReplay, ClickReplay
  <2>. QED
    BY <1>3, <2>2 DEF Captured
<1>10. \/ entries' = entries /\ replay' = replay
       \/ \E t \in Tunnels : Capture(t)
       \/ ReplayGet \/ ReplayEnds \/ ClickReplay
       \/ ReplaySend(TargetOf(replay.got.tunnel)) /\ UNCHANGED processVars
  BY DEF Next, Main, StartInspector, TunnelStarted, WaitReturns, ReceiveResult, WaitCancelled, Return,
         TunnelStarts, Interrupt, InspectorStops, Page, SendResult, TunnelEnds, TunnelDeafens, CtxCloses,
         TunnelMoves, otherVars, vars, Refresh, Select
<1>. QED
  BY <1>4, <1>5, <1>6, <1>7, <1>8, <1>9, <1>10

----------------------------------------------------------------------------
(* The theorems.                                                            *)

ProcessInv ==
    /\ ProcessTypes /\ Control /\ Results /\ Known /\ Counted /\ ExitInv
    /\ StoreInv /\ Progress /\ TargetsFit /\ Captured

LEMMA ProcessInit == Init => ProcessInv
<1>. SUFFICES ASSUME Init PROVE ProcessInv
  OBVIOUS
<1>1. N \in Nat \ {0} /\ Tunnels = 1..N /\ 1 \in Tunnels
  BY ProcessAssumption
<1>2. \A t \in Tunnels : tun[t] = [life |-> "starting", told |-> FALSE, deaf |-> FALSE, result |-> "none"]
  BY DEF Init, Life!New
<1>3. tun \in [Tunnels -> States]
  <2>1. tun = [t \in Tunnels |-> tun[t]]
    BY Zenon DEF Init
  <2>2. [life |-> "starting", told |-> FALSE, deaf |-> FALSE, result |-> "none"] \in States
    BY DEF States
  <2>3. \A t \in Tunnels : tun[t] \in States
    BY <1>2, <2>2
  <2>. QED
    BY <2>1, <2>3, Zenon
<1>4. ProcessTypes
  <2>1. inspected \subseteq Tunnels /\ command \in {"http", "tcp", "start"} /\ pc \in {"inspector", "start"}
    BY <1>1 DEF Init
  <2>2. idOf \in [Tunnels -> TunnelIDs \cup {None}] /\ errCh \in Seq(Errs) /\ firstErr \in Errs
    BY DEF Init, Errs
  <2>3. started = 0 /\ ctxDone \in BOOLEAN /\ serving \in BOOLEAN /\ waiting = {} /\ received = 0
        /\ exit = -1
    BY DEF Init
  <2>. QED
    BY <1>1, <1>3, <2>1, <2>2, <2>3 DEF ProcessTypes
<1>5. Control
  BY <1>1 DEF Init, Control, Wanted
<1>6. Results /\ Known
  BY <1>2, <1>4 DEF Results, Known, ProcessTypes
<1>7. Counted
  <2>1. received = 0 /\ waiting = {} /\ Len(errCh) = 0 /\ Cardinality({}) = 0
    BY FS_EmptySet DEF Init
  <2>. QED
    BY <1>1, <2>1 DEF Counted
<1>8. ExitInv
  BY <1>2 DEF Init, ExitInv, ExitIsExplained
<1>9. StoreInv
  <2>1. InspectorInit /\ MaxRequests \in Nat /\ MaxEntries \in Nat \ {0}
    BY InspectorAssumption DEF Init
  <2>2. /\ entries = <<>> /\ Len(entries) = 0 /\ nextID = 0 /\ shown = <<>> /\ ToSet(shown) = {}
        /\ targets \in [TunnelIDs -> Tunnels \cup {None}] /\ selected = 0
    BY <2>1 DEF InspectorInit, ToSet
  <2>3. replay = [step |-> "idle", want |-> None, got |-> None, to |-> None]
    BY <2>1 DEF InspectorInit, NoReplay
  <2>4. entries \in Seq(Entries) /\ shown \in Seq(Entries)
    BY <2>2
  <2>. QED
    BY <2>1, <2>2, <2>3, <2>4 DEF StoreInv, InspectorTypeOK, StoreHoldsNewest, ReplayRunsWhatWasShown
<1>10. Progress
  BY <1>1, <1>2 DEF Init, Progress, Served, Wanted
<1>11. TargetsFit
  BY <1>1 DEF Init, InspectorInit, TargetsFit
<1>12. Captured
  <2>1. ToSet(entries) = {} /\ replay.step = "idle"
    BY DEF Init, InspectorInit, NoReplay, ToSet
  <2>. QED
    BY <2>1 DEF Captured
<1>. QED
  BY <1>4, <1>5, <1>6, <1>7, <1>8, <1>9, <1>10, <1>11, <1>12 DEF ProcessInv

LEMMA ProcessInvariant == Spec => []ProcessInv
<1>1. ProcessInv /\ [Next]_vars => ProcessInv'
  BY ResultsStep, KnownStep, TypesStep, ControlStep, ExitStep, CountedStep, StoreStep,
     ProgressStep, TargetsStep, CapturedStep DEF ProcessInv
<1>. QED
  BY <1>1, ProcessInit, PTL DEF Spec

(* The types of the client process, and that waitAll receives each tunnel's *)
(* result once.                                                             *)
THEOREM ProcessTypesHold == Spec => []TypeOK
<1>1. ProcessInv => TypeOK
  <2>. SUFFICES ASSUME ProcessInv PROVE TypeOK
    OBVIOUS
  <2>1. tun \in [Tunnels -> Life(1)!States]
    BY SameStates DEF ProcessInv, ProcessTypes
  <2>2. firstErr \in Life(1)!Results \ {"none"}
    BY DEF ProcessInv, ProcessTypes, Errs, Life!Results
  <2>. QED
    BY <2>1, <2>2 DEF ProcessInv, ProcessTypes, Counted, StoreInv, TypeOK
<1>. QED
  BY <1>1, ProcessInvariant, PTL

(* The exit status is 1 only after a failure of a tunnel, 0 only after an   *)
(* interrupt, for any number of tunnels that end in any order.              *)
THEOREM ExitStatusIsTrue == Spec => []ExitIsExplained
<1>1. ProcessInv => ExitIsExplained
  BY DEF ProcessInv, ExitInv
<1>. QED
  BY <1>1, ProcessInvariant, PTL

(* The ring of the store keeps the newest requests, for any limit.          *)
THEOREM StoreKeepsNewest == Spec => []StoreHoldsNewest
<1>1. ProcessInv => StoreHoldsNewest
  BY DEF ProcessInv, StoreInv
<1>. QED
  BY <1>1, ProcessInvariant, PTL

(* A replay is of the request the user saw, whatever was captured since.    *)
THEOREM ReplayIsOfWhatWasShown == Spec => []ReplayRunsWhatWasShown
<1>1. ProcessInv => ReplayRunsWhatWasShown
  BY DEF ProcessInv, StoreInv
<1>. QED
  BY <1>1, ProcessInvariant, PTL

(* Once the command waits, each captured request has a target, and a replay *)
(* goes to a service of the tunnel of its id, whichever ids tunnels share.  *)
THEOREM CapturesHaveTargets == Spec => []CapturesCanBeReplayed
<1>1. ProcessInv => CapturesCanBeReplayed
  <2>. SUFFICES ASSUME ProcessInv PROVE CapturesCanBeReplayed
    OBVIOUS
  <2>. USE DEF ProcessInv
  <2>1. Tunnels = 1..N /\ None \notin Tunnels \cup TunnelIDs /\ N \in Nat \ {0}
    BY ProcessAssumption, InspectorAssumption
  <2>2. ASSUME pc \in {"wait", "return"}, NEW e \in ToSet(entries) PROVE TargetOf(e.tunnel) # None
    <3>1. PICK t \in Tunnels : Served(t) /\ idOf[t] = e.tunnel
      BY DEF Captured, HasTunnel
    <3>2. e.tunnel \in TunnelIDs
      BY EntryAgrees DEF Agrees, Entries
    <3>3. CASE command = "start"
      <4>1. t <= started
        BY <2>2, <3>1 DEF Progress
      <4>2. targets[e.tunnel] # None
        BY <2>1, <3>1, <3>2, <3>3, <4>1 DEF TargetsFit
      <4>. QED
        BY <3>3, <4>2 DEF TargetOf
    <3>4. CASE command # "start"
      BY <2>1, <3>4 DEF TargetOf
    <3>. QED
      BY <3>3, <3>4
  <2>3. replay.step = "sent" => idOf[replay.to] = replay.got.tunnel
    BY DEF Captured
  <2>. QED
    BY <2>2, <2>3 DEF CapturesCanBeReplayed
<1>. QED
  BY <1>1, ProcessInvariant, PTL

----------------------------------------------------------------------------
(* Each tunnel of the process is a tunnel of TunnelLife: the commands do to *)
(* it only what a tunnel allows.                                            *)

(* What was started serves or has ended, so it may be told to close.        *)
StartedServe == \A t \in Tunnels : t <= started => Served(t)

LEMMA StartedServeStep ==
    ASSUME ProcessTypes, Control, Progress, StartedServe, [Next]_vars PROVE StartedServe'
<1>. USE DEF ProcessTypes, StartedServe
<1>1. \A t \in Tunnels : Served(t) => Served(t)'
  BY ServedStays
<1>2. Tunnels = 1..N /\ N \in Nat
  BY ProcessAssumption
<1>3. CASE TunnelStarted
  <2>1. started' = started + 1 /\ Served(started + 1)
    BY <1>3 DEF TunnelStarted, Progress
  <2>. QED
    BY <1>1, <1>2, <2>1
<1>4. CASE ~TunnelStarted
  <2>1. started' = started
    BY <1>4 DEF Next, Main, StartInspector, WaitReturns, ReceiveResult, WaitCancelled, Return,
         TunnelStarts, Interrupt, InspectorStops, Page, SendResult, TunnelEnds, TunnelDeafens, CtxCloses,
         TunnelMoves, Capture, otherVars, processVars, vars, mainVars
  <2>. QED
    BY <1>1, <2>1
<1>. QED
  BY <1>3, <1>4

(* A step of the process is a step of each of its tunnels, or none.         *)
LEMMA TunnelKeepsLife ==
    ASSUME ProcessTypes, Control, Progress, StartedServe, [Next]_vars, NEW t \in Tunnels
    PROVE  [Life(t)!Next]_<<tun[t], ctxDone>>
<1>. DEFINE Moves == Life(t)!StartMoves(tun[t]) \cup Life(t)!ToldMoves(tun[t])
                       \cup Life(t)!EndMoves(tun[t], ctxDone) \cup Life(t)!DeafMoves(tun[t])
<1>1. DOMAIN tun = Tunnels /\ Tunnels = 1..N /\ N \in Nat \ {0} /\ started \in 0..N
  BY ProcessAssumption DEF ProcessTypes
<1>2. ASSUME tun'[t] \in Moves, ctxDone' = ctxDone PROVE Life(t)!Next
  BY <1>2 DEF Life!Next
<1>3. CASE tun'[t] = tun[t] /\ ctxDone' = ctxDone
  BY <1>3
<1>4. ASSUME Served(t), tun'[t] = Life(t)!Told(tun[t]), ctxDone' = ctxDone PROVE Life(t)!Next
  <2>1. tun'[t] \in Life(t)!ToldMoves(tun[t])
    BY <1>4 DEF Served, Life!ToldMoves
  <2>. QED
    BY <1>2, <1>4, <2>1
<1>. HIDE DEF Moves
<1>5. CASE TunnelStarts
  <2>1. PICK s \in Life(started + 1)!StartMoves(tun[started + 1]) : tun' = [tun EXCEPT ![started + 1] = s]
    BY <1>5 DEF TunnelStarts
  <2>2. ctxDone' = ctxDone
    BY <1>5 DEF TunnelStarts
  <2>3. CASE t = started + 1
    <3>1. tun'[t] \in Life(t)!StartMoves(tun[t])
      BY <1>1, <2>1, <2>3
    <3>. QED
      BY <1>2, <2>2, <3>1 DEF Moves
  <2>4. CASE t # started + 1
    BY <1>1, <1>3, <2>1, <2>2, <2>4
  <2>. QED
    BY <2>3, <2>4
<1>6. ASSUME NEW q \in Tunnels, TunnelEnds(q) \/ TunnelDeafens(q) \/ CtxCloses(q)
      PROVE  [Life(t)!Next]_<<tun[t], ctxDone>>
  <2>1. ctxDone' = ctxDone
    BY <1>6 DEF TunnelEnds, TunnelDeafens, CtxCloses, TunnelMoves
  <2>2. CASE q # t
    <3>1. tun'[t] = tun[t]
      BY <1>1, <1>6, <2>2 DEF TunnelEnds, TunnelDeafens, CtxCloses, TunnelMoves
    <3>. QED
      BY <1>3, <2>1, <3>1
  <2>3. CASE q = t
    <3>1. \/ tun'[t] \in Life(t)!EndMoves(tun[t], ctxDone)
          \/ tun'[t] \in Life(t)!DeafMoves(tun[t])
          \/ tun'[t] \in Life(t)!ToldMoves(tun[t])
      BY <1>1, <1>6, <2>3 DEF TunnelEnds, TunnelDeafens, CtxCloses, TunnelMoves
    <3>. QED
      BY <1>2, <2>1, <3>1 DEF Moves
  <2>. QED
    BY <2>2, <2>3
<1>7. CASE ReceiveResult
  <2>1. Served(t)
    <3>1. started = N
      BY <1>7 DEF ReceiveResult, Control, Progress, Wanted, ProcessTypes
    <3>. QED
      BY <1>1, <3>1 DEF StartedServe
  <2>2. ctxDone' = ctxDone /\ (tun'[t] = tun[t] \/ tun'[t] = Life(t)!Told(tun[t]))
    BY <1>7 DEF ReceiveResult, CloseAll
  <2>. QED
    BY <1>3, <1>4, <2>1, <2>2
<1>8. CASE WaitCancelled
  <2>1. Served(t)
    <3>1. started = N
      BY <1>8 DEF WaitCancelled, Progress, Wanted, ProcessTypes
    <3>. QED
      BY <1>1, <3>1 DEF StartedServe
  <2>2. ctxDone' = ctxDone /\ tun'[t] = Life(t)!Told(tun[t])
    BY <1>8 DEF WaitCancelled, CloseAll
  <2>. QED
    BY <1>4, <2>1, <2>2
<1>9. CASE Return
  <2>1. ctxDone' = ctxDone /\ tun'[t] = IF t <= started THEN Life(t)!Told(tun[t]) ELSE tun[t]
    BY <1>9 DEF Return
  <2>2. t <= started => Served(t)
    BY DEF StartedServe
  <2>. QED
    BY <1>3, <1>4, <2>1, <2>2
<1>10. CASE Interrupt
  <2>1. ~ctxDone /\ ctxDone' = TRUE /\ tun'[t] = tun[t]
    BY <1>10 DEF Interrupt
  <2>. QED
    BY <2>1 DEF Life!Next
<1>11. CASE \/ StartInspector \/ TunnelStarted \/ WaitReturns \/ InspectorStops \/ Page
            \/ \E q \in Tunnels : SendResult(q) \/ Capture(q)
            \/ UNCHANGED vars
  BY <1>3, <1>11 DEF StartInspector, TunnelStarted, WaitReturns, InspectorStops, Page,
                     SendResult, Capture, vars, processVars
<1>. QED
  BY <1>5, <1>6, <1>7, <1>8, <1>9, <1>10, <1>11 DEF Next, Main

(* Every tunnel of a run of the client behaves as TunnelLife says, whatever *)
(* the command, waitAll and the deferred calls do to it: none is told to    *)
(* close before it serves, and a result is never taken back.  ClientTunnel  *)
(* is proved to keep the same promise: the two models fit.                  *)
THEOREM TunnelsKeepLife == ASSUME NEW t \in Tunnels PROVE Spec => Life(t)!Safe
<1>1. Init => Life(t)!Init
  BY DEF Init, Life!Init
<1>2. Init => StartedServe
  BY ProcessAssumption DEF Init, StartedServe
<1>3. ProcessInv /\ StartedServe /\ [Next]_vars => StartedServe'
  BY StartedServeStep DEF ProcessInv
<1>4. Spec => []StartedServe
  BY <1>2, <1>3, ProcessInvariant, PTL DEF Spec
<1>5. ProcessInv /\ StartedServe /\ [Next]_vars => [Life(t)!Next]_<<tun[t], ctxDone>>
  BY TunnelKeepsLife DEF ProcessInv
<1>. QED
  BY <1>1, <1>4, <1>5, ProcessInvariant, PTL DEF Spec, Life!Safe

----------------------------------------------------------------------------
(* The end of one tunnel is followed by the end of the process.             *)

(* waitAll waits for a result of every tunnel it has none of yet, and has   *)
(* told all tunnels to close once it has one.                               *)
AllAwaited ==
    pc = "wait" /\ command = "start" =>
        /\ received < N /\ received + Len(errCh) + Cardinality(waiting) = N
        /\ received > 0 => \A t \in Tunnels : tun[t].told

LEMMA TunnelCount ==
    IsFiniteSet(Tunnels) /\ Cardinality(Tunnels) = N /\ N \in Nat \ {0}
<1>1. N \in Nat \ {0} /\ Tunnels = 1..N
  BY ProcessAssumption
<1>2. IsFiniteSet(1..N) /\ Cardinality(1..N) = IF 1 > N THEN 0 ELSE N - 1 + 1
  BY <1>1, FS_Interval
<1>. QED
  BY <1>1, <1>2

LEMMA ToldStays ==
    ASSUME ProcessTypes, [Next]_vars, NEW t \in Tunnels, tun[t].told PROVE tun'[t].told
<1>. USE DEF ProcessTypes
<1>1. tun[t] \in States /\ DOMAIN tun = Tunnels
  OBVIOUS
<1>2. CASE tun'[t] = tun[t]
  BY <1>2
<1>3. CASE tun'[t] = Life(t)!Told(tun[t])
  BY <1>1, <1>3 DEF Life!Told, States
<1>4. CASE TunnelStarts
  <2>1. PICK s \in Life(started + 1)!StartMoves(tun[started + 1]) : tun' = [tun EXCEPT ![started + 1] = s]
    BY <1>4 DEF TunnelStarts
  <2>2. CASE t = started + 1
    <3>1. tun'[t] = s /\ s \in Life(t)!StartMoves(tun[t])
      BY <1>1, <2>1, <2>2
    <3>. QED
      BY <1>1, <3>1, StartMove
  <2>. QED
    BY <1>1, <1>2, <2>1, <2>2
<1>5. ASSUME NEW q \in Tunnels, TunnelEnds(q) \/ TunnelDeafens(q) \/ CtxCloses(q) PROVE tun'[t].told
  <2>1. CASE q # t
    BY <1>1, <1>2, <1>5, <2>1 DEF TunnelEnds, TunnelDeafens, CtxCloses, TunnelMoves
  <2>2. CASE q = t
    <3>1. \/ tun'[t] \in Life(t)!EndMoves(tun[t], ctxDone)
          \/ tun'[t] \in Life(t)!DeafMoves(tun[t])
          \/ tun'[t] \in Life(t)!ToldMoves(tun[t])
      BY <1>1, <1>5, <2>2 DEF TunnelEnds, TunnelDeafens, CtxCloses, TunnelMoves
    <3>. QED
      BY <1>1, <1>3, <3>1, EndMove, DeafMove, ToldMove
  <2>. QED
    BY <2>1, <2>2
<1>6. CASE Closing
  <2>1. tun'[t] = Life(t)!Told(tun[t]) \/ tun'[t] = tun[t]
    BY <1>1, <1>6 DEF Closing, ReceiveResult, WaitCancelled, Return, CloseAll
  <2>. QED
    BY <1>2, <1>3, <2>1
<1>7. CASE \/ StartInspector \/ TunnelStarted \/ WaitReturns \/ Interrupt \/ InspectorStops \/ Page
           \/ \E q \in Tunnels : SendResult(q) \/ Capture(q)
           \/ UNCHANGED vars
  BY <1>2, <1>7 DEF StartInspector, TunnelStarted, WaitReturns, Interrupt, InspectorStops, Page,
                    SendResult, Capture, vars, processVars
<1>. QED
  BY <1>4, <1>5, <1>6, <1>7 DEF Next, Main, Closing

LEMMA AwaitedStep ==
    ASSUME ProcessTypes, Control, AllAwaited, [Next]_vars,
           received = 0 => firstErr = "nil"
    PROVE  AllAwaited'
<1>. USE DEF ProcessTypes, AllAwaited
<1>1. /\ N \in Nat \ {0} /\ Len(errCh) \in Nat /\ received \in Nat
      /\ IsFiniteSet(waiting) /\ Cardinality(waiting) \in Nat /\ Cardinality(Tunnels) = N
  <2>1. IsFiniteSet(waiting)
    BY TunnelCount, FS_Subset
  <2>. QED
    BY <2>1, TunnelCount, FS_CardinalityType
<1>2. \A t \in Tunnels : tun[t].told => tun'[t].told
  BY ToldStays
<1>3. CASE TunnelStarted
  <2>1. received' = 0 /\ errCh' = <<>> /\ command' = command
    BY <1>3 DEF TunnelStarted, Control
  <2>2. ASSUME pc' = "wait", command = "start" PROVE waiting' = Tunnels
    BY <1>3, <2>2 DEF TunnelStarted
  <2>3. Len(errCh') = 0
    BY <2>1
  <2>. QED
    BY <1>1, <2>1, <2>2, <2>3
<1>4. ASSUME NEW t \in Tunnels, SendResult(t) PROVE AllAwaited'
  <2>1. Cardinality(waiting') = Cardinality(waiting) - 1
    BY <1>1, <1>4, FS_RemoveElement DEF SendResult
  <2>2. Len(errCh') = Len(errCh) + 1
    BY <1>4 DEF SendResult
  <2>3. UNCHANGED <<received, pc, command, tun>>
    BY <1>4 DEF SendResult
  <2>. QED
    BY <1>1, <2>1, <2>2, <2>3
<1>5. CASE ReceiveResult
  <2>1. Len(errCh') = Len(errCh) - 1 /\ Len(errCh) >= 1
    BY <1>5, HeadTailProperties DEF ReceiveResult
  <2>2. /\ received' = received + 1 /\ UNCHANGED <<waiting, command>>
        /\ pc = "wait" /\ (pc' = "wait" => received' # N)
    BY <1>5 DEF ReceiveResult
  <2>3. ASSUME command = "start", NEW t \in Tunnels PROVE tun'[t].told
    <3>1. CASE received > 0
      BY <1>2, <2>2, <2>3, <3>1
    <3>2. CASE received = 0
      <4>1. tun'[t] = Life(t)!Told(tun[t]) /\ tun[t] \in States
        BY <1>5, <3>2 DEF ReceiveResult, CloseAll
      <4>. QED
        BY <4>1 DEF Life!Told, States
    <3>. QED
      BY <1>1, <3>1, <3>2
  <2>. QED
    BY <1>1, <2>1, <2>2, <2>3
<1>6. CASE StartInspector
  <2>1. command' = command /\ pc' = IF command = "start" THEN "start" ELSE "wait"
    BY <1>6 DEF StartInspector
  <2>. QED
    BY <2>1
<1>7. CASE TunnelStarts \/ WaitReturns \/ WaitCancelled \/ Return
  BY <1>7 DEF TunnelStarts, WaitReturns, WaitCancelled, Return
<1>8. CASE \/ Interrupt \/ InspectorStops \/ Page \/ UNCHANGED vars
           \/ \E t \in Tunnels : TunnelEnds(t) \/ TunnelDeafens(t) \/ CtxCloses(t) \/ Capture(t)
  <2>1. UNCHANGED <<pc, command, received, errCh, waiting>>
    BY <1>8 DEF Interrupt, InspectorStops,
         Page, TunnelEnds, TunnelDeafens, CtxCloses, TunnelMoves, Capture, otherVars, processVars, mainVars, vars
  <2>. QED
    BY <1>2, <2>1
<1>. QED
  BY <1>3, <1>4, <1>5, <1>6, <1>7, <1>8 DEF Next, Main

(* Before the first result there is no first error.                         *)
NoErrorYet == received = 0 /\ pc \notin {"return", "exited"} => firstErr = "nil"

LEMMA NoErrorStep == ASSUME ProcessTypes, NoErrorYet, [Next]_vars PROVE NoErrorYet'
<1>1. CASE ReceiveResult
  BY <1>1 DEF ReceiveResult, NoErrorYet, ProcessTypes
<1>2. CASE WaitReturns \/ WaitCancelled \/ Return
  BY <1>2 DEF WaitReturns, WaitCancelled, Return, NoErrorYet
<1>3. CASE ~(ReceiveResult \/ WaitReturns \/ WaitCancelled \/ Return)
  <2>1. UNCHANGED <<received, firstErr>> /\ (pc \in {"return", "exited"} => pc' = pc)
    BY <1>3 DEF Next, Main, StartInspector, TunnelStarted,
         TunnelStarts, Interrupt, InspectorStops, Page, SendResult, TunnelEnds, TunnelDeafens, CtxCloses,
         TunnelMoves, Capture, otherVars, processVars, vars, mainVars
  <2>. QED
    BY <2>1 DEF NoErrorYet
<1>. QED
  BY <1>1, <1>2, <1>3

(* What follows the end of a tunnel while the command waits.                *)
EndIsFollowed ==
    pc = "wait" /\ (\E t \in Tunnels : tun[t].life = "ended") =>
        IF command # "start" THEN tun[1].life = "ended"
        ELSE \/ errCh # <<>>
             \/ \E t \in waiting : tun[t].life = "ended" /\ Len(errCh) < N
             \/ /\ \A t \in Tunnels : tun[t].told
                /\ \E t \in waiting : tun[t].life = "up"

(* When a tunnel has ended while the command waits, the process is on its   *)
(* way out: the only Wait returns, or a result is in the channel, or a      *)
(* goroutine of waitAll has one and finds room for it, or every tunnel was  *)
(* told to close and waitAll waits for one that still serves.  No result is *)
(* lost, whatever ended in between: the safety half of ProcessEnds.         *)
THEOREM EndsAreFollowed == Spec => []EndIsFollowed
<1>1. Init => StartedServe /\ AllAwaited /\ NoErrorYet
  BY ProcessAssumption DEF Init, StartedServe, AllAwaited, NoErrorYet
<1>2. ProcessInv /\ StartedServe /\ [Next]_vars => StartedServe'
  BY StartedServeStep DEF ProcessInv
<1>3. ProcessInv /\ NoErrorYet /\ AllAwaited /\ [Next]_vars => AllAwaited' /\ NoErrorYet'
  <2>. SUFFICES ASSUME ProcessInv, NoErrorYet, AllAwaited, [Next]_vars PROVE AllAwaited' /\ NoErrorYet'
    OBVIOUS
  <2>1. NoErrorYet'
    BY NoErrorStep DEF ProcessInv
  <2>2. CASE received = 0 => firstErr = "nil"
    BY <2>1, <2>2, AwaitedStep DEF ProcessInv
  <2>3. CASE pc \in {"return", "exited"}
    <3>1. pc' # "wait"
      BY <2>3 DEF Next, Main, StartInspector, TunnelStarted, WaitReturns, ReceiveResult, WaitCancelled, Return,
         TunnelStarts, Interrupt, InspectorStops, Page, SendResult, TunnelEnds, TunnelDeafens, CtxCloses,
         TunnelMoves, Capture, otherVars, processVars, vars, mainVars
    <3>. QED
      BY <2>1, <3>1 DEF AllAwaited
  <2>. QED
    BY <2>2, <2>3 DEF NoErrorYet
<1>4. ASSUME ProcessInv, StartedServe, AllAwaited, pc = "wait",
             NEW e \in Tunnels, tun[e].life = "ended"
      PROVE  EndIsFollowed
  <2>. USE <1>4 DEF ProcessInv, ProcessTypes
  <2>1. Tunnels = 1..N /\ N \in Nat \ {0}
    BY ProcessAssumption
  <2>2. CASE command # "start"
    <3>1. e <= 1
      BY <2>1, <2>2 DEF Progress, Served, Wanted
    <3>. QED
      BY <2>1, <2>2, <3>1 DEF EndIsFollowed
  <2>3. CASE command = "start" /\ errCh = <<>> /\ ~(\E t \in waiting : tun[t].life = "ended")
    <3>1. Len(errCh) = 0 /\ received < N /\ received + Cardinality(waiting) = N
          /\ IsFiniteSet(waiting) /\ Cardinality(waiting) \in Nat
      <4>1. IsFiniteSet(waiting) /\ Cardinality(waiting) \in Nat
        BY TunnelCount, FS_Subset, FS_CardinalityType
      <4>2. Len(errCh) = 0
        BY <2>3
      <4>. QED
        BY <2>1, <2>3, <4>1, <4>2 DEF AllAwaited
    <3>2. waiting # {}
      BY <2>1, <3>1, FS_EmptySet
    <3>3. PICK t \in waiting : TRUE
      BY <3>2
    <3>4. started = N
      BY <2>3 DEF Progress, Wanted
    <3>5. tun[t].life = "up"
      BY <2>1, <2>3, <3>3, <3>4 DEF StartedServe, Served
    <3>6. received > 0
      <4>1. Cardinality(waiting) # Cardinality(Tunnels)
        <5>1. e \notin waiting
          BY <2>3
        <5>2. Cardinality(Tunnels \ {e}) = N - 1 /\ IsFiniteSet(Tunnels \ {e})
          BY TunnelCount, FS_RemoveElement
        <5>3. Cardinality(waiting) <= N - 1
          BY <5>1, <5>2, FS_Subset
        <5>. QED
          BY <2>1, <3>1, <5>3, TunnelCount
      <4>. QED
        BY <2>1, <3>1, <4>1, TunnelCount
    <3>. QED
      BY <2>3, <3>3, <3>5, <3>6 DEF AllAwaited, EndIsFollowed
  <2>4. CASE command = "start" /\ \E t \in waiting : tun[t].life = "ended"
    <3>1. CASE errCh = <<>>
      BY <2>1, <2>4, <3>1 DEF EndIsFollowed
    <3>. QED
      BY <2>4, <3>1 DEF EndIsFollowed
  <2>. QED
    BY <2>2, <2>3, <2>4 DEF EndIsFollowed
<1>5. Spec => [](ProcessInv /\ StartedServe /\ AllAwaited)
  BY <1>1, <1>2, <1>3, ProcessInvariant, PTL DEF Spec
<1>6. ProcessInv /\ StartedServe /\ AllAwaited => EndIsFollowed
  BY <1>4 DEF EndIsFollowed
<1>. QED
  BY <1>5, <1>6, PTL
================================================================================
