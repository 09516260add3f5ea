------------------------------- MODULE Inspector -------------------------------
(****************************************************************************)
(* The local inspector of a client (internal/inspect): the store of         *)
(* captured requests, its HTTP handler and the page it serves, and the map  *)
(* of replay targets the start command keeps for it (internal/cli).         *)
(* Streams that end, page refreshes and replays run concurrently; the store *)
(* and the map have a mutex each.                                           *)
(****************************************************************************)
EXTENDS Naturals, Sequences, SequencesExt

CONSTANTS
    Tunnels,        \* the tunnels of the client, each with its local service
    TunnelIDs,      \* ids the server gives to tunnels
    MaxEntries,     \* StoreConfig.MaxEntries
    MaxRequests,    \* bound: requests that are captured
    None

ASSUME InspectorAssumption ==
    MaxEntries \in Nat \ {0} /\ MaxRequests \in Nat /\ None \notin Tunnels \cup TunnelIDs

VARIABLES
    entries,    \* Store.entries, oldest first
    nextID,     \* Store.nextID
    targets,    \* replayTargets.m: tunnel id -> tunnel whose service replays go to
    shown,      \* state.requests of the page, newest first
    selected,   \* state.selectedId of the page, 0 for null
    replay      \* one POST /api/requests/<id>/replay on its way

storeVars == <<entries, nextID>>
pageVars == <<shown, selected>>
inspectorVars == <<storeVars, targets, pageVars, replay>>

(* What is kept of a request.                                               *)
Entries == [id : 1..MaxRequests, tunnel : TunnelIDs]

NoReplay == [step |-> "idle", want |-> None, got |-> None, to |-> None]

InspectorInit ==
    /\ entries = <<>> /\ nextID = 0
    /\ targets = [i \in TunnelIDs |-> None]
    /\ shown = <<>> /\ selected = 0
    /\ replay = NoReplay

----------------------------------------------------------------------------
(* The store.                                                               *)

Newest(s) == SubSeq(s, IF Len(s) > MaxEntries THEN Len(s) - MaxEntries + 1 ELSE 1, Len(s))

(* Mutant: an entry is numbered by its place in the ring.                   *)
AddNumbered(i) ==
    /\ nextID < MaxRequests /\ nextID' = nextID + 1
    /\ entries' = Newest(Append(entries,
          [id |-> IF Len(entries) < MaxEntries THEN Len(entries) + 1 ELSE MaxEntries,
           tunnel |-> i]))
    /\ UNCHANGED <<targets, pageVars, replay>>

(* Store.Add, at the end of handleStream.                                   *)
Add(i) ==
    /\ nextID < MaxRequests /\ nextID' = nextID + 1
    /\ entries' = Newest(Append(entries, [id |-> nextID + 1, tunnel |-> i]))
    /\ UNCHANGED <<targets, pageVars, replay>>

List == Reverse(entries)

(* Store.Get: at most one entry has an id.                                  *)
Get(id) == {e \in ToSet(entries) : e.id = id}

(* Mutant: the first target only makes the map.                             *)
SetTargetLate(i, t) ==
    targets' = IF \A j \in TunnelIDs : targets[j] = None THEN targets
               ELSE [targets EXCEPT ![i] = t]

(* replayTargets.Set.                                                       *)
SetTarget(i, t) == targets' = [targets EXCEPT ![i] = t]

----------------------------------------------------------------------------
(* The page: refresh runs every second and on load; the click handlers run  *)
(* between.  Each refresh draws the details of the selected request anew,   *)
(* with a Replay button of its own; the way of the store's answer to the    *)
(* page is not a step.                                                      *)

Selection(list) ==
    IF list = <<>> \/ \E e \in ToSet(list) : e.id = selected THEN selected ELSE Head(list).id

Refresh ==
    /\ shown' = List
    /\ selected' = Selection(List)
    /\ UNCHANGED <<storeVars, targets, replay>>

Select ==
    /\ \E e \in ToSet(shown) : selected' = e.id
    /\ UNCHANGED <<storeVars, targets, shown, replay>>

(* The request the details are of, {} for "No request selected".            *)
Card == {e \in ToSet(shown) : e.id = selected}

ClickReplay ==
    /\ replay.step = "idle"
    /\ \E e \in Card : replay' = [NoReplay EXCEPT !.step = "asked", !.want = e]
    /\ UNCHANGED <<storeVars, targets, pageVars>>

----------------------------------------------------------------------------
(* The handler of a replay: the entry, or 404; then the target, or "unknown *)
(* tunnel"; then the request to the local service.                          *)

ReplayGet ==
    /\ replay.step = "asked"
    /\ replay' = IF Get(replay.want.id) = {} THEN NoReplay
                 ELSE [replay EXCEPT !.step = "found",
                                     !.got = CHOOSE e \in Get(replay.want.id) : TRUE]
    /\ UNCHANGED <<storeVars, targets, pageVars>>

(* t: the tunnel whose service the replay function finds for replay.got.    *)
ReplaySend(t) ==
    /\ replay.step = "found"
    /\ replay' = IF t = None THEN NoReplay ELSE [replay EXCEPT !.step = "sent", !.to = t]
    /\ UNCHANGED <<storeVars, targets, pageVars>>

ReplayEnds ==
    /\ replay.step = "sent"
    /\ replay' = NoReplay
    /\ UNCHANGED <<storeVars, targets, pageVars>>

----------------------------------------------------------------------------
(* Properties.                                                              *)

InspectorTypeOK ==
    /\ entries \in Seq(Entries) /\ Len(entries) <= MaxEntries
    /\ nextID \in 0..MaxRequests
    /\ targets \in [TunnelIDs -> Tunnels \cup {None}]
    /\ shown \in Seq(Entries) /\ selected \in 0..MaxRequests
    /\ replay \in [step : {"idle", "asked", "found", "sent"}, want : Entries \cup {None},
                   got : Entries \cup {None}, to : Tunnels \cup {None}]

(* The store holds the last requests that were captured, all of them up to  *)
(* its limit, in order and under the ids they were listed with.             *)
StoreHoldsNewest ==
    LET kept == IF nextID < MaxEntries THEN nextID ELSE MaxEntries
    IN  /\ Len(entries) = kept
        /\ \A k \in 1..kept : entries[k].id = nextID - kept + k

(* A replay runs the request whose details the page showed when its button  *)
(* was clicked, however many requests were captured since, or none.         *)
ReplayRunsWhatWasShown == replay.step \in {"found", "sent"} => replay.got = replay.want
================================================================================
