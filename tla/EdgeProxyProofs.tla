---------------------------- MODULE EdgeProxyProofs ----------------------------
(****************************************************************************)
(* Proofs about the public side of the server, for any tunnels, rules,      *)
(* requests and visitors.                                                   *)
(****************************************************************************)
EXTENDS EdgeProxy, TLAPS

Entry == [session : Sessions, policy : Policies]
Owned == [name : Names, policy : Policies]

(* The registry says what its sessions were registered with.                *)
RegistryTrue ==
    \A n \in Names : registry[n] # None =>
        owner[registry[n].session] = [name |-> n, policy |-> registry[n].policy]

(* A request works with what its session was registered with.               *)
EntryTrue ==
    \A v \in Visitors :
        /\ pc[v] \in {"filter", "dial", "upstream"} => entry[v] # None
        /\ entry[v] # None =>
             /\ req[v].host \in Names
             /\ owner[entry[v].session] = [name |-> req[v].host, policy |-> entry[v].policy]

(* Only what was judged is sent, and nothing after it changes the entry.    *)
Judged(v) ==
    /\ pc[v] \in {"dial", "upstream"} => Verdict(entry[v].policy, req[v]) = "pass"
    /\ pc[v] \notin {"upstream", "done"} => out[v] = None
    /\ pc[v] \in {"idle", "lookup", "askRegistry", "askStore"} => entry[v] = None
    /\ out[v] # None =>
         /\ entry[v] # None /\ out[v] = Sent(req[v], entry[v])
         /\ Verdict(entry[v].policy, req[v]) = "pass"
SentWasJudged == \A v \in Visitors : Judged(v)

(* What is known while a question of Caddy is open, and its answer.         *)
AskInv ==
    /\ \A v \in Visitors :
         /\ pc[v] \in {"lookup", "filter", "dial", "upstream"} => req[v].path # "ask"
         /\ pc[v] # "done" => answer[v] = "none"
         /\ pc[v] # "idle" => Facts(v) \subseteq seen[v]
    /\ AskIsHonest

EdgeInv == TypeOK /\ RegistryTrue /\ EntryTrue /\ SentWasJudged /\ AskInv

USE DEF tunnelVars

LEMMA TypesStep == ASSUME TypeOK, EntryTrue, [Next]_vars PROVE TypeOK'
<1>. USE EdgeAssumption DEF TypeOK
<1>1. NoVisit \in Visit
  BY DEF NoVisit, Visit, Paths
<1>2. ASSUME Observe PROVE seen' \in [Visitors -> SUBSET {"live", "free"}]
  <2>1. \A v \in Visitors : (IF pc[v] = "idle" THEN {} ELSE seen[v]) \cup Facts(v)' \in SUBSET {"live", "free"}
    BY DEF Facts
  <2>. QED
    BY <1>2, <2>1 DEF Observe
<1>3. ASSUME NEW n \in Names, NEW s \in Sessions, NEW p \in Policies, Register(n, s, p), Observe PROVE TypeOK'
  <2>1. [session |-> s, policy |-> p] \in Entry /\ [name |-> n, policy |-> p] \in Owned
    BY DEF Entry, Owned
  <2>. QED
    BY <1>2, <1>3, <2>1 DEF Register, Entry, Owned
<1>4. ASSUME NEW n \in Names, Unregister(n) \/ ReservationChanges(n), Observe PROVE TypeOK'
  BY <1>2, <1>4 DEF Unregister, ReservationChanges
<1>5. ASSUME NEW s \in Sessions, SessionCloses(s), Observe PROVE TypeOK'
  BY <1>2, <1>5 DEF SessionCloses
<1>6. ASSUME NEW v \in Visitors, Lookup(v), Observe PROVE TypeOK'
  <2>1. GetHTTPTunnel(tunnelIDFromHost(req[v].host)) \in Entry \cup {None}
    BY DEF GetHTTPTunnel, tunnelIDFromHost, Entry
  <2>. QED
    BY <1>2, <1>6, <2>1 DEF Lookup, Answer, Entry
<1>7. ASSUME NEW v \in Visitors, Filter(v), Observe PROVE TypeOK'
  <2>1. Verdict(entry[v].policy, req[v]) \in {"pass", "notFound", "forbidden", "unauthorized"}
    BY DEF Verdict
  <2>. QED
    BY <1>2, <1>7, <2>1 DEF Filter, Answer
<1>8. ASSUME NEW v \in Visitors, UpstreamResponds(v) \/ StreamBreaks(v) \/ AskRegistry(v) \/ AskStore(v),
             Observe
      PROVE  TypeOK'
  BY <1>2, <1>8 DEF UpstreamResponds, StreamBreaks, AskRegistry, AskStore, Answer
<1>9. ASSUME NEW v \in Visitors, Leave(v), Observe PROVE TypeOK'
  BY <1>1, <1>2, <1>9 DEF Leave
<1>10. ASSUME NEW v \in Visitors, NEW r \in Visits, Arrive(v, r), Observe PROVE TypeOK'
  BY <1>2, <1>10 DEF Arrive, Answer
<1>11. ASSUME NEW v \in Visitors, Dial(v), Observe PROVE TypeOK'
  <2>1. CASE Answer(v, "badGateway") /\ UNCHANGED out
    BY <1>2, <1>11, <2>1 DEF Dial, Answer
  <2>2. CASE out' = [out EXCEPT ![v] = Sent(req[v], entry[v])]
    <3>1. entry[v] \in Entry /\ entry[v].policy \in Policy /\ req[v] \in Visit
      BY <1>11 DEF Dial, EntryTrue, Entry
    <3>2. /\ entry[v].policy.xff \in Addrs \cup {"keep", "remove"} /\ entry[v].session \in Sessions
          /\ req[v].xff \in Addrs \cup {None, "junk"} /\ req[v].remote \in Addrs
          /\ req[v].cred \in Creds \cup {None}
      BY <3>1 DEF Entry, Policy, Visit
    <3>3. Sent(req[v], entry[v]) \in [session : Sessions, xff : Addrs \cup {None, "junk"},
                                     cred : Creds \cup {None}]
      BY <3>2 DEF Sent, applyHeaderTransforms, ForwardedFor
    <3>. QED
      BY <1>2, <1>11, <2>2, <3>3 DEF Dial, Answer
  <2>. QED
    BY <1>11, <2>1, <2>2 DEF Dial
<1>12. CASE UNCHANGED vars
  BY <1>12 DEF vars
<1>. QED
  BY <1>3, <1>4, <1>5, <1>6, <1>7, <1>8, <1>9, <1>10, <1>11, <1>12 DEF Next, Tunnels, Serve

LEMMA RegistryStep == ASSUME TypeOK, RegistryTrue, [Next]_vars PROVE RegistryTrue'
<1>. USE DEF RegistryTrue
<1>1. ASSUME NEW n \in Names, NEW s \in Sessions, NEW p \in Policies, Register(n, s, p) PROVE RegistryTrue'
  <2>1. /\ registry[n] = None /\ owner[s] = None
        /\ registry' = [registry EXCEPT ![n] = [session |-> s, policy |-> p]]
        /\ owner' = [owner EXCEPT ![s] = [name |-> n, policy |-> p]]
    BY <1>1 DEF Register
  <2>2. ASSUME NEW m \in Names, m # n, registry[m] # None
        PROVE  owner'[registry[m].session] = [name |-> m, policy |-> registry[m].policy]
    <3>1. registry[m].session \in Sessions /\ registry[m].policy \in Policies
      BY <2>2 DEF TypeOK
    <3>2. owner[registry[m].session] = [name |-> m, policy |-> registry[m].policy]
      BY <2>2
    <3>3. registry[m].session # s
      BY <2>1, <3>1, <3>2, EdgeAssumption
    <3>. QED
      BY <2>1, <3>2, <3>3 DEF TypeOK
  <2>. QED
    BY <2>1, <2>2 DEF TypeOK
<1>2. ASSUME NEW n \in Names, Unregister(n) PROVE RegistryTrue'
  BY <1>2 DEF Unregister, TypeOK
<1>3. CASE UNCHANGED <<registry, owner>>
  BY <1>3
<1>. QED
  BY <1>1, <1>2, <1>3 DEF Next, Tunnels, Serve, ReservationChanges, SessionCloses, Lookup, Filter, Dial,
     StreamBreaks, UpstreamResponds, AskRegistry, AskStore, Leave, Arrive, vars

LEMMA EntryStep == ASSUME TypeOK, RegistryTrue, EntryTrue, SentWasJudged, [Next]_vars PROVE EntryTrue'
<1>. USE DEF EntryTrue
<1>1. ASSUME NEW n \in Names, NEW s \in Sessions, NEW p \in Policies, Register(n, s, p) PROVE EntryTrue'
  <2>1. /\ owner[s] = None /\ owner' = [owner EXCEPT ![s] = [name |-> n, policy |-> p]]
        /\ UNCHANGED <<pc, req, entry>>
    BY <1>1 DEF Register
  <2>2. ASSUME NEW v \in Visitors, entry[v] # None PROVE owner'[entry[v].session] = owner[entry[v].session]
    <3>1. entry[v].session \in Sessions /\ entry[v].policy \in Policies
      BY <2>2 DEF TypeOK
    <3>2. owner[entry[v].session] # None
      <4>1. /\ owner[entry[v].session] = [name |-> req[v].host, policy |-> entry[v].policy]
            /\ req[v].host \in Names
        BY <2>2
      <4>2. owner[entry[v].session] \in Owned
        BY <3>1, <4>1 DEF Owned
      <4>. QED
        BY <4>2, EdgeAssumption DEF Owned
    <3>. QED
      BY <2>1, <3>2 DEF TypeOK
  <2>. QED
    BY <2>1, <2>2
<1>2. ASSUME NEW v \in Visitors, Lookup(v) PROVE EntryTrue'
  <2>1. CASE Answer(v, "notFound") /\ UNCHANGED entry
    BY <1>2, <2>1 DEF Lookup, Answer, TypeOK
  <2>2. CASE /\ entry' = [entry EXCEPT ![v] = registry[req[v].host]]
             /\ registry[req[v].host] # None /\ req[v].host \in Names
             /\ pc' = [pc EXCEPT ![v] = "filter"]
    BY <1>2, <2>2 DEF Lookup, TypeOK, RegistryTrue
  <2>. QED
    BY <1>2, <2>1, <2>2 DEF Lookup, GetHTTPTunnel, tunnelIDFromHost
<1>3. ASSUME NEW v \in Visitors, Filter(v) \/ Dial(v) \/ StreamBreaks(v) \/ UpstreamResponds(v)
             \/ AskRegistry(v) \/ AskStore(v)
      PROVE  EntryTrue'
  BY <1>3 DEF Filter, Dial, StreamBreaks, UpstreamResponds, AskRegistry, AskStore, Answer, TypeOK
<1>4. ASSUME NEW v \in Visitors, Leave(v) PROVE EntryTrue'
  BY <1>4 DEF Leave, TypeOK
<1>5. ASSUME NEW v \in Visitors, NEW r \in Visits, Arrive(v, r) PROVE EntryTrue'
  <2>1. entry[v] = None
    BY <1>5 DEF Arrive, SentWasJudged, Judged
  <2>. QED
    BY <1>5, <2>1 DEF Arrive, Answer, TypeOK
<1>6. CASE UNCHANGED <<owner, pc, req, entry>>
  BY <1>6
<1>. QED
  BY <1>1, <1>2, <1>3, <1>4, <1>5, <1>6 DEF Next, Tunnels, Serve, Unregister, ReservationChanges,
     SessionCloses, vars

LEMMA SameJudgement ==
    ASSUME trust' = trust, NEW v, Verdict(entry[v].policy, req[v]) = "pass",
           req'[v] = req[v], entry'[v] = entry[v]
    PROVE  /\ Verdict(entry[v].policy, req[v])' = "pass"
           /\ Sent(req[v], entry[v])' = Sent(req[v], entry[v])
  BY DEF Verdict, AddrAllowed, requestClientIP, Sent, ForwardedFor

LEMMA JudgedStep == ASSUME TypeOK, EntryTrue, SentWasJudged, [Next]_vars PROVE SentWasJudged'
<1>. SUFFICES ASSUME NEW v \in Visitors PROVE Judged(v)'
  BY DEF SentWasJudged
<1>. USE DEF TypeOK, Judged
<1>1. Judged(v) /\ trust' = trust
  BY DEF SentWasJudged, Next, Tunnels, Serve, Register, Unregister, ReservationChanges, SessionCloses, Lookup,
     Filter, Dial, StreamBreaks, UpstreamResponds, AskRegistry, AskStore, Leave, Arrive, vars
<1>2. CASE UNCHANGED <<pc[v], req[v], entry[v], out[v]>>
  BY <1>1, <1>2, SameJudgement
<1>3. CASE Lookup(v)
  BY <1>1, <1>3 DEF Lookup, Answer
<1>4. CASE Filter(v)
  <2>1. UNCHANGED <<req, entry, out>> /\ pc[v] = "filter" /\ out[v] = None
    BY <1>1, <1>4 DEF Filter
  <2>2. pc'[v] = "done" \/ (pc'[v] = "dial" /\ Verdict(entry[v].policy, req[v]) = "pass")
    BY <1>4 DEF Filter, Answer
  <2>. QED
    BY <1>1, <2>1, <2>2, SameJudgement
<1>5. CASE Dial(v)
  <2>1. /\ entry[v] # None /\ Verdict(entry[v].policy, req[v]) = "pass"
        /\ UNCHANGED <<req, entry>>
    BY <1>1, <1>5 DEF Dial, EntryTrue
  <2>2. \/ out'[v] = Sent(req[v], entry[v]) /\ pc'[v] = "upstream"
        \/ out'[v] = out[v] /\ pc'[v] = "done"
    BY <1>5 DEF Dial, Answer
  <2>. QED
    BY <1>1, <2>1, <2>2, SameJudgement
<1>6. CASE StreamBreaks(v) \/ UpstreamResponds(v) \/ AskRegistry(v) \/ AskStore(v)
  <2>1. UNCHANGED <<req, entry, out>> /\ pc[v] \in {"upstream", "askRegistry", "askStore"}
    BY <1>6 DEF StreamBreaks, UpstreamResponds, AskRegistry, AskStore
  <2>2. pc'[v] = "done" \/ (pc'[v] = "askStore" /\ pc[v] = "askRegistry")
    BY <1>6 DEF StreamBreaks, UpstreamResponds, AskRegistry, AskStore, Answer
  <2>. QED
    BY <1>1, <2>1, <2>2, SameJudgement
<1>7. CASE Leave(v)
  BY <1>7 DEF Leave
<1>8. ASSUME NEW r \in Visits, Arrive(v, r) PROVE Judged(v)'
  <2>1. UNCHANGED <<entry, out>> /\ entry[v] = None /\ out[v] = None
    BY <1>1, <1>8 DEF Arrive
  <2>2. pc'[v] \in {"lookup", "askRegistry", "done"}
    BY <1>8 DEF Arrive, Answer
  <2>. QED
    BY <2>1, <2>2
<1>9. ASSUME NEW w \in Visitors, w # v, \/ Serve(w) \/ UpstreamResponds(w) \/ Leave(w)
                                       \/ \E r \in Visits : Arrive(w, r)
      PROVE  UNCHANGED <<pc[v], req[v], entry[v], out[v]>>
  BY <1>9 DEF Serve, Lookup, Filter, Dial, StreamBreaks, UpstreamResponds, AskRegistry, AskStore, Leave,
     Arrive, Answer
<1>10. CASE Tunnels \/ UNCHANGED vars
  BY <1>2, <1>10 DEF Tunnels, Register, Unregister, ReservationChanges, SessionCloses, vars
<1>. QED
  BY <1>2, <1>3, <1>4, <1>5, <1>6, <1>7, <1>8, <1>9, <1>10 DEF Next, Serve

LEMMA AskStep == ASSUME TypeOK, AskInv, [Next]_vars PROVE AskInv'
<1>. DEFINE Asked(v) ==
       /\ pc[v] \in {"lookup", "filter", "dial", "upstream"} => req[v].path # "ask"
       /\ pc[v] # "done" => answer[v] = "none"
       /\ pc[v] # "idle" => Facts(v) \subseteq seen[v]
       /\ req[v].path = "ask" /\ req[v].host \in Names =>
            /\ answer[v] = "ok" => "live" \in seen[v]
            /\ answer[v] = "forbidden" => "free" \in seen[v]
<1>. SUFFICES ASSUME NEW v \in Visitors, Asked(v) PROVE Asked(v)'
  BY DEF AskInv, AskIsHonest
<1>. USE DEF TypeOK
<1>1. CASE UNCHANGED vars
  BY <1>1 DEF vars, Facts, Asking
<1>2. CASE Next
  <2>1. seen'[v] = (IF pc[v] = "idle" THEN {} ELSE seen[v]) \cup Facts(v)'
    BY <1>2 DEF Next, Observe
  <2>2. Facts(v)' \subseteq seen'[v] /\ (pc[v] # "idle" => seen[v] \subseteq seen'[v])
    BY <2>1
  <2>3. CASE UNCHANGED <<pc[v], req[v], answer[v]>>
    BY <2>2, <2>3
  <2>4. CASE Lookup(v)
    BY <2>2, <2>4 DEF Lookup, Answer
  <2>5. CASE Filter(v)
    BY <2>2, <2>5 DEF Filter, Answer
  <2>6. CASE Dial(v) \/ StreamBreaks(v) \/ UpstreamResponds(v)
    BY <2>2, <2>6 DEF Dial, StreamBreaks, UpstreamResponds, Answer
  <2>7. CASE AskRegistry(v)
    <3>1. pc[v] = "askRegistry" /\ UNCHANGED req
      BY <2>7 DEF AskRegistry
    <3>2. (pc'[v] = "askStore" /\ answer'[v] = answer[v]) \/ pc'[v] = "done"
      BY <2>7 DEF AskRegistry, Answer
    <3>3. req[v].host \in Names /\ answer'[v] = "ok" => "live" \in Facts(v)
      BY <2>7, <3>1, EdgeAssumption DEF AskRegistry, Answer, tunnelIDFromHost, GetHTTPTunnel, Facts, Asking
    <3>4. req[v].host \in Names /\ pc'[v] = "done" => answer'[v] = "ok"
      BY <2>7, <3>1, EdgeAssumption DEF AskRegistry, Answer, tunnelIDFromHost
    <3>. QED
      BY <2>2, <3>1, <3>2, <3>3, <3>4
  <2>8. CASE AskStore(v)
    <3>1. pc[v] = "askStore" /\ UNCHANGED req /\ pc'[v] = "done"
      BY <2>8 DEF AskStore, Answer
    <3>2. req[v].host \in Names =>
            /\ answer'[v] = "ok" => "live" \in Facts(v)
            /\ answer'[v] = "forbidden" => "free" \in Facts(v)
      BY <2>8, <3>1 DEF AskStore, Answer, Facts, Asking
    <3>. QED
      BY <2>2, <3>1, <3>2
  <2>9. CASE Leave(v)
    BY <2>2, <2>9 DEF Leave
  <2>10. ASSUME NEW r \in Visits, Arrive(v, r) PROVE Asked(v)'
    <3>1. pc[v] = "idle" /\ req'[v] = r
      BY <2>10 DEF Arrive
    <3>2. \/ r.path # "ask" /\ pc'[v] \in {"lookup", "done"} /\ (pc'[v] = "lookup" => answer'[v] = "none")
          \/ r.path = "ask" /\ pc'[v] = "askRegistry" /\ answer'[v] = "none"
          \/ r.path = "ask" /\ pc'[v] = "done" /\ r.host \notin Names
      BY <2>10, EdgeAssumption DEF Arrive, Answer, ToTunnel, ServerPaths
    <3>. QED
      BY <2>2, <3>1, <3>2
  <2>11. ASSUME NEW w \in Visitors, w # v, \/ Serve(w) \/ UpstreamResponds(w) \/ Leave(w)
                                           \/ \E r \in Visits : Arrive(w, r)
         PROVE  UNCHANGED <<pc[v], req[v], answer[v]>>
    BY <2>11 DEF Serve, Lookup, Filter, Dial, StreamBreaks, UpstreamResponds, AskRegistry, AskStore, Leave,
       Arrive, Answer
  <2>12. Tunnels => UNCHANGED <<pc[v], req[v], answer[v]>>
    BY DEF Tunnels, Register, Unregister, ReservationChanges, SessionCloses
  <2>. QED
    BY <1>2, <2>3, <2>4, <2>5, <2>6, <2>7, <2>8, <2>9, <2>10, <2>11, <2>12 DEF Next, Serve
<1>. QED
  BY <1>1, <1>2

LEMMA EdgeInit == Init => EdgeInv
<1>. SUFFICES ASSUME Init PROVE EdgeInv
  OBVIOUS
<1>. USE DEF Init
<1>1. NoVisit \in Visit /\ NoVisit.path = "root"
  BY EdgeAssumption DEF NoVisit, Visit, Paths
<1>2. TypeOK
  BY <1>1 DEF TypeOK
<1>3. RegistryTrue /\ EntryTrue /\ SentWasJudged
  BY DEF RegistryTrue, EntryTrue, SentWasJudged, Judged
<1>4. AskInv
  BY <1>1 DEF AskInv, AskIsHonest, Facts, Asking
<1>. QED
  BY <1>2, <1>3, <1>4 DEF EdgeInv

LEMMA EdgeInvariant == Spec => []EdgeInv
<1>1. EdgeInv /\ [Next]_vars => EdgeInv'
  BY TypesStep, RegistryStep, EntryStep, JudgedStep, AskStep DEF EdgeInv
<1>. QED
  BY <1>1, EdgeInit, PTL DEF Spec

(* Types of the registry, the requests and what is sent for them.           *)
THEOREM EdgeTypes == Spec => []TypeOK
<1>1. EdgeInv => TypeOK
  BY DEF EdgeInv
<1>. QED
  BY <1>1, EdgeInvariant, PTL

(* Every request that goes through a tunnel was judged by the rules of the  *)
(* very session it goes to, however often the name changed hands meanwhile. *)
THEOREM RequestsObeyTheirTunnel == Spec => []StreamsObeyTheirTunnel
<1>1. EdgeInv => StreamsObeyTheirTunnel
  <2>. SUFFICES ASSUME EdgeInv, NEW v \in Visitors, out[v] # None
                PROVE  LET reg == owner[out[v].session]
                       IN /\ reg.name = req[v].host
                          /\ Verdict(reg.policy, req[v]) = "pass"
                          /\ reg.policy.auth # None => out[v].cred = None
    BY DEF StreamsObeyTheirTunnel
  <2>1. /\ entry[v] # None /\ out[v] = Sent(req[v], entry[v])
        /\ Verdict(entry[v].policy, req[v]) = "pass"
    BY DEF EdgeInv, SentWasJudged, Judged
  <2>2. owner[entry[v].session] = [name |-> req[v].host, policy |-> entry[v].policy]
    BY <2>1 DEF EdgeInv, EntryTrue
  <2>3. /\ out[v].session = entry[v].session
        /\ entry[v].policy.auth # None => out[v].cred = None
    BY <2>1 DEF Sent
  <2>. QED
    BY <2>1, <2>2, <2>3
<1>. QED
  BY <1>1, EdgeInvariant, PTL

(* The upstream is shown the address the rules were applied to.             *)
THEOREM ShownAddressWasJudged == Spec => []JudgedAddressIsShown
<1>1. EdgeInv => JudgedAddressIsShown
  <2>. SUFFICES ASSUME EdgeInv, NEW v \in Visitors,
                       out[v] # None, entry[v].policy.xff = "keep", out[v].xff \in Addrs
                PROVE  out[v].xff = requestClientIP(req[v])
    BY DEF JudgedAddressIsShown
  <2>1. out[v].xff = ForwardedFor(req[v])
    <3>1. out[v] = Sent(req[v], entry[v])
      BY DEF EdgeInv, SentWasJudged, Judged
    <3>2. Sent(req[v], entry[v]).xff = applyHeaderTransforms(entry[v].policy, ForwardedFor(req[v]))
      BY DEF Sent
    <3>. QED
      BY <3>1, <3>2 DEF applyHeaderTransforms
  <2>. QED
    BY <2>1 DEF ForwardedFor, requestClientIP
<1>. QED
  BY <1>1, EdgeInvariant, PTL

(* The answers to Caddy were true at some moment of the question.           *)
THEOREM AnswersToCaddyAreHonest == Spec => []AskIsHonest
<1>1. EdgeInv => AskIsHonest
  BY DEF EdgeInv, AskInv
<1>. QED
  BY <1>1, EdgeInvariant, PTL

----------------------------------------------------------------------------
(* The safety half of StrandedRequestsEnd: what a stranded request can      *)
(* still do, and that it does not do it for ever.                           *)

Stranded(v) == entry[v] # None /\ entry[v].session \notin up

(* The calls that are left until the handler of the request returns, if the *)
(* upstream does not answer before.                                         *)
StepsLeft(v) ==
    IF pc[v] = "lookup" THEN 4
    ELSE IF pc[v] = "filter" THEN 3
    ELSE IF pc[v] \in {"dial", "askRegistry"} THEN 2
    ELSE IF pc[v] \in {"upstream", "askStore"} THEN 1 ELSE 0

(* A handler that returned has answered.                                    *)
DoneIsAnswered == \A v \in Visitors : pc[v] = "done" => answer[v] # "none"

(* An unanswered request whose session is gone is before a test, before a   *)
(* dial or waiting on a stream that breaks: at one of the steps of Serve    *)
(* that nothing else must precede.                                          *)
StrandedGoOn ==
    \A v \in Visitors : Stranded(v) /\ answer[v] = "none" =>
        /\ pc[v] \in {"filter", "dial", "upstream"}
        /\ StepsLeft(v) > 0

LEMMA DoneStep == ASSUME TypeOK, DoneIsAnswered, [Next]_vars PROVE DoneIsAnswered'
<1>. SUFFICES ASSUME NEW v \in Visitors, pc'[v] = "done" PROVE answer'[v] # "none"
  BY DEF DoneIsAnswered
<1>. USE DEF TypeOK
<1>0. pc[v] = "done" => answer[v] # "none"
  BY DEF DoneIsAnswered
<1>1. CASE UNCHANGED <<pc[v], answer[v]>>
  BY <1>0, <1>1
<1>2. CASE Lookup(v) \/ Filter(v)
  BY <1>2 DEF Lookup, Filter, Verdict, Answer
<1>3. CASE Dial(v) \/ StreamBreaks(v) \/ UpstreamResponds(v) \/ AskRegistry(v) \/ AskStore(v)
  BY <1>3 DEF Dial, StreamBreaks, UpstreamResponds, AskRegistry, AskStore, Answer
<1>4. CASE Leave(v)
  BY <1>4 DEF Leave
<1>5. CASE \E r \in Visits : Arrive(v, r)
  BY <1>5 DEF Arrive, Answer
<1>6. ASSUME NEW w \in Visitors, w # v, \/ Serve(w) \/ UpstreamResponds(w) \/ Leave(w)
                                       \/ \E r \in Visits : Arrive(w, r)
      PROVE  UNCHANGED <<pc[v], answer[v]>>
  BY <1>6 DEF Serve, Lookup, Filter, Dial, StreamBreaks, UpstreamResponds, AskRegistry, AskStore, Leave,
     Arrive, Answer
<1>7. CASE Tunnels \/ UNCHANGED vars
  BY <1>1, <1>7 DEF Tunnels, Register, Unregister, ReservationChanges, SessionCloses, vars
<1>. QED
  BY <1>1, <1>2, <1>3, <1>4, <1>5, <1>6, <1>7 DEF Next, Serve

(* A session that was registered and is closed is not opened again, and a   *)
(* request keeps the entry it copied until its handler returned.            *)
LEMMA StrandedStays ==
    ASSUME EdgeInv, [Next]_vars, NEW v \in Visitors, Stranded(v), entry'[v] # None
    PROVE  entry'[v] = entry[v] /\ Stranded(v)'
<1>. USE DEF EdgeInv, TypeOK, Stranded
<1>1. entry[v].session \in Sessions /\ owner[entry[v].session] # None
  <2>1. /\ owner[entry[v].session] = [name |-> req[v].host, policy |-> entry[v].policy]
        /\ req[v].host \in Names /\ entry[v].policy \in Policies /\ entry[v].session \in Sessions
    BY DEF EntryTrue
  <2>2. owner[entry[v].session] \in Owned
    BY <2>1 DEF Owned
  <2>. QED
    BY <2>1, <2>2, EdgeAssumption DEF Owned
<1>2. entry[v].session \notin up'
  BY <1>1 DEF Next, Tunnels, Serve, Register, Unregister, ReservationChanges, SessionCloses, Lookup,
     Filter, Dial, StreamBreaks, UpstreamResponds, AskRegistry, AskStore, Leave, Arrive, vars
<1>3. entry'[v] = entry[v]
  <2>1. pc[v] # "lookup"
    BY DEF SentWasJudged, Judged
  <2>. QED
    BY <2>1 DEF Next, Tunnels, Serve, Register, Unregister, ReservationChanges, SessionCloses, Lookup,
       Filter, Dial, StreamBreaks, UpstreamResponds, AskRegistry, AskStore, Leave, Arrive, vars
<1>. QED
  BY <1>2, <1>3

(* Each step of a handler brings it nearer to its end, and no step of       *)
(* anybody takes it back.                                                   *)
LEMMA ServingAdvances ==
    ASSUME EdgeInv, [Next]_vars, NEW v \in Visitors, pc[v] # "idle"
    PROVE  /\ StepsLeft(v) \in 0 .. 4 /\ StepsLeft(v)' \in 0 .. 4
           /\ StepsLeft(v)' <= StepsLeft(v)
           /\ Serve(v) => StepsLeft(v)' < StepsLeft(v)
<1>1. StepsLeft(v) \in 0 .. 4 /\ StepsLeft(v)' \in 0 .. 4
  <2>1. TypeOK /\ TypeOK'
    BY TypesStep DEF EdgeInv
  <2>. QED
    BY <2>1 DEF StepsLeft, TypeOK
<1>. USE DEF StepsLeft
<1>2. CASE pc'[v] = pc[v] /\ ~Serve(v)
  BY <1>1, <1>2
<1>3. CASE Serve(v)
  <2>1. \/ pc[v] = "lookup" /\ pc'[v] \in {"filter", "done"}
        \/ pc[v] = "filter" /\ pc'[v] \in {"dial", "done"}
        \/ pc[v] = "dial" /\ pc'[v] \in {"upstream", "done"}
        \/ pc[v] = "upstream" /\ pc'[v] = "done"
        \/ pc[v] = "askRegistry" /\ pc'[v] \in {"askStore", "done"}
        \/ pc[v] = "askStore" /\ pc'[v] = "done"
    BY <1>3 DEF EdgeInv, TypeOK, Serve, Lookup, Filter, Dial, StreamBreaks, AskRegistry, AskStore, Answer
  <2>2. StepsLeft(v)' < StepsLeft(v)
    BY <2>1
  <2>. QED
    BY <1>1, <2>2
<1>4. CASE ~Serve(v) /\ (UpstreamResponds(v) \/ Leave(v))
  <2>1. pc'[v] \in {"done", "idle"}
    BY <1>4 DEF EdgeInv, TypeOK, UpstreamResponds, Leave, Answer
  <2>2. StepsLeft(v)' = 0
    BY <2>1
  <2>. QED
    BY <1>1, <1>4, <2>2
<1>5. ASSUME NEW r \in Visits, Arrive(v, r) PROVE FALSE
  BY <1>5 DEF Arrive
<1>6. ASSUME NEW w \in Visitors, w # v, \/ Serve(w) \/ UpstreamResponds(w) \/ Leave(w)
                                       \/ \E r \in Visits : Arrive(w, r)
      PROVE  pc'[v] = pc[v]
  BY <1>6 DEF EdgeInv, TypeOK, Serve, Lookup, Filter, Dial, StreamBreaks, UpstreamResponds, AskRegistry,
     AskStore, Leave, Arrive, Answer
<1>7. Tunnels \/ UNCHANGED vars => pc'[v] = pc[v]
  BY DEF Tunnels, Register, Unregister, ReservationChanges, SessionCloses, vars
<1>. QED
  BY <1>2, <1>3, <1>4, <1>5, <1>6, <1>7 DEF Next

(* The safety half of StrandedRequestsEnd, where the request is: nothing    *)
(* but its own handler is needed to answer it (the error handler of the     *)
(* proxy answers a dial that fails and a stream that breaks).               *)
THEOREM StrandedRequestsGoOn == Spec => []StrandedGoOn
<1>1. Init => DoneIsAnswered
  BY DEF Init, DoneIsAnswered
<1>2. EdgeInv /\ DoneIsAnswered /\ [Next]_vars => DoneIsAnswered'
  BY DoneStep DEF EdgeInv
<1>3. EdgeInv /\ DoneIsAnswered => StrandedGoOn
  <2>. SUFFICES ASSUME EdgeInv, DoneIsAnswered, NEW v \in Visitors, Stranded(v), answer[v] = "none"
                PROVE  pc[v] \in {"filter", "dial", "upstream"} /\ StepsLeft(v) > 0
    BY DEF StrandedGoOn
  <2>1. pc[v] \in {"filter", "dial", "upstream"}
    BY DEF EdgeInv, TypeOK, SentWasJudged, Judged, DoneIsAnswered, Stranded
  <2>. QED
    BY <2>1 DEF StepsLeft
<1>. QED
  BY <1>1, <1>2, <1>3, EdgeInvariant, PTL DEF Spec

StrandedAdvance ==
    \A v \in Visitors : Stranded(v) =>
        /\ StepsLeft(v) \in 0 .. 3
        /\ entry'[v] # None => entry'[v] = entry[v] /\ Stranded(v)'
        /\ StepsLeft(v)' <= StepsLeft(v)
        /\ Serve(v) => StepsLeft(v)' < StepsLeft(v)

(* The safety half of StrandedRequestsEnd, how far it is: a request whose   *)
(* session is gone stays stranded with the entry it copied until it is      *)
(* dropped, and at most three steps of its handler are left, however many   *)
(* tunnels come and go and whoever takes the name meanwhile.                *)
THEOREM StrandedRequestsAreBounded == Spec => [][StrandedAdvance]_vars
<1>1. ASSUME EdgeInv, [Next]_vars, NEW v \in Visitors, Stranded(v)
      PROVE  /\ StepsLeft(v) \in 0 .. 3
             /\ entry'[v] # None => entry'[v] = entry[v] /\ Stranded(v)'
             /\ StepsLeft(v)' <= StepsLeft(v)
             /\ Serve(v) => StepsLeft(v)' < StepsLeft(v)
  <2>1. pc[v] \in {"filter", "dial", "upstream", "done"}
    BY <1>1 DEF EdgeInv, TypeOK, SentWasJudged, Judged, Stranded
  <2>2. StepsLeft(v) \in 0 .. 3
    BY <2>1 DEF StepsLeft
  <2>3. entry'[v] # None => entry'[v] = entry[v] /\ Stranded(v)'
    BY <1>1, StrandedStays
  <2>4. StepsLeft(v)' <= StepsLeft(v) /\ (Serve(v) => StepsLeft(v)' < StepsLeft(v))
    BY <1>1, <2>1, ServingAdvances
  <2>. QED
    BY <2>2, <2>3, <2>4
<1>2. EdgeInv /\ [Next]_vars => StrandedAdvance
  BY <1>1 DEF StrandedAdvance
<1>. QED
  BY <1>2, EdgeInvariant, PTL DEF Spec
================================================================================
