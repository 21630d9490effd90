-------------------------- MODULE CastServiceProofs -------------------------
(***************************************************************************)
(* The two parts a CastService puts together: it publishes the receiver on  *)
(* the link, and its agent runs the applications that senders launch.       *)
(*                                                                          *)
(* DnsSdPublisher: OneOwner, PassedNamesOwned and PublisherServed for any   *)
(* number of hosts, any loss and duplication, and any number of             *)
(* registrations.                                                           *)
(*                                                                          *)
(* CastApps: ConnectionsLive, NoAppOrphaned and SendersKnowSession for any  *)
(* number of senders, applications and sessions.                            *)
(***************************************************************************)
EXTENDS DnsSdPublisher, CastApps, TLAPS

-----------------------------------------------------------------------------
(* DnsSdPublisher *)

ProbeMessage ==
  [kind : {"query", "response"}, src : Hosts, dest : Hosts, name : Nat, due : Int]

ProbesTyped ==
  /\ probe \in [Hosts -> Probe \cup {none}]
  /\ completed \in [Hosts -> SUBSET Nat]
  /\ network \subseteq ProbeMessage

PublishersTyped ==
  /\ pending \in [Hosts -> BOOLEAN]
  /\ published \in [Hosts -> Nat \cup {none}]

\* Only the owner of a name answers for it, and nobody answers itself.
ResponsesGenuine ==
  \A m \in network :
    m.src # m.dest /\ (m.kind = "response" => m.name \in completed[m.src])

\* Every name before this one has an owner other than host h.
OwnedBefore(h, name) ==
  \A n \in 0 .. (name - 1) : \E g \in Hosts \ {h} : n \in completed[g]

PassedOver ==
  \A h \in Hosts :
    /\ \A name \in completed[h] : OwnedBefore(h, name)
    /\ probe[h] # none => OwnedBefore(h, probe[h].target_name)

ProbesInv == ProbesTyped /\ ResponsesGenuine /\ PassedOver

PublisherInv == ProbesInv /\ PublishersTyped /\ PublisherServed

-----------------------------------------------------------------------------
\* Claims are never given up: what was owned stays so.
LEMMA OwnedBeforeKept ==
  ASSUME ProbesTyped, NEW h \in Hosts, NEW name \in Nat, OwnedBefore(h, name),
         \A g \in Hosts : completed[g] \subseteq completed'[g]
  PROVE  OwnedBefore(h, name)'
BY Zenon DEF OwnedBefore

\* A name that another host owns may be passed over.
LEMMA OwnedBeforeNext ==
  ASSUME ProbesTyped, NEW h \in Hosts, NEW name \in Nat, OwnedBefore(h, name),
         NEW g \in Hosts \ {h}, name \in completed[g]
  PROVE  OwnedBefore(h, name + 1)
<1>1. ASSUME NEW n \in 0 .. (name + 1 - 1)
      PROVE  \E k \in Hosts \ {h} : n \in completed[k]
  <2>1. n = name \/ n \in 0 .. (name - 1)
    OBVIOUS
  <2>. QED
    BY <2>1, Zenon DEF OwnedBefore
<1>. QED
  BY <1>1 DEF OwnedBefore

\* PassedOver says the same as PassedNamesOwned, one host and one name at a time.
LEMMA PassedOverIsOwned ==
  ASSUME PassedOver
  PROVE  PassedNamesOwned
BY Zenon DEF PassedOver, PassedNamesOwned, OwnedBefore

\* What is put on the network is a message, with the fields it was given.
LEMMA SentFacts ==
  ASSUME NEW kind \in {"query", "response"}, NEW src \in Hosts,
         NEW dests \in SUBSET Hosts, NEW name \in Nat
  PROVE  /\ Datagrams(kind, src, dests, name) \subseteq ProbeMessage
         /\ \A m \in Datagrams(kind, src, dests, name) :
              m.kind = kind /\ m.src = src /\ m.dest \in dests /\ m.name = name
<1>1. NetworkDelay \in Int
  BY ProbeAssumption
<1>. QED
  BY <1>1 DEF Datagrams, ProbeMessage

-----------------------------------------------------------------------------
\* The claim shared by all steps: claims only grow, and a host's probe is for the
\* name it was for, or a new one that PassedOver allows.
LEMMA PassedOverStep ==
  ASSUME ProbesTyped, ProbesTyped', PassedOver,
         \A h \in Hosts : completed[h] \subseteq completed'[h],
         \A h \in Hosts : \A name \in completed'[h] \ completed[h] : OwnedBefore(h, name),
         \A h \in Hosts : probe'[h] # none => OwnedBefore(h, probe'[h].target_name)
  PROVE  PassedOver'
<1>1. SUFFICES ASSUME NEW h \in Hosts
               PROVE  /\ \A name \in completed'[h] : OwnedBefore(h, name)'
                      /\ probe'[h] # none => OwnedBefore(h, probe[h].target_name)'
  BY Zenon DEF PassedOver
<1>2. ASSUME NEW name \in completed'[h]
      PROVE  OwnedBefore(h, name)'
  <2>1. name \in Nat
    BY <1>2, Zenon DEF ProbesTyped
  <2>2. OwnedBefore(h, name)
    BY <1>2, Zenon DEF PassedOver
  <2>. QED
    BY <2>1, <2>2, OwnedBeforeKept, Zenon
<1>3. ASSUME probe'[h] # none
      PROVE  OwnedBefore(h, probe[h].target_name)'
  <2>1. probe'[h].target_name \in Nat
    BY <1>3, Zenon DEF ProbesTyped, Probe
  <2>2. OwnedBefore(h, probe'[h].target_name)
    BY <1>3, Zenon
  <2>. QED
    BY <2>2, Zenon DEF OwnedBefore
<1>. QED
  BY <1>2, <1>3, Zenon

\* A new probe is a probe.
LEMMA NewProbeFacts ==
  ASSUME NEW name \in Nat, NEW delay \in 0 .. ProbeDelay
  PROVE  /\ NewProbe(name, delay) \in Probe /\ NewProbe(name, delay) # none
         /\ NewProbe(name, delay).target_name = name
<1>1. ProbeDelay \in Nat /\ none \notin Probe
  BY ProbeAssumption, Zenon
<1>2. NewProbe(name, delay) \in Probe
  BY <1>1 DEF NewProbe, Probe
<1>. QED
  BY <1>1, <1>2, Zenon DEF NewProbe

\* A probe that goes on, or starts over, is for the same name.
LEMMA SameNameFacts ==
  ASSUME NEW p \in Probe
  PROVE  /\ Queried(p) \in Probe /\ Queried(p).target_name = p.target_name
         /\ Postponed(p) \in Probe /\ Postponed(p).target_name = p.target_name
<1>1. ProbeDelay \in Int /\ PostponeDelay \in Int
  BY ProbeAssumption
<1>2. \A q \in Probe, n \in Int :
         LET c == [q EXCEPT !.successful_probe_queries = n] IN
         c \in Probe /\ c.target_name = q.target_name
  BY Zenon DEF Probe
<1>3. \A q \in Probe, n \in Int :
         LET a == [q EXCEPT !.alarm = n] IN
         a \in Probe /\ a.target_name = q.target_name
  BY Zenon DEF Probe
<1>4. p.successful_probe_queries + 1 \in Int /\ 0 \in Int
  BY DEF Probe
<1>5. Queried(p) \in Probe /\ Queried(p).target_name = p.target_name
  <2>. DEFINE c == [p EXCEPT !.successful_probe_queries = p.successful_probe_queries + 1]
  <2>1. c \in Probe /\ c.target_name = p.target_name
    BY <1>2, <1>4, Zenon
  <2>2. Queried(p) = [c EXCEPT !.alarm = ProbeDelay]
    BY Zenon DEF Queried
  <2>. HIDE DEF c
  <2>. QED
    BY <1>1, <1>3, <2>1, <2>2, ZenonT(60)
<1>6. Postponed(p) \in Probe /\ Postponed(p).target_name = p.target_name
  <2>. DEFINE c == [p EXCEPT !.successful_probe_queries = 0]
  <2>1. c \in Probe /\ c.target_name = p.target_name
    BY <1>2, <1>4, Zenon
  <2>2. Postponed(p) = [c EXCEPT !.alarm = PostponeDelay]
    BY Zenon DEF Postponed
  <2>. HIDE DEF c
  <2>. QED
    BY <1>1, <1>3, <2>1, <2>2, Zenon
<1>. QED
  BY <1>5, <1>6, Zenon

\* The invariant holds before any Register().
THEOREM InitPublisherInv == DnsSdInit => PublisherInv
BY Zenon DEF DnsSdInit, ProbeInit, PublisherInv, ProbesInv, ProbesTyped, PublishersTyped,
       ResponsesGenuine, PassedOver, PublisherServed, IsDomainClaimed

\* Register() keeps the invariant.
LEMMA RegisterInv ==
  ASSUME PublisherInv, NEW h \in Hosts, Register(h)
  PROVE  PublisherInv'
<1>. USE DEF PublisherInv, ProbesInv
<1>1. PICK delay \in 0 .. ProbeDelay : probe' = StartedProbes(h, delay)
  BY Zenon DEF Register
<1>2. UNCHANGED <<completed, network, published>>
  BY Zenon DEF Register
<1>3. \A g \in Hosts : g # h => probe'[g] = probe[g]
  BY <1>1, Zenon DEF StartedProbes, ProbesTyped
<1>4. /\ probe'[h] = probe[h] \/ probe'[h] = NewProbe(0, delay)
      /\ probe'[h] # none \/ 0 \in completed[h]
  BY <1>1, NewProbeFacts, Zenon DEF StartedProbes, ProbesTyped, IsDomainClaimed
<1>5. ProbesTyped' /\ PublishersTyped'
  <2>1. probe' \in [Hosts -> Probe \cup {none}]
    BY <1>1, NewProbeFacts, Zenon DEF StartedProbes, ProbesTyped
  <2>2. pending' \in [Hosts -> BOOLEAN]
    BY Zenon DEF Register, PublishersTyped
  <2>. QED
    BY <1>2, <2>1, <2>2, Zenon DEF ProbesTyped, PublishersTyped
<1>6. ResponsesGenuine'
  BY <1>2, Zenon DEF ResponsesGenuine
<1>7. \A g \in Hosts : probe'[g] # none => OwnedBefore(g, probe'[g].target_name)
  <2>1. OwnedBefore(h, 0)
    BY DEF OwnedBefore
  <2>. QED
    BY <1>3, <1>4, <2>1, NewProbeFacts DEF PassedOver
<1>8. PassedOver'
  BY <1>2, <1>5, <1>7, PassedOverStep, Zenon
<1>9. PublisherServed'
  <2>1. ASSUME NEW g \in Hosts
        PROVE  /\ published[g] # none => published[g] \in completed[g]
               /\ pending'[g] => probe'[g] # none \/ 0 \in completed[g]
    <3>1. CASE g = h
      BY <1>4, <3>1, Zenon DEF PublisherServed, IsDomainClaimed
    <3>2. CASE g # h
      <4>1. pending'[g] = pending[g]
        BY <3>2, Zenon DEF Register, PublishersTyped
      <4>. QED
        BY <1>3, <3>2, <4>1, Zenon DEF PublisherServed, IsDomainClaimed
    <3>. QED
      BY <3>1, <3>2, Zenon
  <2>. QED
    BY <1>2, <2>1, Zenon DEF PublisherServed, IsDomainClaimed
<1>. QED
  BY <1>5, <1>6, <1>8, <1>9, Zenon

\* DeregisterAll() keeps the invariant.
LEMMA DeregisterAllInv ==
  ASSUME PublisherInv, NEW h \in Hosts, DeregisterAll(h)
  PROVE  PublisherInv'
<1>. USE DEF PublisherInv, ProbesInv
<1>1. UNCHANGED <<probe, completed, network>>
  BY Zenon DEF DeregisterAll, probeVars
<1>2. ProbesInv'
  BY <1>1, Zenon DEF ProbesTyped, ResponsesGenuine, PassedOver, OwnedBefore
<1>3. PublishersTyped'
  BY Zenon DEF DeregisterAll, PublishersTyped
<1>4. PublisherServed'
  BY <1>1, Zenon DEF DeregisterAll, PublishersTyped, PublisherServed, IsDomainClaimed
<1>. QED
  BY <1>2, <1>3, <1>4, Zenon

-----------------------------------------------------------------------------
\* The network and the clock change neither claims nor what is probed for.
LEMMA NetworkInv ==
  ASSUME PublisherInv, UNCHANGED publisherVars, Lose \/ Duplicate \/ Tick
  PROVE  PublisherInv'
<1>. USE DEF PublisherInv, ProbesInv
<1>1. UNCHANGED <<completed, pending, published>>
  BY Zenon DEF publisherVars, Lose, Duplicate, Tick
<1>2. /\ probe' \in [Hosts -> Probe \cup {none}]
      /\ \A h \in Hosts : probe'[h] = none <=> probe[h] = none
      /\ \A h \in Hosts : probe'[h] # none => probe'[h].target_name = probe[h].target_name
  <2>1. CASE Lose \/ Duplicate
    BY <2>1, Zenon DEF Lose, Duplicate, ProbesTyped
  <2>2. CASE Tick
    <3>1. \A p \in Probe : /\ [p EXCEPT !.alarm = @ - 1] \in Probe
                           /\ [p EXCEPT !.alarm = @ - 1].target_name = p.target_name
      BY DEF Probe
    <3>2. none \notin Probe
      BY ProbeAssumption, Zenon
    <3>. QED
      BY <2>2, <3>1, <3>2, ZenonT(30) DEF Tick, ProbesTyped
  <2>. QED
    BY <2>1, <2>2, Zenon
<1>3. /\ network' \subseteq ProbeMessage
      /\ \A m \in network' : \E old \in network :
           m.src = old.src /\ m.dest = old.dest /\ m.kind = old.kind /\ m.name = old.name
  <2>1. CASE Lose
    BY <2>1, Zenon DEF Lose, ProbesTyped
  <2>2. CASE Duplicate
    <3>1. \A m \in ProbeMessage :
             LET copy == [m EXCEPT !.due = 0] IN
             /\ copy \in ProbeMessage
             /\ copy.src = m.src /\ copy.dest = m.dest
             /\ copy.kind = m.kind /\ copy.name = m.name
      BY DEF ProbeMessage
    <3>. QED
      BY <2>2, <3>1, ZenonT(60) DEF Duplicate, ProbesTyped
  <2>3. CASE Tick
    <3>. DEFINE Later(m) == [m EXCEPT !.due = @ - 1]
    <3>1. \A m \in ProbeMessage :
             /\ Later(m) \in ProbeMessage
             /\ Later(m).src = m.src /\ Later(m).dest = m.dest
             /\ Later(m).kind = m.kind /\ Later(m).name = m.name
      BY DEF ProbeMessage
    <3>2. network' = {Later(m) : m \in network}
      BY <2>3, Zenon DEF Tick
    <3>. HIDE DEF Later
    <3>. QED
      BY <3>1, <3>2 DEF ProbesTyped
  <2>. QED
    BY <2>1, <2>2, <2>3, Zenon
<1>4. ProbesTyped' /\ PublishersTyped'
  BY <1>1, <1>2, <1>3, Zenon DEF ProbesTyped, PublishersTyped
<1>5. ResponsesGenuine'
  BY <1>1, <1>3, ZenonT(30) DEF ResponsesGenuine
<1>6. PassedOver'
  BY <1>1, <1>2, <1>4, PassedOverStep, Zenon DEF PassedOver
<1>7. PublisherServed'
  BY <1>1, <1>2, Zenon DEF PublisherServed, IsDomainClaimed
<1>. QED
  BY <1>4, <1>5, <1>6, <1>7, Zenon

-----------------------------------------------------------------------------
\* What a host's step does to its probe and its claims.  A probe that ends
\* tells the client of a name, and that name is then claimed.
StepFacts(h, found) ==
  /\ ProbesInv'
  /\ \A g \in Hosts : completed[g] \subseteq completed'[g]
  /\ \A g \in Hosts : probe[g] # none => probe'[g] # none \/ (g = h /\ found # none)
  /\ found # none => found \in completed'[h]

\* ProbeOnce() sends a query or claims the name.
LEMMA ProbeOnceFacts ==
  ASSUME ProbesInv, NEW h \in Hosts, NEW found, ProbeOnce(h, found)
  PROVE  StepFacts(h, found)
<1>. USE DEF ProbesInv
<1>. DEFINE name == probe[h].target_name
<1>0. /\ probe[h] \in Probe /\ probe[h] # none /\ name \in Nat
      /\ none \notin Probe /\ none \notin Nat /\ ProbeDelay \in Int
  BY ProbeAssumption DEF ProbeOnce, ProbesTyped, Probe
<1>1. CASE ProbeQuery(h) /\ found = none
  <2>1. /\ probe' \in [Hosts -> Probe \cup {none}]
        /\ \A g \in Hosts \ {h} : probe'[g] = probe[g]
        /\ probe'[h] # none /\ probe'[h].target_name = name
    <3>1. Queried(probe[h]) \in Probe /\ Queried(probe[h]).target_name = name
      BY <1>0, SameNameFacts, Zenon
    <3>. QED
      BY <1>0, <1>1, <3>1, Zenon DEF ProbeQuery, ProbesTyped
  <2>2. ProbesTyped'
    BY <1>0, <1>1, <2>1, SentFacts DEF ProbeQuery, ProbesTyped
  <2>3. ResponsesGenuine'
    <3>1. \A m \in Datagrams("query", h, Hosts \ {h}, name) : m.src # m.dest /\ m.kind = "query"
      BY <1>0, SentFacts
    <3>. QED
      BY <1>1, <3>1, ZenonT(60) DEF ProbeQuery, ResponsesGenuine
  <2>4. PassedOver'
    <3>1. \A g \in Hosts : probe'[g] # none => OwnedBefore(g, probe'[g].target_name)
      BY <1>0, <2>1, Zenon DEF PassedOver
    <3>2. completed' = completed
      BY <1>1, Zenon DEF ProbeQuery
    <3>. QED
      BY <2>2, <3>1, <3>2, PassedOverStep, Zenon
  <2>. QED
    BY <1>1, <2>1, <2>2, <2>3, <2>4, Zenon DEF ProbeQuery, StepFacts
<1>2. CASE OnProbeSuccess(h) /\ found = name
  <2>1. /\ \A g \in Hosts \ {h} : probe'[g] = probe[g] /\ completed'[g] = completed[g]
        /\ probe'[h] = none /\ completed'[h] = completed[h] \cup {name}
    BY <1>2, Zenon DEF OnProbeSuccess, ProbesTyped
  <2>2. ProbesTyped'
    BY <1>0, <1>2, Zenon DEF OnProbeSuccess, ProbesTyped
  <2>3. ResponsesGenuine'
    BY <1>2, <2>1, Zenon DEF OnProbeSuccess, ResponsesGenuine, ProbesTyped, ProbeMessage
  <2>4. PassedOver'
    BY <1>0, <2>1, <2>2, PassedOverStep, Zenon DEF PassedOver
  <2>. QED
    BY <1>0, <1>2, <2>1, <2>2, <2>3, <2>4, Zenon DEF StepFacts
<1>. QED
  BY <1>1, <1>2, Zenon DEF ProbeOnce

\* RespondToProbeQuery() claims nothing.
LEMMA RespondToProbeQueryFacts ==
  ASSUME ProbesInv, NEW h \in Hosts, NEW m \in network, m.dest = h,
         RespondToProbeQuery(h, m)
  PROVE  StepFacts(h, none)
<1>. USE DEF ProbesInv
<1>0. m \in ProbeMessage /\ m.src \in Hosts \ {h} /\ m.name \in Nat
  BY Zenon DEF ProbesTyped, ProbeMessage, ResponsesGenuine
<1>1. completed' = completed
  BY Zenon DEF RespondToProbeQuery
<1>2. /\ network' \subseteq ProbeMessage
      /\ \A r \in network' : r.src # r.dest /\ (r.kind = "response" => r.name \in completed[r.src])
  <2>1. CASE IsDomainClaimed(h, m.name)
    <3>. DEFINE sent == Datagrams("response", h, {m.src}, m.name)
    <3>1. /\ sent \subseteq ProbeMessage
          /\ \A r \in sent : r.src # r.dest /\ r.name \in completed[r.src]
      BY <1>0, <2>1, SentFacts DEF IsDomainClaimed
    <3>2. network' \subseteq network \cup sent
      BY <2>1, Zenon DEF RespondToProbeQuery
    <3>. HIDE DEF sent
    <3>. QED
      BY <3>1, <3>2, Zenon DEF ProbesTyped, ResponsesGenuine
  <2>2. CASE ~IsDomainClaimed(h, m.name)
    BY <2>2, Zenon DEF RespondToProbeQuery, ProbesTyped, ResponsesGenuine
  <2>. QED
    BY <2>1, <2>2, Zenon
<1>3. /\ probe' \in [Hosts -> Probe \cup {none}]
      /\ \A g \in Hosts : probe'[g] = none <=> probe[g] = none
      /\ \A g \in Hosts : probe'[g] # none => probe'[g].target_name = probe[g].target_name
  <2>1. CASE probe' = probe
    BY <2>1, Zenon DEF ProbesTyped
  <2>2. CASE probe[h] # none /\ probe' = [probe EXCEPT ![h] = Postponed(@)]
    <3>1. none \notin Probe
      BY ProbeAssumption, Zenon
    <3>. QED
      BY <2>2, <3>1, SameNameFacts, ZenonT(30) DEF ProbesTyped
  <2>. QED
    BY <2>1, <2>2, Zenon DEF RespondToProbeQuery, TiebreakSimultaneousProbes
<1>4. ProbesTyped'
  BY <1>1, <1>2, <1>3, Zenon DEF ProbesTyped
<1>5. ResponsesGenuine'
  BY <1>1, <1>2, Zenon DEF ResponsesGenuine
<1>6. PassedOver'
  BY <1>1, <1>3, <1>4, PassedOverStep, Zenon DEF PassedOver
<1>. QED
  BY <1>1, <1>3, <1>4, <1>5, <1>6, Zenon DEF StepFacts

\* A conflict ends the probe for the name, or passes on to the next.
LEMMA ProbeOnMessageFacts ==
  ASSUME ProbesInv, NEW h \in Hosts, NEW found, NEW m \in network, m.dest = h,
         m.kind = "response", ProbeOnMessage(h, m, found)
  PROVE  StepFacts(h, found)
<1>. USE DEF ProbesInv
<1>0. m.src \in Hosts \ {h} /\ m.name \in Nat /\ m.name \in completed[m.src]
  BY Zenon DEF ProbesTyped, ProbeMessage, ResponsesGenuine
<1>1. completed' = completed /\ network' \subseteq network
  BY Zenon DEF ProbeOnMessage
<1>2. ResponsesGenuine'
  BY <1>1, Zenon DEF ResponsesGenuine
<1>3. CASE UNCHANGED probe /\ found = none
  BY <1>1, <1>2, <1>3, Zenon DEF StepFacts, ProbesTyped, PassedOver, OwnedBefore
<1>4. CASE probe[h] # none /\ probe[h].target_name = m.name /\ OnProbeFailure(h, found)
  <2>. DEFINE new_name == m.name + 1
  <2>1. /\ new_name \in Nat /\ new_name # none /\ OwnedBefore(h, new_name)
    <3>1. OwnedBefore(h, m.name)
      BY <1>4, Zenon DEF PassedOver
    <3>2. none \notin Int
      BY ProbeAssumption, Zenon
    <3>. QED
      BY <1>0, <3>1, <3>2, OwnedBeforeNext
  <2>2. CASE /\ new_name \in completed[h] /\ probe' = [probe EXCEPT ![h] = none]
             /\ found = new_name
    <3>1. ProbesTyped' /\ \A g \in Hosts : probe'[g] = IF g = h THEN none ELSE probe[g]
      BY <1>1, <2>2, Zenon DEF ProbesTyped
    <3>2. PassedOver'
      BY <1>1, <3>1, PassedOverStep, Zenon DEF PassedOver
    <3>. QED
      BY <1>1, <1>2, <2>1, <2>2, <3>1, <3>2, Zenon DEF StepFacts
  <2>3. ASSUME NEW delay \in 0 .. ProbeDelay,
               probe' = [probe EXCEPT ![h] = NewProbe(new_name, delay)], found = none
        PROVE  StepFacts(h, found)
    <3>. DEFINE p == NewProbe(new_name, delay)
    <3>1. p \in Probe /\ p # none /\ p.target_name = new_name
      BY <2>1, NewProbeFacts, Zenon
    <3>2. probe' = [probe EXCEPT ![h] = p]
      BY <2>3, Zenon
    <3>. HIDE DEF p
    <3>3. ProbesTyped' /\ \A g \in Hosts : probe'[g] = IF g = h THEN p ELSE probe[g]
      BY <1>1, <3>1, <3>2, Zenon DEF ProbesTyped
    <3>4. \A g \in Hosts : probe'[g] # none => OwnedBefore(g, probe'[g].target_name)
      BY <2>1, <3>1, <3>3, Zenon DEF PassedOver
    <3>5. PassedOver'
      BY <1>1, <3>3, <3>4, PassedOverStep, Zenon
    <3>. QED
      BY <1>1, <1>2, <2>3, <3>1, <3>3, <3>5 DEF StepFacts
  <2>. QED
    BY <1>4, <2>2, <2>3, Zenon DEF OnProbeFailure, IsDomainClaimed
<1>. QED
  BY <1>3, <1>4, Zenon DEF ProbeOnMessage

\* A host's step keeps the invariant: when the probe that a pending instance
\* waits for ends, OnDomainFound() publishes the instance.
LEMMA StepInv ==
  ASSUME PublisherInv, NEW h \in Hosts, Step(h)
  PROVE  PublisherInv'
<1>. USE DEF PublisherInv
<1>1. PICK found : (ProbeOnce(h, found) \/ OnRead(h, found)) /\ OnDomainFound(h, found)
  BY Zenon DEF Step
<1>2. StepFacts(h, found)
  BY <1>1, ProbeOnceFacts, RespondToProbeQueryFacts, ProbeOnMessageFacts, Zenon DEF OnRead
<1>3. found # none => found \in Nat
  BY <1>2, Zenon DEF StepFacts, ProbesInv, ProbesTyped
<1>4. CASE found # none /\ pending[h]
  <2>1. /\ pending' = [pending EXCEPT ![h] = FALSE]
        /\ published' = [published EXCEPT ![h] = IF @ = none THEN found ELSE @]
    BY <1>1, <1>4, Zenon DEF OnDomainFound
  <2>2. PublishersTyped'
    <3>1. pending' \in [Hosts -> BOOLEAN]
      BY <2>1, Zenon DEF PublishersTyped
    <3>2. published' \in [Hosts -> Nat \cup {none}]
      BY <1>3, <1>4, <2>1, Zenon DEF PublishersTyped
    <3>. QED
      BY <3>1, <3>2, Zenon DEF PublishersTyped
  <2>3. ASSUME NEW g \in Hosts
        PROVE  /\ published'[g] # none => published'[g] \in completed'[g]
               /\ pending'[g] => probe'[g] # none \/ 0 \in completed'[g]
    BY <1>2, <1>4, <2>1, Zenon DEF StepFacts, PublisherServed, PublishersTyped, IsDomainClaimed
  <2>. QED
    BY <1>2, <2>2, <2>3, Zenon DEF StepFacts, PublisherServed, IsDomainClaimed
<1>5. CASE ~(found # none /\ pending[h])
  <2>1. UNCHANGED <<pending, published>>
    BY <1>1, <1>5, Zenon DEF OnDomainFound
  <2>. QED
    BY <1>2, <1>5, <2>1, Zenon DEF StepFacts, PublishersTyped, PublisherServed, IsDomainClaimed
<1>. QED
  BY <1>4, <1>5, Zenon

-----------------------------------------------------------------------------
\* PublisherInv is inductive.
THEOREM NextPublisherInv == PublisherInv /\ [DnsSdNext]_dnsSdVars => PublisherInv'
<1>. SUFFICES ASSUME PublisherInv, [DnsSdNext]_dnsSdVars PROVE PublisherInv'
  BY Zenon
<1>1. ASSUME NEW h \in Hosts, Register(h) PROVE PublisherInv'
  BY <1>1, RegisterInv, Zenon
<1>2. ASSUME NEW h \in Hosts, DeregisterAll(h) PROVE PublisherInv'
  BY <1>2, DeregisterAllInv
<1>3. ASSUME NEW h \in Hosts, Step(h) PROVE PublisherInv'
  BY <1>3, StepInv
<1>4. CASE (Lose \/ Duplicate \/ Tick) /\ UNCHANGED publisherVars
  BY <1>4, NetworkInv, Zenon
<1>5. CASE UNCHANGED dnsSdVars
  BY <1>5, Zenon DEF dnsSdVars, probeVars, publisherVars, PublisherInv, ProbesInv, ProbesTyped,
     PublishersTyped, ResponsesGenuine, PassedOver, OwnedBefore, PublisherServed,
     IsDomainClaimed
<1>. QED
  BY <1>1, <1>2, <1>3, <1>4, <1>5, Zenon DEF DnsSdNext, Progress

\* Whatever the network loses or delivers twice, and for any number of hosts: a
\* host's probe gives up a name (OnProbeFailure()) only for another host that
\* has claimed it.
THEOREM NamesPassedAreOwned == DnsSdSpec => []PassedNamesOwned
<1>1. PublisherInv => PassedNamesOwned
  BY PassedOverIsOwned, Zenon DEF PublisherInv, ProbesInv
<1>. QED
  BY <1>1, InitPublisherInv, NextPublisherInv, PTL DEF DnsSdSpec

\* For any number of hosts and Register() calls: what PublisherImpl publishes is
\* claimed by its host, and no pending instance is left without the probe that
\* OnDomainFound() would come from, unless its name is claimed already.
THEOREM PublishersServed == DnsSdSpec => []PublisherServed
<1>1. PublisherInv => PublisherServed
  BY Zenon DEF PublisherInv
<1>. QED
  BY <1>1, InitPublisherInv, NextPublisherInv, PTL DEF DnsSdSpec

-----------------------------------------------------------------------------
(***************************************************************************)
(* OneOwner.  A message and an alarm tell how long ago a query was sent: one  *)
(* that has NetworkDelay - due ticks of the way behind it, or ProbeDelay -    *)
(* alarm ticks since the probe's last query.                                  *)
(***************************************************************************)

\* What is under way, or due, is not overdue; no host probes for what it has.
ProbesTimed ==
  /\ \A h \in Hosts : probe[h] # none =>
       /\ probe[h].target_name \notin completed[h]
       /\ probe[h].alarm >= 0
       /\ probe[h].successful_probe_queries \in 0 .. ProbeQueries
       /\ probe[h].successful_probe_queries > 0 => probe[h].alarm <= ProbeDelay
  /\ \A m \in network : m.due >= 0
  /\ lost \in Nat

\* A message, from its fields.
ProbeMail(kind, src, dest, name, due) ==
  [kind |-> kind, src |-> src, dest |-> dest, name |-> name, due |-> due]

\* The last query of probe q was sent after the first of probe p.
QueriedSince(p, q) ==
  \/ p.successful_probe_queries = 1 /\ p.alarm < q.alarm
  \/ p.successful_probe_queries = 2 /\ (p.alarm < ProbeDelay \/ q.alarm > 0)
  \/ p.successful_probe_queries > 2

\* Of two hosts that probe for a name, the smaller one has yet to hear a query
\* that the greater one has sent since the smaller one began.
TieBreak(g, h, p, q, net) ==
  /\ p # none /\ q # none /\ g < h /\ p.target_name = q.target_name
  /\ q.successful_probe_queries > 0 /\ QueriedSince(p, q)
  => ProbeMail("query", h, g, p.target_name, NetworkDelay - (ProbeDelay - q.alarm)) \in net

\* Host h owns the name that g has sent its last query for: g will hear of it
\* before its alarm.
Conflict(g, h, p, names, net) ==
  /\ p # none /\ p.target_name \in names /\ p.successful_probe_queries = ProbeQueries
  => \E due \in Nat :
       \/ /\ ProbeMail("response", h, g, p.target_name, due) \in net
          /\ due < p.alarm
       \/ /\ ProbeMail("query", g, h, p.target_name, due) \in net
          /\ due + NetworkDelay < p.alarm

\* Whoever has to defer will hear why.
TieBreaksAhead ==
  \A g, h \in Hosts : TieBreak(g, h, probe[g], probe[h], network)

\* Whoever is about to claim what another owns will hear of it in time.
ConflictsAhead ==
  \A g, h \in Hosts : g # h => Conflict(g, h, probe[g], completed[h], network)

\* The inductive invariant: nothing is promised once a message is lost.
ClaimsInv ==
  ProbesTimed /\ (lost = 0 => TieBreaksAhead /\ ConflictsAhead /\ OneOwner)

\* A message is its fields.
LEMMA MessageFacts ==
  /\ \A m \in ProbeMessage : m = ProbeMail(m.kind, m.src, m.dest, m.name, m.due)
  /\ \A kind, src, dest, name, due :
       LET m == ProbeMail(kind, src, dest, name, due) IN
       m.kind = kind /\ m.src = src /\ m.dest = dest /\ m.name = name /\ m.due = due
BY DEF ProbeMail, ProbeMessage

\* The constants in the provers' terms.
LEMMA ProbeConstants ==
  /\ Hosts \subseteq Int /\ none \notin Probe
  /\ ProbeQueries \in Nat /\ ProbeQueries >= 3
  /\ ProbeDelay \in Nat /\ NetworkDelay \in Nat /\ PostponeDelay \in Nat
  /\ 2 * NetworkDelay < ProbeDelay
BY ProbeAssumption, Zenon

\* A probe that has sent nothing has nothing ahead of it.
LEMMA FreshProbe ==
  ASSUME NEW p \in Probe \cup {none}, p # none => p.successful_probe_queries = 0
  PROVE  /\ \A g, h, q, net : TieBreak(g, h, p, q, net)
         /\ \A g, h, q, net : TieBreak(g, h, q, p, net)
         /\ \A g, h, names, net : Conflict(g, h, p, names, net)
<1>1. p # none => ~(p.successful_probe_queries > 0) /\ p.successful_probe_queries # ProbeQueries
  BY ProbeConstants
<1>2. p # none => \A q : ~QueriedSince(p, q)
  BY DEF QueriedSince
<1>. QED
  BY <1>1, <1>2, Zenon DEF TieBreak, Conflict

\* A host's probe ends or starts over: what is under way to the others stays.
LEMMA RestartClaims ==
  ASSUME ProbesTyped, ProbesTyped', ClaimsInv, NEW h \in Hosts,
         \A g \in Hosts \ {h} : probe'[g] = probe[g],
         UNCHANGED <<completed, lost>>,
         network' \subseteq network,
         \A m \in network \ network' :
           m.dest = h /\ ~(m.kind = "query" /\ m.name \in completed[h]),
         probe'[h] # none => /\ probe'[h].successful_probe_queries = 0
                             /\ probe'[h].alarm >= 0
                             /\ probe'[h].target_name \notin completed[h]
  PROVE  ClaimsInv'
<1>1. ProbesTimed'
  <2>1. \A g \in Hosts : probe'[g] # none =>
          /\ probe'[g].target_name \notin completed[g]
          /\ probe'[g].alarm >= 0
          /\ probe'[g].successful_probe_queries \in 0 .. ProbeQueries
          /\ probe'[g].successful_probe_queries > 0 => probe'[g].alarm <= ProbeDelay
    <3>1. 0 \in 0 .. ProbeQueries /\ ~(0 > 0)
      BY ProbeConstants
    <3>2. ASSUME NEW g \in Hosts \ {h}, probe'[g] # none
          PROVE  /\ probe'[g].target_name \notin completed[g]
                 /\ probe'[g].alarm >= 0
                 /\ probe'[g].successful_probe_queries \in 0 .. ProbeQueries
                 /\ probe'[g].successful_probe_queries > 0 => probe'[g].alarm <= ProbeDelay
      <4>1. probe'[g] = probe[g]
        BY Zenon
      <4>. QED
        BY <3>2, <4>1, Zenon DEF ClaimsInv, ProbesTimed
    <3>. QED
      BY <3>1, <3>2, Zenon
  <2>. QED
    BY <2>1, Zenon DEF ClaimsInv, ProbesTimed
<1>2. ASSUME lost = 0 PROVE TieBreaksAhead' /\ ConflictsAhead' /\ OneOwner'
  <2>0. TieBreaksAhead /\ ConflictsAhead /\ OneOwner
    BY <1>2, Zenon DEF ClaimsInv
  <2>1. /\ \A g, k, q, net : TieBreak(g, k, probe'[h], q, net)
        /\ \A g, k, q, net : TieBreak(g, k, q, probe'[h], net)
        /\ \A g, k, names, net : Conflict(g, k, probe'[h], names, net)
    BY FreshProbe, Zenon DEF ProbesTyped
  <2>2. ASSUME NEW g \in Hosts, NEW k \in Hosts
        PROVE  TieBreak(g, k, probe'[g], probe'[k], network')
    <3>1. CASE g = h \/ k = h
      BY <2>1, <3>1, Zenon
    <3>2. CASE g # h /\ k # h
      <4>1. TieBreak(g, k, probe[g], probe[k], network)
        BY <2>0, Zenon DEF TieBreaksAhead
      <4>2. \A name, due : LET m == ProbeMail("query", k, g, name, due) IN
                           m \in network => m \in network'
        BY <3>2, MessageFacts
      <4>. QED
        BY <3>2, <4>1, <4>2, Zenon DEF TieBreak
    <3>. QED
      BY <3>1, <3>2, Zenon
  <2>3. ASSUME NEW g \in Hosts, NEW k \in Hosts, g # k
        PROVE  Conflict(g, k, probe'[g], completed[k], network')
    <3>1. CASE g = h
      BY <2>1, <3>1, Zenon
    <3>2. CASE g # h
      <4>1. Conflict(g, k, probe[g], completed[k], network)
        BY <2>0, <2>3, Zenon DEF ConflictsAhead
      <4>2. \A name, due : LET m == ProbeMail("response", k, g, name, due) IN
                           m \in network => m \in network'
        BY <3>2, MessageFacts
      <4>3. \A name \in completed[k] : \A due : LET m == ProbeMail("query", g, k, name, due) IN
                           m \in network => m \in network'
        BY MessageFacts
      <4>. QED
        BY <3>2, <4>1, <4>2, <4>3, Zenon DEF Conflict
    <3>. QED
      BY <3>1, <3>2, Zenon
  <2>4. OneOwner'
    BY <2>0, Zenon DEF OneOwner
  <2>. QED
    BY <2>2, <2>3, <2>4, Zenon DEF TieBreaksAhead, ConflictsAhead
<1>. QED
  BY <1>1, <1>2, Zenon DEF ClaimsInv

\* A message arrives that is no news to the probe; an owner has answered it.
LEMMA HeardClaims ==
  ASSUME ProbesTyped, ClaimsInv, NEW h \in Hosts, NEW m \in network, m.dest = h,
         UNCHANGED <<probe, completed, lost>>,
         network \ {m} \subseteq network',
         \A r \in network' : r.due >= 0,
         probe[h] # none /\ probe[h].target_name = m.name =>
           m.kind # "response" /\ ~(h < m.src),
         m.kind = "query" /\ m.name \in completed[h] =>
           ProbeMail("response", h, m.src, m.name, NetworkDelay) \in network'
  PROVE  ClaimsInv'
<1>1. ProbesTimed'
  BY Zenon DEF ClaimsInv, ProbesTimed
<1>2. ASSUME lost = 0 PROVE TieBreaksAhead' /\ ConflictsAhead' /\ OneOwner'
  <2>0. TieBreaksAhead /\ ConflictsAhead /\ OneOwner
    BY <1>2, Zenon DEF ClaimsInv
  <2>1. ASSUME NEW g \in Hosts, NEW k \in Hosts
        PROVE  TieBreak(g, k, probe[g], probe[k], network')
    <3>1. TieBreak(g, k, probe[g], probe[k], network)
      BY <2>0, Zenon DEF TieBreaksAhead
    <3>2. ASSUME probe[g] # none, g < k, NEW due,
                 ProbeMail("query", k, g, probe[g].target_name, due) \in network
          PROVE  ProbeMail("query", k, g, probe[g].target_name, due) \in network'
      BY <3>2, MessageFacts
    <3>. QED
      BY <3>1, <3>2, Zenon DEF TieBreak
  <2>2. ASSUME NEW g \in Hosts, NEW k \in Hosts, g # k
        PROVE  Conflict(g, k, probe[g], completed[k], network')
    <3>. DEFINE name == probe[g].target_name
    <3>1. SUFFICES ASSUME probe[g] # none, name \in completed[k],
                          probe[g].successful_probe_queries = ProbeQueries
                   PROVE  \E due \in Nat :
                            \/ /\ ProbeMail("response", k, g, name, due) \in network'
                               /\ due < probe[g].alarm
                            \/ /\ ProbeMail("query", g, k, name, due) \in network'
                               /\ due + NetworkDelay < probe[g].alarm
      BY Zenon DEF Conflict
    <3>2. PICK due \in Nat :
            \/ /\ ProbeMail("response", k, g, name, due) \in network
               /\ due < probe[g].alarm
            \/ /\ ProbeMail("query", g, k, name, due) \in network
               /\ due + NetworkDelay < probe[g].alarm
      BY <2>0, <2>2, <3>1, Zenon DEF ConflictsAhead, Conflict
    <3>3. CASE ProbeMail("response", k, g, name, due) \in network /\ due < probe[g].alarm
      <4>1. ProbeMail("response", k, g, name, due) # m
        BY <3>1, MessageFacts
      <4>. QED
        BY <3>3, <4>1, Zenon
    <3>4. CASE /\ ProbeMail("query", g, k, name, due) \in network
               /\ due + NetworkDelay < probe[g].alarm
      <4>1. CASE ProbeMail("query", g, k, name, due) # m
        BY <3>4, <4>1, Zenon
      <4>2. CASE ProbeMail("query", g, k, name, due) = m
        <5>1. m.kind = "query" /\ m.src = g /\ k = h /\ m.name = name
          BY <4>2, MessageFacts
        <5>2. ProbeMail("response", k, g, name, NetworkDelay) \in network'
          BY <3>1, <5>1, Zenon
        <5>3. NetworkDelay \in Nat /\ NetworkDelay < probe[g].alarm
          BY <3>1, <3>4, ProbeConstants DEF ProbesTyped, Probe
        <5>. QED
          BY <5>2, <5>3, Zenon
      <4>. QED
        BY <4>1, <4>2, Zenon
    <3>. QED
      BY <3>2, <3>3, <3>4, Zenon
  <2>3. OneOwner'
    BY <2>0, Zenon DEF OneOwner
  <2>. QED
    BY <2>1, <2>2, <2>3, Zenon DEF TieBreaksAhead, ConflictsAhead
<1>. QED
  BY <1>1, <1>2, Zenon DEF ClaimsInv

\* A query is sent to all others.
LEMMA QueryClaims ==
  ASSUME ProbesTyped, ClaimsInv, NEW h \in Hosts, probe[h] # none, probe[h].alarm = 0,
         probe[h].successful_probe_queries < ProbeQueries, ProbeQuery(h), UNCHANGED lost
  PROVE  ClaimsInv'
<1>. DEFINE p == probe[h]
            name == p.target_name
            sent == Datagrams("query", h, Hosts \ {h}, name)
<1>0. /\ p \in Probe /\ name \in Nat /\ p.successful_probe_queries \in Nat
      /\ \A g \in Hosts : probe[g] # none => probe[g] \in Probe
  BY DEF ProbesTyped, ClaimsInv, ProbesTimed, Probe
<1>1. /\ Queried(p).target_name = name
      /\ Queried(p).successful_probe_queries = p.successful_probe_queries + 1
      /\ Queried(p).alarm = ProbeDelay
  BY <1>0, Zenon DEF Queried, Probe
<1>2. /\ probe'[h] = Queried(p) /\ \A g \in Hosts \ {h} : probe'[g] = probe[g]
      /\ network' = network \cup sent /\ completed' = completed
  BY Zenon DEF ProbeQuery, ProbesTyped
<1>3. /\ \A g \in Hosts \ {h} : ProbeMail("query", h, g, name, NetworkDelay) \in sent
      /\ \A m \in sent : m.due = NetworkDelay
  BY DEF Datagrams, ProbeMail
<1>4. p # none /\ p.alarm = 0 /\ p.successful_probe_queries < ProbeQueries
  BY Zenon
<1>. HIDE DEF p, sent
<1>5. ProbesTimed'
  <2>1. ASSUME NEW g \in Hosts, probe'[g] # none
        PROVE  /\ probe'[g].target_name \notin completed[g]
               /\ probe'[g].alarm >= 0
               /\ probe'[g].successful_probe_queries \in 0 .. ProbeQueries
               /\ probe'[g].successful_probe_queries > 0 => probe'[g].alarm <= ProbeDelay
    <3>1. CASE g = h
      <4>1. name \notin completed[h]
        BY <1>4, Zenon DEF ClaimsInv, ProbesTimed, p
      <4>2. probe'[g] = Queried(p)
        BY <1>2, <3>1, Zenon
      <4>. QED
        BY <1>0, <1>1, <1>4, <3>1, <4>1, <4>2, ProbeConstants
    <3>2. CASE g # h
      BY <1>2, <2>1, <3>2, Zenon DEF ClaimsInv, ProbesTimed
    <3>. QED
      BY <3>1, <3>2, Zenon
  <2>2. \A m \in network' : m.due >= 0
    BY <1>2, <1>3, ProbeConstants DEF ClaimsInv, ProbesTimed
  <2>. QED
    BY <1>2, <2>1, <2>2, Zenon DEF ClaimsInv, ProbesTimed
<1>6. ASSUME lost = 0 PROVE TieBreaksAhead' /\ ConflictsAhead' /\ OneOwner'
  <2>0. TieBreaksAhead /\ ConflictsAhead /\ OneOwner
    BY <1>6, Zenon DEF ClaimsInv
  <2>1. ASSUME NEW g \in Hosts, NEW k \in Hosts
        PROVE  TieBreak(g, k, probe'[g], probe'[k], network')
    <3>0. TieBreak(g, k, probe[g], probe[k], network)
      BY <2>0, Zenon DEF TieBreaksAhead
    <3>1. CASE g # h /\ k = h
      <4>1. probe'[k] = Queried(p) /\ probe'[g] = probe[g]
        BY <1>2, <3>1, Zenon
      <4>2. NetworkDelay - (ProbeDelay - ProbeDelay) = NetworkDelay
        BY ProbeConstants
      <4>. QED
        BY <1>1, <1>2, <1>3, <3>1, <4>1, <4>2, Zenon DEF TieBreak
    <3>2. CASE g = h /\ k # h
      <4>. DEFINE q == probe[k]
      <4>1. probe'[g] = Queried(p) /\ probe'[k] = q /\ probe[g] = p
        BY <1>2, <3>2, Zenon DEF p
      <4>2. q # none => q.alarm \in Int /\ q.alarm >= 0
        BY <1>0, Zenon DEF Probe, ClaimsInv, ProbesTimed
      <4>3. q # none /\ q.successful_probe_queries > 0 => q.alarm <= ProbeDelay
        BY Zenon DEF ClaimsInv, ProbesTimed
      <4>. HIDE DEF q
      <4>4. q # none /\ q.successful_probe_queries > 0 /\ QueriedSince(Queried(p), q)
            => QueriedSince(p, q)
        BY <1>0, <1>1, <1>4, <4>2, <4>3, ProbeConstants DEF QueriedSince
      <4>5. TieBreak(g, k, p, q, network)
        BY <3>0, <4>1, Zenon DEF q
      <4>. QED
        BY <1>1, <1>2, <1>4, <4>1, <4>4, <4>5, Zenon DEF TieBreak
    <3>3. CASE g # h /\ k # h
      BY <1>2, <3>0, <3>3, Zenon DEF TieBreak
    <3>4. CASE g = h /\ k = h
      <4>1. ~(g < k)
        BY <3>4, ProbeConstants
      <4>. QED
        BY <4>1, Zenon DEF TieBreak
    <3>. QED
      BY <3>1, <3>2, <3>3, <3>4, Zenon
  <2>2. ASSUME NEW g \in Hosts, NEW k \in Hosts, g # k
        PROVE  Conflict(g, k, probe'[g], completed[k], network')
    <3>1. CASE g = h
      <4>1. ProbeMail("query", h, k, name, NetworkDelay) \in network'
        BY <1>2, <1>3, <2>2, <3>1, Zenon
      <4>2. NetworkDelay \in Nat /\ NetworkDelay + NetworkDelay < ProbeDelay
        BY ProbeConstants
      <4>3. probe'[g] = Queried(p)
        BY <1>2, <3>1, Zenon
      <4>. QED
        BY <1>1, <3>1, <4>1, <4>2, <4>3, Zenon DEF Conflict
    <3>2. CASE g # h
      <4>1. Conflict(g, k, probe[g], completed[k], network)
        BY <2>0, <2>2, Zenon DEF ConflictsAhead
      <4>. QED
        BY <1>2, <3>2, <4>1, Zenon DEF Conflict
    <3>. QED
      BY <3>1, <3>2, Zenon
  <2>3. OneOwner'
    BY <1>2, <2>0, <1>6, Zenon DEF OneOwner
  <2>. QED
    BY <1>2, <2>1, <2>2, <2>3, Zenon DEF TieBreaksAhead, ConflictsAhead
<1>. QED
  BY <1>5, <1>6, Zenon DEF ClaimsInv

\* A name is claimed: no other host has it, and one that has sent all of its
\* queries will be told.
LEMMA SuccessClaims ==
  ASSUME ProbesTyped, ClaimsInv, NEW h \in Hosts, probe[h] # none, probe[h].alarm = 0,
         ~(probe[h].successful_probe_queries < ProbeQueries), OnProbeSuccess(h),
         UNCHANGED lost
  PROVE  ClaimsInv'
<1>. DEFINE name == probe[h].target_name
<1>0. /\ \A g \in Hosts : probe[g] # none =>
           /\ probe[g].alarm \in Int
           /\ probe[g].successful_probe_queries \in 0 .. ProbeQueries
      /\ \A m \in network : m.due \in Nat
  BY DEF ProbesTyped, ClaimsInv, ProbesTimed, Probe, ProbeMessage
<1>1. /\ probe[h].successful_probe_queries = ProbeQueries
      /\ probe[h].successful_probe_queries > 2 /\ probe[h].successful_probe_queries > 0
  BY <1>0, ProbeConstants
<1>2. /\ \A g \in Hosts \ {h} : probe'[g] = probe[g] /\ completed'[g] = completed[g]
      /\ probe'[h] = none /\ completed'[h] = completed[h] \cup {name}
      /\ network' = network
  BY Zenon DEF OnProbeSuccess, ProbesTyped
<1>3. ProbesTimed'
  BY <1>2, Zenon DEF ClaimsInv, ProbesTimed
<1>4. ASSUME lost = 0 PROVE TieBreaksAhead' /\ ConflictsAhead' /\ OneOwner'
  <2>0. TieBreaksAhead /\ ConflictsAhead /\ OneOwner
    BY <1>4, Zenon DEF ClaimsInv
  <2>1. ASSUME NEW g \in Hosts, NEW k \in Hosts
        PROVE  TieBreak(g, k, probe'[g], probe'[k], network)
    BY <1>2, <2>0, Zenon DEF TieBreaksAhead, TieBreak
  <2>2. ASSUME NEW g \in Hosts \ {h}, probe[g] # none, probe[g].target_name = name,
               probe[g].successful_probe_queries = ProbeQueries
        PROVE  \E due \in Nat : /\ ProbeMail("query", g, h, name, due) \in network
                                /\ due + NetworkDelay < probe[g].alarm
    <3>1. probe[g].successful_probe_queries > 0 /\ probe[g].successful_probe_queries > 2
      BY <2>2, ProbeConstants
    <3>2. QueriedSince(probe[g], probe[h]) /\ QueriedSince(probe[h], probe[g])
      BY <1>1, <3>1, Zenon DEF QueriedSince
    <3>3. CASE g < h
      <4>1. ProbeMail("query", h, g, name, NetworkDelay - (ProbeDelay - probe[h].alarm)) \in network
        BY <1>1, <2>0, <2>2, <3>2, <3>3, Zenon DEF TieBreaksAhead, TieBreak
      <4>2. NetworkDelay - (ProbeDelay - probe[h].alarm) \in Nat
        BY <1>0, <4>1, MessageFacts
      <4>. QED
        BY <4>2, ProbeConstants
    <3>4. CASE h < g
      <4>. DEFINE due == NetworkDelay - (ProbeDelay - probe[g].alarm)
      <4>1. ProbeMail("query", g, h, name, due) \in network
        BY <1>1, <2>0, <2>2, <3>1, <3>2, <3>4, Zenon DEF TieBreaksAhead, TieBreak
      <4>2. due \in Nat
        BY <1>0, <4>1, MessageFacts
      <4>3. due + NetworkDelay < probe[g].alarm
        BY <1>0, <2>2, ProbeConstants
      <4>. HIDE DEF due
      <4>. QED
        BY <4>1, <4>2, <4>3, Zenon
    <3>. QED
      BY <3>3, <3>4, ProbeConstants
  <2>3. ASSUME NEW g \in Hosts, NEW k \in Hosts, g # k
        PROVE  Conflict(g, k, probe'[g], completed'[k], network)
    <3>0. Conflict(g, k, probe[g], completed[k], network)
      BY <2>0, <2>3, Zenon DEF ConflictsAhead
    <3>1. CASE g = h
      BY <1>2, <3>1, Zenon DEF Conflict
    <3>2. CASE g # h /\ k # h
      BY <1>2, <3>0, <3>2, Zenon
    <3>3. CASE g # h /\ k = h
      <4>1. probe'[g] = probe[g] /\ completed'[k] = completed[k] \cup {name}
        BY <1>2, <3>3, Zenon
      <4>2. CASE probe[g].target_name \in completed[k] \/ probe[g] = none
        BY <3>0, <4>1, <4>2, Zenon DEF Conflict
      <4>3. CASE probe[g] # none /\ probe[g].target_name = name
        BY <2>2, <3>3, <4>1, <4>3, Zenon DEF Conflict
      <4>. QED
        BY <4>1, <4>2, <4>3, Zenon DEF Conflict
    <3>. QED
      BY <3>1, <3>2, <3>3, Zenon
  <2>4. ASSUME NEW k \in Hosts \ {h} PROVE name \notin completed[k]
    <3>1. SUFFICES ASSUME name \in completed[k] PROVE FALSE
      BY Zenon
    <3>2. Conflict(h, k, probe[h], completed[k], network)
      BY <2>0, Zenon DEF ConflictsAhead
    <3>3. PICK due \in Nat : due < probe[h].alarm \/ due + NetworkDelay < probe[h].alarm
      BY <1>1, <3>1, <3>2, Zenon DEF Conflict
    <3>. QED
      BY <3>3, ProbeConstants
  <2>5. OneOwner'
    BY <1>2, <1>4, <2>0, <2>4 DEF OneOwner
  <2>. QED
    BY <1>2, <2>1, <2>3, <2>5, Zenon DEF TieBreaksAhead, ConflictsAhead
<1>. QED
  BY <1>3, <1>4, Zenon DEF ClaimsInv

\* Time passes alike for the messages and for the alarms.
LEMMA TickClaims ==
  ASSUME ProbesTyped, ClaimsInv, Tick
  PROVE  ClaimsInv'
<1>. DEFINE Later(p) == [p EXCEPT !.alarm = @ - 1]
<1>0. /\ \A g \in Hosts : probe[g] # none => probe[g] \in Probe /\ probe[g].alarm > 0
      /\ \A m \in network : m \in ProbeMessage /\ m.due > 0
      /\ UNCHANGED <<completed, lost>>
  BY Zenon DEF ProbesTyped, Tick
<1>1. \A p \in Probe : /\ Later(p).target_name = p.target_name
                       /\ Later(p).successful_probe_queries = p.successful_probe_queries
                       /\ Later(p).alarm = p.alarm - 1 /\ Later(p) # none
                       /\ p.alarm \in Int /\ p.successful_probe_queries \in Int
  <2>1. \A p \in Probe : Later(p) \in Probe
    BY DEF Probe
  <2>. QED
    BY <2>1, ProbeConstants, Zenon DEF Probe
<1>2. \A g \in Hosts : probe'[g] = IF probe[g] = none THEN none ELSE Later(probe[g])
  BY Zenon DEF Tick
<1>. HIDE DEF Later
<1>3. \A kind, src, dest, name, due :
        ProbeMail(kind, src, dest, name, due) \in network
        => ProbeMail(kind, src, dest, name, due - 1) \in network' /\ due \in Int /\ due > 0
  <2>1. SUFFICES ASSUME NEW kind, NEW src, NEW dest, NEW name, NEW due,
                        ProbeMail(kind, src, dest, name, due) \in network
                 PROVE  ProbeMail(kind, src, dest, name, due - 1) \in network' /\ due \in Int /\ due > 0
    BY Zenon
  <2>2. [ProbeMail(kind, src, dest, name, due) EXCEPT !.due = @ - 1]
          = ProbeMail(kind, src, dest, name, due - 1)
    BY DEF ProbeMail
  <2>3. due \in Int /\ due > 0
    BY <1>0, <2>1, MessageFacts DEF ProbeMessage
  <2>. QED
    BY <2>1, <2>2, <2>3, Zenon DEF Tick
<1>4. ProbesTimed'
  <2>1. ASSUME NEW g \in Hosts, probe'[g] # none
        PROVE  /\ probe'[g].target_name \notin completed[g]
               /\ probe'[g].alarm >= 0
               /\ probe'[g].successful_probe_queries \in 0 .. ProbeQueries
               /\ probe'[g].successful_probe_queries > 0 => probe'[g].alarm <= ProbeDelay
    BY <1>0, <1>1, <1>2, <2>1, ProbeConstants DEF ClaimsInv, ProbesTimed
  <2>2. \A m \in ProbeMessage : m.due > 0 => [m EXCEPT !.due = @ - 1].due >= 0
    BY DEF ProbeMessage
  <2>3. \A m \in network' : m.due >= 0
    BY <1>0, <2>2, Zenon DEF Tick
  <2>. QED
    BY <1>0, <2>1, <2>3, Zenon DEF ClaimsInv, ProbesTimed
<1>5. ASSUME lost = 0 PROVE TieBreaksAhead' /\ ConflictsAhead' /\ OneOwner'
  <2>0. TieBreaksAhead /\ ConflictsAhead /\ OneOwner
    BY <1>5, Zenon DEF ClaimsInv
  <2>1. ASSUME NEW g \in Hosts, NEW k \in Hosts
        PROVE  TieBreak(g, k, probe'[g], probe'[k], network')
    <3>. DEFINE p == probe[g]
                q == probe[k]
    <3>1. CASE p = none \/ q = none
      BY <1>2, <3>1, Zenon DEF TieBreak
    <3>2. CASE p # none /\ q # none
      <4>0. p \in Probe /\ q \in Probe /\ p.alarm > 0 /\ q.alarm > 0
        BY <1>0, <3>2, Zenon
      <4>1. probe'[g] = Later(p) /\ probe'[k] = Later(q) /\ TieBreak(g, k, p, q, network)
        BY <1>2, <2>0, <3>2, Zenon DEF TieBreaksAhead
      <4>2. q.successful_probe_queries > 0 => q.alarm <= ProbeDelay
        BY <3>2, Zenon DEF ClaimsInv, ProbesTimed
      <4>. HIDE DEF p, q
      <4>3. QueriedSince(Later(p), Later(q)) => QueriedSince(p, q)
        BY <1>1, <4>0, ProbeConstants DEF QueriedSince
      <4>4. NetworkDelay - (ProbeDelay - Later(q).alarm)
              = NetworkDelay - (ProbeDelay - q.alarm) - 1
        BY <1>1, <4>0, ProbeConstants
      <4>5. /\ Later(p).target_name = p.target_name
            /\ Later(q).target_name = q.target_name
            /\ Later(q).successful_probe_queries = q.successful_probe_queries
        BY <1>1, <4>0, Zenon
      <4>6. TieBreak(g, k, Later(p), Later(q), network')
        BY <1>3, <3>2, <4>1, <4>3, <4>4, <4>5, Zenon DEF TieBreak
      <4>. QED
        BY <4>1, <4>6, Zenon
    <3>. QED
      BY <3>1, <3>2, Zenon
  <2>2. ASSUME NEW g \in Hosts, NEW k \in Hosts, g # k
        PROVE  Conflict(g, k, probe'[g], completed[k], network')
    <3>. DEFINE p == probe[g]
                name == p.target_name
    <3>1. CASE p = none
      BY <1>2, <3>1, Zenon DEF Conflict
    <3>2. CASE p # none
      <4>0. p \in Probe
        BY <1>0, <3>2, Zenon
      <4>1. probe'[g] = Later(p) /\ Conflict(g, k, p, completed[k], network)
        BY <1>2, <2>0, <2>2, <3>2, Zenon DEF ConflictsAhead
      <4>. HIDE DEF p
      <4>2. SUFFICES ASSUME name \in completed[k],
                            p.successful_probe_queries = ProbeQueries
                     PROVE  \E due \in Nat :
                              \/ /\ ProbeMail("response", k, g, name, due) \in network'
                                 /\ due < p.alarm - 1
                              \/ /\ ProbeMail("query", g, k, name, due) \in network'
                                 /\ due + NetworkDelay < p.alarm - 1
        BY <1>1, <4>0, <4>1, Zenon DEF Conflict
      <4>3. PICK due \in Nat :
              \/ /\ ProbeMail("response", k, g, name, due) \in network
                 /\ due < p.alarm
              \/ /\ ProbeMail("query", g, k, name, due) \in network
                 /\ due + NetworkDelay < p.alarm
        BY <3>2, <4>1, <4>2, Zenon DEF Conflict
      <4>4. p.alarm \in Int
        BY <1>1, <4>0, Zenon
      <4>5. CASE ProbeMail("response", k, g, name, due) \in network /\ due < p.alarm
        <5>1. due - 1 \in Nat /\ due - 1 < p.alarm - 1
          BY <1>3, <4>4, <4>5
        <5>. QED
          BY <1>3, <4>5, <5>1, Zenon
      <4>6. CASE /\ ProbeMail("query", g, k, name, due) \in network
                 /\ due + NetworkDelay < p.alarm
        <5>1. due - 1 \in Nat /\ (due - 1) + NetworkDelay < p.alarm - 1
          BY <1>3, <4>4, <4>6, ProbeConstants
        <5>. QED
          BY <1>3, <4>6, <5>1, Zenon
      <4>. QED
        BY <4>3, <4>5, <4>6, Zenon
    <3>. QED
      BY <3>1, <3>2, Zenon
  <2>3. OneOwner'
    BY <1>0, <2>0, Zenon DEF OneOwner
  <2>. QED
    BY <1>0, <2>1, <2>2, <2>3, Zenon DEF TieBreaksAhead, ConflictsAhead
<1>. QED
  BY <1>0, <1>4, <1>5, Zenon DEF ClaimsInv

\* A loss ends the promise, and a second copy hides nothing.
LEMMA NetworkClaims ==
  ASSUME ProbesTyped, ClaimsInv, Lose \/ Duplicate
  PROVE  ClaimsInv'
<1>1. CASE Lose
  <2>1. lost' \in Nat /\ lost' # 0
    BY <1>1 DEF Lose, ClaimsInv, ProbesTimed
  <2>2. ProbesTimed'
    BY <1>1, <2>1, Zenon DEF Lose, ClaimsInv, ProbesTimed
  <2>. QED
    BY <2>1, <2>2, Zenon DEF ClaimsInv
<1>2. CASE Duplicate
  <2>1. PICK m \in network : network' = network \cup {[m EXCEPT !.due = 0]}
    BY <1>2, Zenon DEF Duplicate
  <2>2. [m EXCEPT !.due = 0].due = 0
    BY Zenon DEF ProbesTyped, ProbeMessage
  <2>3. /\ UNCHANGED <<probe, completed, lost>> /\ network \subseteq network'
        /\ \A r \in network' : r \in network \/ r.due = 0
    BY <1>2, <2>1, <2>2, Zenon DEF Duplicate
  <2>4. ProbesTimed'
    BY <2>3 DEF ClaimsInv, ProbesTimed
  <2>5. TieBreaksAhead => TieBreaksAhead'
    BY <2>3, Zenon DEF TieBreaksAhead, TieBreak
  <2>6. ConflictsAhead => ConflictsAhead'
    BY <2>3, Zenon DEF ConflictsAhead, Conflict
  <2>7. OneOwner => OneOwner'
    BY <2>3, Zenon DEF OneOwner
  <2>. QED
    BY <2>3, <2>4, <2>5, <2>6, <2>7, Zenon DEF ClaimsInv
<1>. QED
  BY <1>1, <1>2, Zenon

\* A message arrives.
LEMMA ReadClaims ==
  ASSUME ProbesInv, ProbesTyped', ClaimsInv, NEW h \in Hosts, NEW found, OnRead(h, found)
  PROVE  ClaimsInv'
<1>. USE DEF ProbesInv
<1>1. PICK m \in network :
        /\ m.dest = h
        /\ \/ m.kind = "query" /\ RespondToProbeQuery(h, m)
           \/ m.kind = "response" /\ ProbeOnMessage(h, m, found)
  BY Zenon DEF OnRead
<1>2. m.src \in Hosts /\ m.name \in Nat /\ \A r \in network : r.due >= 0
  BY Zenon DEF ProbesTyped, ProbeMessage, ClaimsInv, ProbesTimed
<1>3. CASE m.kind = "query" /\ RespondToProbeQuery(h, m)
  <2>0. UNCHANGED <<completed, lost>>
    BY <1>3, Zenon DEF RespondToProbeQuery
  <2>1. CASE m.name \in completed[h]
    <3>1. /\ network' = (network \ {m}) \cup Datagrams("response", h, {m.src}, m.name)
          /\ UNCHANGED probe
      BY <1>3, <2>1, Zenon DEF RespondToProbeQuery, IsDomainClaimed
    <3>2. Datagrams("response", h, {m.src}, m.name)
            = {ProbeMail("response", h, m.src, m.name, NetworkDelay)}
      BY Zenon DEF Datagrams, ProbeMail
    <3>3. \A r \in network' : r.due >= 0
      <4>1. ProbeMail("response", h, m.src, m.name, NetworkDelay).due >= 0
        BY MessageFacts, ProbeConstants
      <4>. QED
        BY <1>2, <3>1, <3>2, <4>1, Zenon
    <3>4. ~(probe[h] # none /\ probe[h].target_name = m.name)
      BY <2>1, Zenon DEF ClaimsInv, ProbesTimed
    <3>. QED
      BY <1>1, <2>0, <3>1, <3>2, <3>3, <3>4, HeardClaims, Zenon
  <2>2. CASE m.name \notin completed[h]
    <3>1. network' = network \ {m} /\ probe' = TiebreakSimultaneousProbes(h, m)
      BY <1>3, <2>2, Zenon DEF RespondToProbeQuery, IsDomainClaimed
    <3>2. CASE probe[h] # none /\ probe[h].target_name = m.name /\ h < m.src
      <4>1. probe' = [probe EXCEPT ![h] = Postponed(probe[h])]
        BY <3>1, <3>2, Zenon DEF TiebreakSimultaneousProbes
      <4>2. /\ probe'[h] = Postponed(probe[h])
            /\ \A g \in Hosts \ {h} : probe'[g] = probe[g]
        BY <4>1, Zenon DEF ProbesTyped
      <4>3. /\ Postponed(probe[h]).successful_probe_queries = 0
            /\ Postponed(probe[h]).alarm >= 0
            /\ Postponed(probe[h]).target_name = probe[h].target_name
        <5>1. probe[h] \in Probe
          BY <3>2, Zenon DEF ProbesTyped
        <5>. QED
          BY <5>1, ProbeConstants DEF Postponed, Probe
      <4>4. \A r \in network \ network' : r = m
        BY <3>1, Zenon
      <4>. QED
        BY <1>1, <2>0, <2>2, <3>1, <3>2, <4>2, <4>3, <4>4, RestartClaims, Zenon
    <3>3. CASE ~(probe[h] # none /\ probe[h].target_name = m.name /\ h < m.src)
      <4>1. UNCHANGED probe
        BY <3>1, <3>3, Zenon DEF TiebreakSimultaneousProbes
      <4>. QED
        BY <1>1, <1>2, <1>3, <2>0, <2>2, <3>1, <3>3, <4>1, HeardClaims, Zenon
    <3>. QED
      BY <3>2, <3>3, Zenon
  <2>. QED
    BY <2>1, <2>2, Zenon
<1>4. CASE m.kind = "response" /\ ProbeOnMessage(h, m, found)
  <2>0. UNCHANGED <<completed, lost>> /\ network' = network \ {m}
    BY <1>4, Zenon DEF ProbeOnMessage
  <2>1. CASE probe[h] # none /\ probe[h].target_name = m.name
    <3>1. OnProbeFailure(h, found)
      BY <1>4, <2>1, Zenon DEF ProbeOnMessage
    <3>2. /\ \A g \in Hosts \ {h} : probe'[g] = probe[g]
          /\ probe'[h] # none => /\ probe'[h].successful_probe_queries = 0
                                 /\ probe'[h].alarm >= 0
                                 /\ probe'[h].target_name \notin completed[h]
      <4>1. CASE probe' = [probe EXCEPT ![h] = none]
        BY <4>1, Zenon DEF ProbesTyped
      <4>2. CASE /\ m.name + 1 \notin completed[h]
                 /\ \E delay \in 0 .. ProbeDelay :
                      probe' = [probe EXCEPT ![h] = NewProbe(m.name + 1, delay)]
        BY <4>2, ProbeConstants DEF ProbesTyped, NewProbe
      <4>. QED
        BY <2>1, <3>1, <4>1, <4>2, Zenon DEF OnProbeFailure, IsDomainClaimed
    <3>3. \A r \in network \ network' : r = m
      BY <2>0, Zenon
    <3>. QED
      BY <1>1, <1>4, <2>0, <3>2, <3>3, RestartClaims, Zenon
  <2>2. CASE ~(probe[h] # none /\ probe[h].target_name = m.name)
    <3>1. UNCHANGED probe
      BY <1>4, <2>2, Zenon DEF ProbeOnMessage
    <3>. QED
      BY <1>1, <1>2, <1>4, <2>0, <2>2, <3>1, HeardClaims, Zenon
  <2>. QED
    BY <2>1, <2>2, Zenon
<1>. QED
  BY <1>1, <1>3, <1>4, Zenon

\* The claims' invariant holds at the start, and every step keeps it.
LEMMA InitClaims == DnsSdInit => ClaimsInv
<1>. SUFFICES ASSUME DnsSdInit PROVE ClaimsInv
  BY Zenon
<1>1. /\ \A h \in Hosts : probe[h] = none /\ completed[h] = {}
      /\ network = {} /\ lost = 0
  BY Zenon DEF DnsSdInit, ProbeInit
<1>2. ProbesTimed
  BY <1>1, Zenon DEF ProbesTimed
<1>3. TieBreaksAhead /\ ConflictsAhead /\ OneOwner
  BY <1>1, Zenon DEF TieBreaksAhead, TieBreak, ConflictsAhead, Conflict, OneOwner
<1>. QED
  BY <1>2, <1>3, Zenon DEF ClaimsInv

\* Every step keeps the claims' invariant.
LEMMA NextClaims == PublisherInv /\ PublisherInv' /\ ClaimsInv /\ [DnsSdNext]_dnsSdVars => ClaimsInv'
<1>. SUFFICES ASSUME PublisherInv, PublisherInv', ClaimsInv, [DnsSdNext]_dnsSdVars PROVE ClaimsInv'
  BY Zenon
<1>0. ProbesInv /\ ProbesTyped /\ ProbesTyped'
  BY Zenon DEF PublisherInv, ProbesInv
<1>1. ASSUME NEW h \in Hosts, Register(h) PROVE ClaimsInv'
  <2>1. PICK delay \in 0 .. ProbeDelay : probe' = StartedProbes(h, delay)
    BY <1>1, Zenon DEF Register
  <2>2. UNCHANGED <<completed, network, lost>>
    BY <1>1, Zenon DEF Register
  <2>3. CASE probe' = probe
    BY <2>2, <2>3, Zenon DEF ClaimsInv, ProbesTimed, TieBreaksAhead, ConflictsAhead, OneOwner
  <2>4. CASE 0 \notin completed[h] /\ probe' = [probe EXCEPT ![h] = NewProbe(0, delay)]
    <3>1. /\ \A g \in Hosts \ {h} : probe'[g] = probe[g]
          /\ probe'[h].successful_probe_queries = 0
          /\ probe'[h].alarm >= 0
          /\ probe'[h].target_name \notin completed[h]
      BY <1>0, <2>4, ProbeConstants DEF ProbesTyped, NewProbe
    <3>. QED
      BY <1>0, <2>2, <3>1, RestartClaims, Zenon
  <2>. QED
    BY <2>1, <2>3, <2>4, Zenon DEF StartedProbes, IsDomainClaimed
<1>2. CASE UNCHANGED probeVars
  BY <1>2, Zenon DEF probeVars, ClaimsInv, ProbesTimed, TieBreaksAhead, ConflictsAhead, OneOwner
<1>3. ASSUME NEW h \in Hosts, Step(h) PROVE ClaimsInv'
  <2>1. PICK found : ProbeOnce(h, found) \/ OnRead(h, found)
    BY <1>3, Zenon DEF Step
  <2>2. CASE ProbeOnce(h, found)
    BY <1>0, <2>2, QueryClaims, SuccessClaims, Zenon DEF ProbeOnce
  <2>3. CASE OnRead(h, found)
    BY <1>0, <2>3, ReadClaims, Zenon
  <2>. QED
    BY <2>1, <2>2, <2>3, Zenon
<1>4. CASE Lose \/ Duplicate \/ Tick
  BY <1>0, <1>4, NetworkClaims, TickClaims, Zenon
<1>. QED
  BY <1>1, <1>2, <1>3, <1>4, Zenon DEF DnsSdNext, Progress, DeregisterAll, dnsSdVars

\* For any number of hosts that probe for the same name, however their queries
\* cross and however often one defers to another: as long as no message is
\* lost, ProbeOnce() of one host never claims a name that another has claimed.
\* A host sends at least three queries, and the network takes less than the
\* delay between two of them for a query and its response.
THEOREM NamesHaveOneOwner == DnsSdSpec => []OneOwner
<1>1. ClaimsInv => OneOwner
  BY Zenon DEF ClaimsInv, OneOwner
<1>. QED
  BY <1>1, InitPublisherInv, NextPublisherInv, InitClaims, NextClaims, PTL DEF DnsSdSpec

-----------------------------------------------------------------------------
(* CastApps *)

Ids == Int \cup {none}

ConnectionType == [local_id : Ids, peer_id : Ids, socket_id : Sockets]

AgentType ==
  [up : BOOLEAN, registered : SUBSET Apps, idle_screen_app : Apps \cup {none},
   launched_app : Apps \cup {none}, launched_via : AllAppIds \cup {none},
   session : Ids, socket : Sockets \cup {none}, source_id : Ids,
   connections : SUBSET ConnectionType, sessions : Nat]

\* What agent state a is like while the given sockets are open.  Only a launched
\* application has a client with connections of its own.
Sound(a, open) ==
  /\ a \in AgentType
  /\ a.idle_screen_app \in a.registered \cup {none}
  /\ a.launched_app = none => a.source_id = none
  /\ \A c \in a.connections :
       /\ c.socket_id \in open
       /\ c.local_id = kPlatformId \/ (c.local_id = a.source_id /\ c.local_id # none)

\* An application that is not the idle screen has an open socket.
Homed(a, open) ==
  a.launched_app \notin {none, a.idle_screen_app} => a.socket \in open

AtHome(a, open) == Sound(a, open) /\ Homed(a, open)

\* The registrations are left alone, and so is the process.
SameApps(a, b) ==
  /\ b.up = a.up /\ b.registered = a.registered
  /\ b.idle_screen_app = a.idle_screen_app

-----------------------------------------------------------------------------
(* Switching applications *)

\* Resetting the client leaves the connections of the platform.
LEMMA ResetClientFacts ==
  ASSUME NEW open, NEW a, Sound(a, open)
  PROVE  LET b == ResetClient(a)
         IN  /\ Sound(b, open) /\ SameApps(a, b) /\ b.source_id = none
             /\ b.launched_app = a.launched_app /\ b.socket = a.socket
<1>. DEFINE cs == RemoveConnectionsByLocalId(a.connections, a.source_id)
            b == ResetClient(a)
<1>1. cs \in SUBSET ConnectionType /\ \A c \in cs : c \in a.connections /\ c.local_id # a.source_id
  BY Zenon DEF RemoveConnectionsByLocalId, Sound, AgentType
<1>. HIDE DEF cs
<1>2. b = [[a EXCEPT !.source_id = none] EXCEPT !.connections = cs]
  BY Zenon DEF ResetClient, cs, Sound, AgentType
<1>3. /\ b \in AgentType /\ SameApps(a, b) /\ b.source_id = none
      /\ b.launched_app = a.launched_app /\ b.socket = a.socket /\ b.connections = cs
  BY <1>1, <1>2, Zenon DEF Sound, AgentType, Ids, SameApps
<1>. HIDE DEF b
<1>4. Sound(b, open)
  BY <1>1, <1>3, Zenon DEF Sound, SameApps
<1>. QED
  BY <1>3, <1>4, Zenon DEF b

\* SetSocket() resets the client and keeps the applications.
LEMMA SetSocketFacts ==
  ASSUME NEW open, NEW a, Sound(a, open), NEW socket \in Sockets \cup {none}
  PROVE  LET b == SetSocket(a, socket)
         IN  /\ Sound(b, open) /\ SameApps(a, b) /\ b.source_id = none
             /\ b.launched_app = a.launched_app /\ b.socket = socket
<1>. DEFINE r == ResetClient(a)
            b == SetSocket(a, socket)
<1>1. /\ Sound(r, open) /\ SameApps(a, r) /\ r.source_id = none
      /\ r.launched_app = a.launched_app
  BY ResetClientFacts, Zenon
<1>2. b = [r EXCEPT !.socket = socket]
  BY Zenon DEF SetSocket
<1>. HIDE DEF r, b
<1>3. /\ b \in AgentType /\ b.up = r.up /\ b.registered = r.registered
      /\ b.idle_screen_app = r.idle_screen_app /\ b.source_id = r.source_id
      /\ b.launched_app = r.launched_app /\ b.socket = socket
      /\ b.connections = r.connections
  BY <1>1, <1>2 DEF Sound, AgentType
<1>. QED
  BY <1>1, <1>3, Zenon DEF Sound, SameApps, b

\* What is left when the launched application is stopped.
LEMMA StopLaunchedFacts ==
  ASSUME NEW open, NEW a, Sound(a, open)
  PROVE  LET b == StopLaunched(a)
         IN  /\ Sound(b, open) /\ SameApps(a, b)
             /\ b.launched_app = none /\ b.source_id = none
<1>. DEFINE r == SetSocket(a, none)
            b == StopLaunched(a)
<1>1. CASE a.launched_app = none
  BY <1>1, Zenon DEF StopLaunched, Sound, SameApps
<1>2. CASE a.launched_app # none
  <2>1. Sound(r, open) /\ SameApps(a, r) /\ r.source_id = none
    BY SetSocketFacts
  <2>2. b = [[[r EXCEPT !.launched_app = none] EXCEPT !.launched_via = none]
               EXCEPT !.session = none]
    BY <1>2, Zenon DEF StopLaunched
  <2>. HIDE DEF r, b
  <2>3. /\ b \in AgentType /\ b.up = r.up /\ b.registered = r.registered
        /\ b.idle_screen_app = r.idle_screen_app /\ b.source_id = r.source_id
        /\ b.launched_app = none /\ b.connections = r.connections
    <3>1. r \in AgentType /\ none \in Ids
      BY <2>1, Zenon DEF Sound, Ids
    <3>. QED
      BY <2>2, <3>1, Zenon DEF AgentType
  <2>. QED
    BY <2>1, <2>3, Zenon DEF Sound, SameApps, b
<1>. QED
  BY <1>1, <1>2

\* Launching an application.
LEMMA LaunchFacts ==
  ASSUME NEW open, NEW a, Sound(a, open), a.source_id = none,
         NEW app \in Apps, NEW id \in AllAppIds, NEW b \in Launch(a, app, id)
  PROVE  /\ Sound(b, open) /\ SameApps(a, b)
         /\ b.launched_app = app /\ b.socket = a.socket
<1>0. none \notin Int /\ none \notin Apps /\ MaxSessions \in Nat
  BY AppsAssumption, Zenon
<1>1. CASE app \notin MessagingApps
  <2>1. b = [[a EXCEPT !.launched_app = app] EXCEPT !.launched_via = id]
    BY <1>1, Zenon DEF Launch
  <2>2. /\ b \in AgentType /\ b.up = a.up /\ b.registered = a.registered
        /\ b.idle_screen_app = a.idle_screen_app /\ b.source_id = a.source_id
        /\ b.launched_app = app /\ b.connections = a.connections
        /\ b.socket = a.socket
    BY <2>1, Zenon DEF Sound, AgentType
  <2>. QED
    BY <1>0, <2>2, Zenon DEF Sound, SameApps
<1>2. CASE app \in MessagingApps
  <2>1. PICK n \in {a.sessions + 1} \intersect (1 .. MaxSessions) :
          b = [[[[[a EXCEPT !.launched_app = app] EXCEPT !.launched_via = id]
                    EXCEPT !.session = n] EXCEPT !.source_id = n]
                    EXCEPT !.sessions = n]
    BY <1>2, Zenon DEF Launch
  <2>2. n \in Nat /\ n \in Ids /\ n # none
    BY <1>0 DEF Ids
  <2>3. /\ b \in AgentType /\ b.up = a.up /\ b.registered = a.registered
        /\ b.idle_screen_app = a.idle_screen_app
        /\ b.launched_app = app /\ b.connections = a.connections
        /\ b.socket = a.socket
    BY <2>1, <2>2, Zenon DEF Sound, AgentType
  <2>. QED
    BY <1>0, <2>3, Zenon DEF Sound, SameApps
<1>. QED
  BY <1>1, <1>2, Zenon

\* The first app id of an application is registered for that one only.
LEMMA FirstAppIdFacts ==
  ASSUME NEW app \in Apps
  PROVE  /\ GetFirstAppId(app) \in AllAppIds
         /\ GetFirstAppId(app) \in Range(AppIds[app])
         /\ \A other \in Apps : GetFirstAppId(app) \in Range(AppIds[other]) => other = app
<1>1. AppIds[app] \in Seq(AllAppIds) /\ AppIds[app] # <<>> /\ app # none
  BY AppsAssumption, Zenon
<1>2. GetFirstAppId(app) = AppIds[app][1] /\ 1 \in DOMAIN AppIds[app]
  BY <1>1 DEF GetFirstAppId
<1>3. GetFirstAppId(app) \in Range(AppIds[app])
  BY <1>2, Zenon DEF Range
<1>. QED
  BY <1>3, AppsAssumption, Zenon DEF AllAppIds

\* After LaunchOrFallBack() either the application that was asked for runs, on
\* the socket that was given, or the idle screen, or nothing.
LEMMA LaunchOrFallBackFacts ==
  ASSUME NEW open, NEW a, Sound(a, open), a.launched_app = none, a.source_id = none,
         NEW desired \in Apps, NEW id \in AllAppIds, NEW socket \in Sockets \cup {none},
         NEW o \in LaunchOrFallBack(a, desired, id, socket)
  PROVE  /\ Sound(o.agent, open) /\ SameApps(a, o.agent)
         /\ \/ o.agent.launched_app \in {none, a.idle_screen_app}
            \/ /\ o.agent.launched_app = desired
               /\ socket # none => o.agent.socket = socket
<1>. DEFINE ready == IF socket = none THEN a ELSE SetSocket(a, socket)
            failed == SetSocket(ready, none)
            fallback == IF desired = a.idle_screen_app THEN none ELSE a.idle_screen_app
<1>1. /\ Sound(ready, open) /\ SameApps(a, ready) /\ ready.source_id = none
      /\ ready.launched_app = none
      /\ socket # none => ready.socket = socket
  <2>1. CASE socket = none
    BY <2>1, Zenon DEF SameApps
  <2>2. CASE socket # none
    BY <2>2, SetSocketFacts
  <2>. QED
    BY <2>1, <2>2, Zenon
<1>. HIDE DEF ready
<1>2. /\ Sound(failed, open) /\ SameApps(a, failed) /\ failed.source_id = none
      /\ failed.launched_app = none
  <2>1. none \in Sockets \cup {none}
    BY Zenon
  <2>. QED
    BY <1>1, <2>1, SetSocketFacts DEF SameApps
<1>. HIDE DEF failed
<1>3. \/ \E b \in Launch(ready, desired, id) : o = Outcome(b, FALSE, TRUE)
      \/ o = Outcome(failed, TRUE, TRUE)
      \/ /\ fallback # none
         /\ \E b \in Launch(failed, fallback, GetFirstAppId(fallback)) :
              o = Outcome(b, TRUE, TRUE)
  BY Zenon DEF LaunchOrFallBack, ready, failed
<1>4. ASSUME NEW b \in Launch(ready, desired, id), o = Outcome(b, FALSE, TRUE)
      PROVE  /\ Sound(o.agent, open) /\ SameApps(a, o.agent)
             /\ o.agent.launched_app = desired
             /\ socket # none => o.agent.socket = socket
  <2>1. o.agent = b
    BY <1>4, Zenon DEF Outcome
  <2>2. /\ Sound(b, open) /\ SameApps(ready, b)
        /\ b.launched_app = desired /\ b.socket = ready.socket
    BY <1>1, LaunchFacts
  <2>. QED
    BY <1>1, <2>1, <2>2, Zenon DEF SameApps
<1>5. CASE o = Outcome(failed, TRUE, TRUE)
  BY <1>2, <1>5, Zenon DEF Outcome
<1>6. ASSUME fallback # none,
             NEW b \in Launch(failed, fallback, GetFirstAppId(fallback)),
             o = Outcome(b, TRUE, TRUE)
      PROVE  /\ Sound(o.agent, open) /\ SameApps(a, o.agent)
             /\ o.agent.launched_app = a.idle_screen_app
  <2>1. o.agent = b
    BY <1>6, Zenon DEF Outcome
  <2>2. fallback = a.idle_screen_app /\ fallback \in Apps
    BY <1>6, Zenon DEF Sound, AgentType
  <2>3. GetFirstAppId(fallback) \in AllAppIds
    BY <2>2, FirstAppIdFacts, Zenon
  <2>. HIDE DEF fallback
  <2>4. Sound(b, open) /\ SameApps(failed, b) /\ b.launched_app = fallback
    BY <1>2, <1>6, <2>2, <2>3, LaunchFacts
  <2>. QED
    BY <1>2, <2>1, <2>2, <2>4, Zenon DEF SameApps
<1>. QED
  BY <1>3, <1>4, <1>5, <1>6, Zenon

\* Switching from one application to another.
LEMMA SwitchFacts ==
  ASSUME NEW open, NEW a, AtHome(a, open), NEW s \in Sockets, s \in open, NEW id,
         NEW o \in SwitchToApplication(a, id, s)
  PROVE  AtHome(o.agent, open) /\ SameApps(a, o.agent)
<1>. DEFINE b == StopLaunched(a)
<1>0. Sound(a, open) /\ s # none
  BY AppsAssumption, Zenon DEF AtHome
<1>1. /\ Sound(b, open) /\ SameApps(a, b)
      /\ b.launched_app = none /\ b.source_id = none
  BY <1>0, StopLaunchedFacts, Zenon
<1>. HIDE DEF b
<1>2. \/ \E error : o = Outcome(a, error, FALSE)
      \/ o = Outcome(b, FALSE, a.launched_app # none)
      \/ \E app \in Registered(a, id) : o \in LaunchOrFallBack(b, app, id, s)
  BY Zenon DEF SwitchToApplication, b
<1>3. ASSUME NEW error, o = Outcome(a, error, FALSE)
      PROVE  AtHome(o.agent, open) /\ SameApps(a, o.agent)
  BY <1>3, Zenon DEF Outcome, SameApps
<1>4. CASE o = Outcome(b, FALSE, a.launched_app # none)
  BY <1>1, <1>4, Zenon DEF Outcome, AtHome, Homed
<1>5. ASSUME NEW app \in Registered(a, id), o \in LaunchOrFallBack(b, app, id, s)
      PROVE  AtHome(o.agent, open) /\ SameApps(a, o.agent)
  <2>1. app \in Apps /\ id \in AllAppIds
    BY <1>0, Zenon DEF Registered, AllAppIds, Sound, AgentType
  <2>2. /\ Sound(o.agent, open) /\ SameApps(b, o.agent)
        /\ \/ o.agent.launched_app \in {none, b.idle_screen_app}
           \/ o.agent.socket = s
    BY <1>0, <1>1, <1>5, <2>1, LaunchOrFallBackFacts
  <2>. QED
    BY <1>1, <2>2, Zenon DEF AtHome, Homed, SameApps
<1>. QED
  BY <1>2, <1>3, <1>4, <1>5, Zenon

\* GoIdle() leaves the idle screen running, or nothing, wherever it starts.
LEMMA GoIdleFacts ==
  ASSUME NEW open, NEW a, Sound(a, open), NEW o \in GoIdle(a)
  PROVE  /\ AtHome(o.agent, open) /\ SameApps(a, o.agent)
         /\ o.agent.launched_app \in {none, a.idle_screen_app}
<1>. DEFINE b == StopLaunched(a)
            id == GetFirstAppId(a.idle_screen_app)
<1>1. /\ Sound(b, open) /\ SameApps(a, b)
      /\ b.launched_app = none /\ b.source_id = none
  BY StopLaunchedFacts, Zenon
<1>. HIDE DEF b
<1>2. SUFFICES /\ Sound(o.agent, open) /\ SameApps(a, o.agent)
               /\ o.agent.launched_app \in {none, a.idle_screen_app}
  BY Zenon DEF AtHome, Homed, SameApps
<1>3. CASE a.idle_screen_app = none
  <2>1. id = none
    BY <1>3, Zenon DEF GetFirstAppId
  <2>2. o = Outcome(b, FALSE, a.launched_app # none)
    BY <2>1, Zenon DEF GoIdle, SwitchToApplication, b
  <2>. QED
    BY <1>1, <2>2, Zenon DEF Outcome
<1>4. CASE a.idle_screen_app # none
  <2>. DEFINE idle == a.idle_screen_app
  <2>1. /\ idle \in Apps /\ idle \in a.registered /\ a.registered \subseteq Apps
        /\ none \notin AllAppIds
    BY <1>4, AppsAssumption, Zenon DEF Sound, AgentType
  <2>. HIDE DEF idle
  <2>2. /\ id \in AllAppIds /\ id \in Range(AppIds[idle])
        /\ \A other \in Apps : id \in Range(AppIds[other]) => other = idle
    BY <2>1, FirstAppIdFacts, Zenon DEF idle
  <2>. HIDE DEF id
  <2>3. Registered(a, id) = {idle} /\ id # none
    BY <2>1, <2>2, Zenon DEF Registered
  <2>4. \/ a.launched_app = idle /\ o = Outcome(a, FALSE, FALSE)
        \/ o \in LaunchOrFallBack(b, idle, id, none)
    <3>1. o \in SwitchToApplication(a, id, none)
      BY Zenon DEF GoIdle, id
    <3>2. CASE a.launched_app = idle
      BY <2>3, <3>1, <3>2, Zenon DEF SwitchToApplication
    <3>3. CASE a.launched_app # idle
      <4>1. o \in UNION {LaunchOrFallBack(b, app, id, none) : app \in {idle}}
        BY <2>3, <3>1, <3>3, Zenon DEF SwitchToApplication, b
      <4>. QED
        BY <4>1, Zenon
    <3>. QED
      BY <3>2, <3>3, Zenon
  <2>5. CASE a.launched_app = idle /\ o = Outcome(a, FALSE, FALSE)
    BY <2>5, Zenon DEF Outcome, SameApps, idle
  <2>6. CASE o \in LaunchOrFallBack(b, idle, id, none)
    <3>1. none \in Sockets \cup {none}
      BY Zenon
    <3>2. /\ Sound(o.agent, open) /\ SameApps(b, o.agent)
          /\ o.agent.launched_app \in {none, b.idle_screen_app, idle}
      BY <1>1, <2>1, <2>2, <2>6, <3>1, LaunchOrFallBackFacts
    <3>. QED
      BY <1>1, <3>2, Zenon DEF SameApps, idle
  <2>. QED
    BY <2>4, <2>5, <2>6, Zenon
<1>. QED
  BY <1>3, <1>4, Zenon

-----------------------------------------------------------------------------
(* Messages *)

SenderAppIds == UNION {StreamingAppIds[s] : s \in Sockets}

\* An OFFER is addressed to an application.
ReceiverMail ==
  {m \in [type : {"AUTH", "CONNECT", "CLOSE", "LAUNCH", "STOP", "OFFER"},
          source_id : Ids, destination_id : Ids, body : SenderAppIds \cup Ids] :
     m.type = "OFFER" => m.destination_id # none}

Details ==
  [app_id : AllAppIds \cup {none}, session_id : Ids, transport_id : Ids]

\* A CONNECTED comes from the platform or an application.
SenderMail ==
  {m \in [type : {"AUTH", "CONNECTED", "CLOSE", "RECEIVER_STATUS", "LAUNCH_ERROR",
                  "ANSWER"},
          source_id : Ids, destination_id : Ids,
          body : Details \cup BOOLEAN \cup {none}] :
     /\ m.type = "CONNECTED" => m.source_id # none
     /\ m.type = "RECEIVER_STATUS" => m.body \in Details}

CastType ==
  [state : {"idle", "authenticating", "up", "down", "aborted"},
   app_id : SenderAppIds, platform : ConnectionType \cup {none},
   remote : ConnectionType \cup {none}, pending : SUBSET ConnectionType,
   connections : SUBSET ConnectionType, has_launched : BOOLEAN,
   app_session_id : Ids, session : BOOLEAN, streaming : BOOLEAN]

\* The mail is well-formed, and only the receiver's open sockets have any.
MailTyped ==
  /\ ends \in [Sockets -> SUBSET {"sender", "receiver"}]
  /\ toReceiver \in [Sockets -> Seq(ReceiverMail)]
  /\ toSender \in [Sockets -> Seq(SenderMail)]
  /\ \A s \in Sockets : toReceiver[s] # <<>> => s \in OpenSockets

AgentInv ==
  /\ agent \in AgentType
  /\ agent.up => AtHome(agent, OpenSockets)

IInv == MailTyped /\ cast \in [Sockets -> CastType] /\ AgentInv

\* A message to the receiver is a message.
LEMMA ReceiverMessage ==
  ASSUME NEW type \in {"AUTH", "CONNECT", "CLOSE", "LAUNCH", "STOP", "OFFER"},
         NEW source \in Ids, NEW destination \in Ids,
         NEW body \in SenderAppIds \cup Ids,
         type = "OFFER" => destination # none
  PROVE  Message(type, source, destination, body) \in ReceiverMail
BY Zenon DEF Message, ReceiverMail

\* A message to a sender is a message.
LEMMA SenderMessage ==
  ASSUME NEW type \in {"AUTH", "CONNECTED", "CLOSE", "RECEIVER_STATUS",
                       "LAUNCH_ERROR", "ANSWER"},
         NEW source \in Ids, NEW destination \in Ids,
         NEW body \in Details \cup BOOLEAN \cup {none},
         type = "CONNECTED" => source # none,
         type = "RECEIVER_STATUS" => body \in Details
  PROVE  Message(type, source, destination, body) \in SenderMail
<1>. DEFINE m == Message(type, source, destination, body)
<1>1. /\ m.type = type /\ m.source_id = source /\ m.body = body
      /\ m = [type |-> type, source_id |-> source, destination_id |-> destination,
              body |-> body]
  BY Zenon DEF Message
<1>. HIDE DEF m
<1>. QED
  BY <1>1 DEF SenderMail, m

\* A RECEIVER_STATUS is a message to a sender.
LEMMA ReceiverStatusMessage ==
  ASSUME NEW a \in AgentType
  PROVE  /\ ReceiverStatus(a) \in SenderMail
         /\ \A id \in Ids : [ReceiverStatus(a) EXCEPT !.destination_id = id] \in SenderMail
<1>. DEFINE body == [app_id |-> a.launched_via, session_id |-> a.session,
                     transport_id |-> a.source_id]
<1>1. body \in Details /\ kPlatformId \in Ids
  BY DEF AgentType, Details, kPlatformId, Ids
<1>. HIDE DEF body
<1>2. \A id \in Ids : Message("RECEIVER_STATUS", kPlatformId, id, body) \in SenderMail
  BY <1>1, SenderMessage, Zenon
<1>3. ReceiverStatus(a) = Message("RECEIVER_STATUS", kPlatformId, kPlatformId, body)
  BY Zenon DEF ReceiverStatus, body
<1>4. \A id \in Ids : [ReceiverStatus(a) EXCEPT !.destination_id = id]
                        = Message("RECEIVER_STATUS", kPlatformId, id, body)
  BY <1>3 DEF Message
<1>. QED
  BY <1>1, <1>2, <1>3, <1>4, Zenon

\* Sequences of well-formed messages stay so.
LEMMA SeqFacts ==
  ASSUME NEW S, NEW p \in Seq(S), NEW q \in Seq(S)
  PROVE  /\ p \o q \in Seq(S) /\ <<>> \in Seq(S)
         /\ \A m \in S : <<m>> \in Seq(S)
         /\ p # <<>> => Head(p) \in S /\ Tail(p) \in Seq(S)
         /\ \A n \in 0 .. Len(p) : SubSeq(p, 1, n) \in Seq(S)
<1>1. p \o q \in Seq(S) /\ <<>> \in Seq(S)
  OBVIOUS
<1>2. \A m \in S : <<m>> \in Seq(S)
  OBVIOUS
<1>3. p # <<>> => Head(p) \in S /\ Tail(p) \in Seq(S)
  OBVIOUS
<1>4. \A n \in 0 .. Len(p) : SubSeq(p, 1, n) \in Seq(S)
  OBVIOUS
<1>. QED
  BY <1>1, <1>2, <1>3, <1>4, Zenon

-----------------------------------------------------------------------------
(* The receiver *)

\* What a broadcast adds to the messages under way.
LEMMA BroadcastType ==
  ASSUME NEW o, o.agent \in AgentType, NEW sockets
  PROVE  BroadcastReceiverStatus(o, sockets) \in [Sockets -> Seq(SenderMail)]
<1>. DEFINE status == ReceiverStatus(o.agent)
<1>1. status \in SenderMail
  BY ReceiverStatusMessage, Zenon
<1>. HIDE DEF status
<1>2. <<status>> \in Seq(SenderMail) /\ <<>> \in Seq(SenderMail)
  BY <1>1
<1>3. \A s \in Sockets : Replied(s, <<status>>) \in Seq(SenderMail)
  BY <1>2, Zenon DEF Replied
<1>. QED
  BY <1>2, <1>3, Zenon DEF BroadcastReceiverStatus, status

\* What announcing the status does to the messages under way.
LEMMA AnnounceFacts ==
  ASSUME MailTyped, NEW o, o.agent \in AgentType, NEW sockets, Announce(o, sockets)
  PROVE  agent' = o.agent /\ toSender' \in [Sockets -> Seq(SenderMail)]
<1>. DEFINE news == BroadcastReceiverStatus(o, sockets)
<1>1. news \in [Sockets -> Seq(SenderMail)]
  BY BroadcastType, Zenon
<1>2. agent' = o.agent /\ toSender' = [s \in Sockets |-> toSender[s] \o news[s]]
  BY Zenon DEF Announce
<1>. HIDE DEF news
<1>3. \A s \in Sockets : toSender[s] \o news[s] \in Seq(SenderMail)
  BY <1>1 DEF MailTyped
<1>. QED
  BY <1>2, <1>3, Zenon

\* What is left to show for a step of the receiver that closes no socket.
LEMMA ReceiverStep ==
  ASSUME IInv, UNCHANGED <<ends, cast>>,
         agent' \in AgentType, agent'.up => AtHome(agent', OpenSockets),
         toSender' \in [Sockets -> Seq(SenderMail)],
         toReceiver' \in [Sockets -> Seq(ReceiverMail)],
         \A s \in Sockets : toReceiver'[s] # <<>> => toReceiver[s] # <<>>
  PROVE  IInv'
<1>1. OpenSockets' = OpenSockets
  BY Zenon DEF OpenSockets
<1>2. MailTyped'
  BY <1>1, Zenon DEF IInv, MailTyped
<1>3. AgentInv'
  BY <1>1, Zenon DEF AgentInv, AtHome, Sound, Homed, AgentType, ConnectionType, Ids, kPlatformId,
              AllAppIds
<1>. QED
  BY <1>2, <1>3, Zenon DEF IInv, CastType, ConnectionType, Ids, SenderAppIds

\* RegisterApplication() keeps the invariant.
LEMMA RegisterApplicationInv ==
  ASSUME IInv, NEW app \in Apps, RegisterApplication(app), UNCHANGED cast
  PROVE  IInv'
<1>. DEFINE idle == IF app \in IdleScreenApps THEN app ELSE agent.idle_screen_app
            a == [agent EXCEPT !.registered = agent.registered \cup {app},
                               !.idle_screen_app = idle]
<1>0. /\ agent \in AgentType /\ agent.up /\ AtHome(agent, OpenSockets) /\ MailTyped
      /\ app \in IdleScreenApps => agent.idle_screen_app = none
      /\ UNCHANGED <<ends, toReceiver>>
  BY Zenon DEF IInv, AgentInv, RegisterApplication, AtEase
<1>1. /\ a \in AgentType /\ a.up /\ a.registered = agent.registered \cup {app}
      /\ a.idle_screen_app = idle /\ a.launched_app = agent.launched_app
      /\ a.source_id = agent.source_id /\ a.connections = agent.connections
      /\ a.socket = agent.socket
  <2>1. idle \in Apps \cup {none} /\ agent.registered \cup {app} \in SUBSET Apps
    BY <1>0, Zenon DEF AgentType
  <2>. HIDE DEF idle
  <2>. QED
    BY <1>0, <2>1, Zenon DEF AgentType
<1>2. IF app \in IdleScreenApps /\ a.launched_app = none
        THEN \E o \in GoIdle(a) : Announce(o, OpenSockets)
        ELSE agent' = a /\ UNCHANGED toSender
  BY Zenon DEF RegisterApplication
<1>. HIDE DEF a
<1>3. AtHome(a, OpenSockets)
  <2>1. Sound(a, OpenSockets)
    BY <1>0, <1>1, Zenon DEF AtHome, Sound
  <2>2. Homed(a, OpenSockets)
    BY <1>0, <1>1, Zenon DEF AtHome, Homed
  <2>. QED
    BY <2>1, <2>2, Zenon DEF AtHome
<1>4. CASE agent' = a /\ UNCHANGED toSender
  BY <1>0, <1>1, <1>3, <1>4, ReceiverStep, Zenon DEF MailTyped
<1>5. ASSUME NEW o \in GoIdle(a), Announce(o, OpenSockets)
      PROVE  IInv'
  <2>0. Sound(a, OpenSockets)
    BY <1>3, Zenon DEF AtHome
  <2>1. AtHome(o.agent, OpenSockets) /\ o.agent \in AgentType
    BY <1>5, <2>0, GoIdleFacts DEF AtHome, Sound
  <2>2. agent' = o.agent /\ toSender' \in [Sockets -> Seq(SenderMail)]
    BY <1>0, <1>5, <2>1, AnnounceFacts, Zenon
  <2>. QED
    BY <1>0, <2>1, <2>2, ReceiverStep, Zenon DEF MailTyped
<1>. QED
  BY <1>2, <1>4, <1>5, Zenon

\* UnregisterApplication() keeps the invariant.
LEMMA UnregisterApplicationInv ==
  ASSUME IInv, NEW app \in Apps, UnregisterApplication(app), UNCHANGED cast
  PROVE  IInv'
<1>. DEFINE idle == IF agent.idle_screen_app = app THEN none ELSE agent.idle_screen_app
            a == [agent EXCEPT !.registered = agent.registered \ {app},
                               !.idle_screen_app = idle]
<1>0. /\ agent \in AgentType /\ agent.up /\ AtHome(agent, OpenSockets) /\ MailTyped
      /\ UNCHANGED <<ends, toReceiver>>
  BY Zenon DEF IInv, AgentInv, UnregisterApplication, AtEase
<1>1. /\ a \in AgentType /\ a.up /\ a.registered = agent.registered \ {app}
      /\ a.idle_screen_app = idle /\ a.launched_app = agent.launched_app
      /\ a.source_id = agent.source_id /\ a.connections = agent.connections
      /\ a.socket = agent.socket
  <2>1. idle \in Apps \cup {none} /\ agent.registered \ {app} \in SUBSET Apps
    BY <1>0, Zenon DEF AgentType
  <2>. HIDE DEF idle
  <2>. QED
    BY <1>0, <2>1, Zenon DEF AgentType
<1>2. IF a.launched_app = app
        THEN \E o \in GoIdle(a) : Announce(o, OpenSockets)
        ELSE agent' = a /\ UNCHANGED toSender
  BY Zenon DEF UnregisterApplication
<1>. HIDE DEF a
<1>3. Sound(a, OpenSockets)
  BY <1>0, <1>1, Zenon DEF AtHome, Sound
<1>4. CASE a.launched_app # app /\ agent' = a /\ UNCHANGED toSender
  <2>1. AtHome(a, OpenSockets)
    BY <1>0, <1>1, <1>3, <1>4, Zenon DEF AtHome, Homed
  <2>. QED
    BY <1>0, <1>1, <1>4, <2>1, ReceiverStep, Zenon DEF MailTyped
<1>5. ASSUME NEW o \in GoIdle(a), Announce(o, OpenSockets)
      PROVE  IInv'
  <2>1. AtHome(o.agent, OpenSockets) /\ o.agent \in AgentType
    BY <1>3, <1>5, GoIdleFacts DEF AtHome, Sound
  <2>2. agent' = o.agent /\ toSender' \in [Sockets -> Seq(SenderMail)]
    BY <1>0, <1>5, <2>1, AnnounceFacts, Zenon
  <2>. QED
    BY <1>0, <2>1, <2>2, ReceiverStep, Zenon DEF MailTyped
<1>. QED
  BY <1>2, <1>4, <1>5, Zenon

\* StopApplicationIfRunning() keeps the invariant.
LEMMA StopApplicationIfRunningInv ==
  ASSUME IInv, NEW app \in Apps, StopApplicationIfRunning(app), UNCHANGED cast
  PROVE  IInv'
<1>0. /\ AtHome(agent, OpenSockets) /\ MailTyped /\ UNCHANGED <<ends, toReceiver>>
  BY Zenon DEF IInv, AgentInv, StopApplicationIfRunning, AtEase
<1>1. PICK o \in GoIdle(agent) : Announce(o, OpenSockets)
  BY SMTT(60) DEF StopApplicationIfRunning
<1>2. AtHome(o.agent, OpenSockets) /\ o.agent \in AgentType
  BY <1>0, GoIdleFacts DEF AtHome, Sound
<1>3. agent' = o.agent /\ toSender' \in [Sockets -> Seq(SenderMail)]
  BY <1>0, <1>1, <1>2, AnnounceFacts, Zenon
<1>. QED
  BY <1>0, <1>2, <1>3, ReceiverStep, Zenon DEF MailTyped

\* Taking the next message.
LEMMA TakeFacts ==
  ASSUME IInv, NEW s \in Sockets, NEW type, Take(s, type)
  PROVE  /\ agent.up /\ s \in OpenSockets /\ UNCHANGED ends
         /\ AtHome(agent, OpenSockets) /\ agent \in AgentType
         /\ Head(toReceiver[s]) \in ReceiverMail /\ Head(toReceiver[s]).type = type
         /\ toReceiver' \in [Sockets -> Seq(ReceiverMail)]
         /\ \A t \in Sockets : toReceiver'[t] # <<>> => toReceiver[t] # <<>>
<1>1. toReceiver[s] \in Seq(ReceiverMail) /\ toReceiver[s] # <<>>
  BY Zenon DEF IInv, MailTyped, Take
<1>2. Head(toReceiver[s]) \in ReceiverMail /\ Tail(toReceiver[s]) \in Seq(ReceiverMail)
  BY <1>1, SeqFacts, Zenon
<1>3. toReceiver' = [toReceiver EXCEPT ![s] = Tail(toReceiver[s])]
  BY Zenon DEF Take
<1>4. toReceiver \in [Sockets -> Seq(ReceiverMail)] /\ s \in OpenSockets
  BY <1>1, Zenon DEF IInv, MailTyped
<1>5. /\ toReceiver' \in [Sockets -> Seq(ReceiverMail)]
      /\ \A t \in Sockets : toReceiver'[t] # <<>> => toReceiver[t] # <<>>
  BY <1>1, <1>2, <1>3, <1>4, Zenon
<1>. QED
  BY <1>1, <1>2, <1>4, <1>5, Zenon DEF IInv, AgentInv, Take

\* Taking a message and replying to it.
LEMMA ReplyFacts ==
  ASSUME IInv, NEW s \in Sockets, NEW type, NEW m, NEW body, Reply(s, type, m, body),
         Message(type, m.destination_id, m.source_id, body) \in SenderMail
  PROVE  toSender' \in [Sockets -> Seq(SenderMail)]
<1>. DEFINE mail == Message(type, m.destination_id, m.source_id, body)
<1>1. mail \in SenderMail
  BY Zenon
<1>2. toSender' = [toSender EXCEPT ![s] = toSender[s] \o Replied(s, <<mail>>)]
  BY Zenon DEF Reply
<1>. HIDE DEF mail
<1>3. Replied(s, <<mail>>) \in Seq(SenderMail)
  BY <1>1 DEF Replied
<1>4. toSender \in [Sockets -> Seq(SenderMail)]
  BY Zenon DEF IInv, MailTyped
<1>5. toSender[s] \o Replied(s, <<mail>>) \in Seq(SenderMail)
  BY <1>3, <1>4
<1>. QED
  BY <1>2, <1>4, <1>5, Zenon

\* The authentication challenge keeps the invariant.
LEMMA HandleAuthChallengeInv ==
  ASSUME IInv, NEW s \in Sockets, HandleAuthChallenge(s), UNCHANGED cast
  PROVE  IInv'
<1>. DEFINE m == Head(toReceiver[s])
<1>1. Take(s, "AUTH") /\ Reply(s, "AUTH", m, none) /\ UNCHANGED agent
  BY Zenon DEF HandleAuthChallenge
<1>2. m \in ReceiverMail
  BY <1>1, TakeFacts, Zenon
<1>3. m.source_id \in Ids /\ m.destination_id \in Ids
  BY <1>2, Zenon DEF ReceiverMail
<1>. HIDE DEF m
<1>4. Message("AUTH", m.destination_id, m.source_id, none) \in SenderMail
  BY <1>3, SenderMessage, Zenon
<1>5. toSender' \in [Sockets -> Seq(SenderMail)]
  BY <1>1, <1>4, ReplyFacts, Zenon
<1>. QED
  BY <1>1, <1>5, TakeFacts, ReceiverStep, Zenon

\* The connections change, to others that lead somewhere.
LEMMA Reconnected ==
  ASSUME NEW open, NEW a, AtHome(a, open),
         NEW cs \in SUBSET ConnectionType,
         \A c \in cs : /\ c.socket_id \in open
                       /\ \/ c.local_id = kPlatformId
                          \/ c.local_id = a.source_id /\ c.local_id # none
  PROVE  LET b == [a EXCEPT !.connections = cs]
         IN  AtHome(b, open) /\ b \in AgentType /\ SameApps(a, b)
<1>. DEFINE b == [a EXCEPT !.connections = cs]
<1>1. /\ b \in AgentType /\ b.up = a.up /\ b.registered = a.registered
      /\ b.idle_screen_app = a.idle_screen_app /\ b.launched_app = a.launched_app
      /\ b.source_id = a.source_id /\ b.socket = a.socket /\ b.connections = cs
  BY Zenon DEF AtHome, Sound, AgentType
<1>. HIDE DEF b
<1>2. Sound(b, open) /\ Homed(b, open)
  BY <1>1, Zenon DEF AtHome, Sound, Homed
<1>. QED
  BY <1>1, <1>2, Zenon DEF AtHome, SameApps, b

\* A connection over an open socket may be added.
LEMMA Added ==
  ASSUME NEW open, NEW a, AtHome(a, open), NEW c \in ConnectionType,
         c.socket_id \in open,
         c.local_id = kPlatformId \/ (c.local_id = a.source_id /\ c.local_id # none)
  PROVE  LET b == [a EXCEPT !.connections = AddConnection(a.connections, c)]
         IN  AtHome(b, open) /\ b \in AgentType
<1>. DEFINE cs == AddConnection(a.connections, c)
<1>1. cs = a.connections \/ cs = a.connections \cup {c}
  BY Zenon DEF AddConnection
<1>. HIDE DEF cs
<1>2. /\ cs \in SUBSET ConnectionType
      /\ \A d \in cs : /\ d.socket_id \in open
                       /\ \/ d.local_id = kPlatformId
                          \/ d.local_id = a.source_id /\ d.local_id # none
  BY <1>1, Zenon DEF AtHome, Sound, AgentType
<1>. QED
  BY <1>2, Reconnected, Zenon DEF cs

\* CONNECT keeps the invariant.
LEMMA HandleConnectInv ==
  ASSUME IInv, NEW s \in Sockets, HandleConnect(s), UNCHANGED cast
  PROVE  IInv'
<1>. DEFINE m == Head(toReceiver[s])
            c == Connection(m.destination_id, m.source_id, s)
<1>1. /\ Take(s, "CONNECT")
      /\ \/ ~IsConnectionAllowed(m.destination_id) /\ Reply(s, "CLOSE", m, none)
            /\ UNCHANGED agent
         \/ IsConnectionAllowed(m.destination_id) /\ Reply(s, "CONNECTED", m, none)
            /\ agent' = [agent EXCEPT !.connections = AddConnection(agent.connections, c)]
  BY Zenon DEF HandleConnect
<1>2. m \in ReceiverMail /\ s \in OpenSockets /\ AtHome(agent, OpenSockets)
  BY <1>1, TakeFacts, Zenon
<1>3. m.source_id \in Ids /\ m.destination_id \in Ids
  BY <1>2, Zenon DEF ReceiverMail
<1>. HIDE DEF m
<1>4. /\ c \in ConnectionType /\ c.socket_id = s /\ c.local_id = m.destination_id
  BY <1>3, Zenon DEF Connection, ConnectionType
<1>. HIDE DEF c
<1>5. CASE Reply(s, "CLOSE", m, none) /\ UNCHANGED agent
  <2>1. Message("CLOSE", m.destination_id, m.source_id, none) \in SenderMail
    BY <1>3, SenderMessage, Zenon
  <2>2. toSender' \in [Sockets -> Seq(SenderMail)]
    BY <1>5, <2>1, ReplyFacts, Zenon
  <2>. QED
    BY <1>1, <1>5, <2>2, TakeFacts, ReceiverStep, Zenon
<1>6. CASE IsConnectionAllowed(m.destination_id) /\ Reply(s, "CONNECTED", m, none)
           /\ agent' = [agent EXCEPT !.connections = AddConnection(agent.connections, c)]
  <2>1. /\ m.destination_id # none
        /\ \/ m.destination_id = kPlatformId
           \/ m.destination_id = agent.source_id
    BY <1>6, AppsAssumption DEF IsConnectionAllowed, kPlatformId
  <2>2. Message("CONNECTED", m.destination_id, m.source_id, none) \in SenderMail
    BY <1>3, <2>1, SenderMessage, Zenon
  <2>3. toSender' \in [Sockets -> Seq(SenderMail)]
    BY <1>6, <2>2, ReplyFacts, Zenon
  <2>4. AtHome(agent', OpenSockets) /\ agent' \in AgentType
    BY <1>2, <1>4, <1>6, <2>1, Added, Zenon
  <2>. QED
    BY <1>1, <2>3, <2>4, TakeFacts, ReceiverStep, Zenon
<1>. QED
  BY <1>1, <1>5, <1>6, Zenon

\* CLOSE keeps the invariant.
LEMMA HandleCloseInv ==
  ASSUME IInv, NEW s \in Sockets, HandleClose(s), UNCHANGED cast
  PROVE  IInv'
<1>. DEFINE m == Head(toReceiver[s])
            cs == agent.connections \ {Connection(m.destination_id, m.source_id, s)}
<1>1. /\ Take(s, "CLOSE") /\ agent' = [agent EXCEPT !.connections = cs]
      /\ UNCHANGED toSender
  BY Zenon DEF HandleClose
<1>2. AtHome(agent, OpenSockets)
  BY <1>1, TakeFacts, Zenon
<1>3. cs \subseteq agent.connections
  BY Zenon
<1>. HIDE DEF cs
<1>4. AtHome(agent', OpenSockets) /\ agent' \in AgentType
  <2>1. /\ cs \in SUBSET ConnectionType
        /\ \A c \in cs : /\ c.socket_id \in OpenSockets
                         /\ \/ c.local_id = kPlatformId
                            \/ c.local_id = agent.source_id /\ c.local_id # none
    BY <1>2, <1>3, Zenon DEF AtHome, Sound, AgentType
  <2>. QED
    BY <1>1, <1>2, <2>1, Reconnected, Zenon
<1>. QED
  BY <1>1, <1>4, TakeFacts, ReceiverStep, Zenon DEF IInv, MailTyped

\* LAUNCH keeps the invariant.
LEMMA HandleLaunchInv ==
  ASSUME IInv, NEW s \in Sockets, HandleLaunch(s), UNCHANGED cast
  PROVE  IInv'
<1>. DEFINE m == Head(toReceiver[s])
<1>1. Take(s, "LAUNCH")
  BY Zenon DEF HandleLaunch
<1>2. m \in ReceiverMail /\ s \in OpenSockets /\ AtHome(agent, OpenSockets)
  BY <1>1, TakeFacts, Zenon
<1>3. m.source_id \in Ids
  BY <1>2, Zenon DEF ReceiverMail
<1>. DEFINE response(o) ==
              IF o.error
                THEN Message("LAUNCH_ERROR", kPlatformId, m.source_id, none)
                ELSE [ReceiverStatus(o.agent) EXCEPT !.destination_id = m.source_id]
            last(o, t) == IF t = s THEN Replied(s, <<response(o)>>) ELSE <<>>
<1>4. PICK o \in SwitchToApplication(agent, m.body, s) :
        /\ agent' = o.agent
        /\ toSender' = [t \in Sockets |->
             toSender[t] \o BroadcastReceiverStatus(o, OpenSockets)[t] \o last(o, t)]
  BY Zenon DEF HandleLaunch
<1>5. AtHome(o.agent, OpenSockets) /\ o.agent \in AgentType
  <2>1. AtHome(o.agent, OpenSockets)
    BY <1>2, SwitchFacts, Zenon
  <2>. QED
    BY <2>1, Zenon DEF AtHome, Sound
<1>6. response(o) \in SenderMail
  <2>1. kPlatformId \in Ids
    BY DEF kPlatformId, Ids
  <2>2. Message("LAUNCH_ERROR", kPlatformId, m.source_id, none) \in SenderMail
    BY <1>3, <2>1, SenderMessage, Zenon
  <2>3. [ReceiverStatus(o.agent) EXCEPT !.destination_id = m.source_id] \in SenderMail
    BY <1>3, <1>5, ReceiverStatusMessage, Zenon
  <2>. QED
    BY <2>2, <2>3, Zenon
<1>. HIDE DEF response
<1>7. \A t \in Sockets : last(o, t) \in Seq(SenderMail)
  BY <1>6 DEF Replied
<1>. HIDE DEF last
<1>. DEFINE news == BroadcastReceiverStatus(o, OpenSockets)
<1>8. news \in [Sockets -> Seq(SenderMail)]
  BY <1>5, BroadcastType, Zenon
<1>. HIDE DEF news
<1>9. toSender \in [Sockets -> Seq(SenderMail)]
  BY Zenon DEF IInv, MailTyped
<1>10. \A t \in Sockets : toSender[t] \o news[t] \o last(o, t) \in Seq(SenderMail)
  <2>. SUFFICES ASSUME NEW t \in Sockets
                PROVE  toSender[t] \o news[t] \o last(o, t) \in Seq(SenderMail)
    BY Zenon
  <2>1. toSender[t] \o news[t] \in Seq(SenderMail)
    BY <1>8, <1>9
  <2>2. last(o, t) \in Seq(SenderMail)
    BY <1>7, Zenon
  <2>. QED
    BY <2>1, <2>2, SeqFacts, Zenon
<1>11. toSender' \in [Sockets -> Seq(SenderMail)]
  BY <1>4, <1>10, Zenon DEF news
<1>. QED
  BY <1>1, <1>4, <1>5, <1>11, TakeFacts, ReceiverStep, Zenon

\* STOP keeps the invariant.
LEMMA HandleStopInv ==
  ASSUME IInv, NEW s \in Sockets, HandleStop(s), UNCHANGED cast
  PROVE  IInv'
<1>1. /\ Take(s, "STOP")
      /\ \/ \E o \in GoIdle(agent) : Announce(o, OpenSockets)
         \/ UNCHANGED <<agent, toSender>>
  BY Zenon DEF HandleStop
<1>2. AtHome(agent, OpenSockets) /\ agent \in AgentType /\ MailTyped
  BY <1>1, TakeFacts, Zenon DEF IInv
<1>3. ASSUME NEW o \in GoIdle(agent), Announce(o, OpenSockets)
      PROVE  IInv'
  <2>0. Sound(agent, OpenSockets)
    BY <1>2, Zenon DEF AtHome
  <2>1. AtHome(o.agent, OpenSockets) /\ o.agent \in AgentType
    <3>1. AtHome(o.agent, OpenSockets)
      BY <1>3, <2>0, GoIdleFacts, Zenon
    <3>. QED
      BY <3>1, Zenon DEF AtHome, Sound
  <2>2. agent' = o.agent /\ toSender' \in [Sockets -> Seq(SenderMail)]
    BY <1>2, <1>3, <2>1, AnnounceFacts, Zenon
  <2>. QED
    BY <1>1, <2>1, <2>2, TakeFacts, ReceiverStep, Zenon
<1>4. CASE UNCHANGED <<agent, toSender>>
  BY <1>1, <1>2, <1>4, TakeFacts, ReceiverStep, Zenon DEF MailTyped
<1>. QED
  BY <1>1, <1>3, <1>4, Zenon

\* A message to the message port keeps the invariant.
LEMMA PortOnMessageInv ==
  ASSUME IInv, NEW s \in Sockets, PortOnMessage(s), UNCHANGED cast
  PROVE  IInv'
<1>. DEFINE m == Head(toReceiver[s])
            c == Connection(m.destination_id, m.source_id, s)
<1>1. CASE Take(s, "OFFER") /\ UNCHANGED <<agent, toSender>>
  BY <1>1, TakeFacts, ReceiverStep, Zenon DEF IInv, MailTyped
<1>2. ASSUME Take(s, "OFFER"), m.destination_id = agent.source_id,
             agent' = [agent EXCEPT !.connections = AddConnection(agent.connections, c)],
             NEW accepted \in BOOLEAN, Reply(s, "ANSWER", m, accepted)
      PROVE  IInv'
  <2>1. /\ m \in ReceiverMail /\ m.type = "OFFER" /\ s \in OpenSockets
        /\ AtHome(agent, OpenSockets)
    BY <1>2, TakeFacts, Zenon
  <2>2. m.source_id \in Ids /\ m.destination_id \in Ids /\ m.destination_id # none
    BY <2>1, Zenon DEF ReceiverMail
  <2>. HIDE DEF m
  <2>3. c \in ConnectionType /\ c.socket_id = s /\ c.local_id = m.destination_id
    BY <2>2, Zenon DEF Connection, ConnectionType
  <2>. HIDE DEF c
  <2>4. Message("ANSWER", m.destination_id, m.source_id, accepted) \in SenderMail
    BY <1>2, <2>2, SenderMessage, Zenon
  <2>5. toSender' \in [Sockets -> Seq(SenderMail)]
    BY <1>2, <2>4, ReplyFacts, Zenon
  <2>6. AtHome(agent', OpenSockets) /\ agent' \in AgentType
    BY <1>2, <2>1, <2>2, <2>3, Added, Zenon
  <2>. QED
    BY <1>2, <2>5, <2>6, TakeFacts, ReceiverStep, Zenon
<1>3. CASE AbortAgent
  <2>1. /\ agent' = [agent EXCEPT !.up = FALSE]
        /\ ends' = [t \in Sockets |-> ends[t] \ {"receiver"}]
        /\ toReceiver' = [t \in Sockets |-> <<>>] /\ UNCHANGED toSender
    BY <1>3, Zenon DEF AbortAgent
  <2>2. MailTyped'
    BY <2>1 DEF IInv, MailTyped, ReceiverMail, SenderMail, SenderAppIds, Ids, Details
  <2>3. agent' \in AgentType /\ ~agent'.up
    BY <2>1, Zenon DEF IInv, AgentInv, AgentType
  <2>4. AgentInv'
    BY <2>3, Zenon DEF AgentInv, AgentType, ConnectionType, Ids, AllAppIds
  <2>. QED
    BY <2>2, <2>4, Zenon DEF IInv, CastType, ConnectionType, Ids, SenderAppIds
<1>. QED
  BY <1>1, <1>2, <1>3, Zenon DEF PortOnMessage

\* The socket s is gone, and the agent is as it should be without it.
LEMMA SocketClosed ==
  ASSUME IInv, NEW s \in Sockets, UNCHANGED cast,
         ends' = [ends EXCEPT ![s] = ends[s] \ {"receiver"}],
         toReceiver' = [toReceiver EXCEPT ![s] = <<>>],
         agent' \in AgentType, AtHome(agent', OpenSockets \ {s}),
         toSender' \in [Sockets -> Seq(SenderMail)]
  PROVE  IInv'
<1>0. MailTyped
  BY Zenon DEF IInv
<1>1. OpenSockets' = OpenSockets \ {s}
  BY <1>0, Zenon DEF OpenSockets, MailTyped
<1>2. MailTyped'
  <2>1. ends' \in [Sockets -> SUBSET {"sender", "receiver"}]
    BY <1>0, Zenon DEF MailTyped
  <2>2. toReceiver' \in [Sockets -> Seq(ReceiverMail)]
    BY <1>0 DEF MailTyped
  <2>3. \A t \in Sockets : toReceiver'[t] # <<>> => t \in OpenSockets'
    BY <1>0, <1>1, Zenon DEF MailTyped
  <2>. QED
    BY <2>1, <2>2, <2>3, Zenon DEF MailTyped, ReceiverMail, SenderMail, SenderAppIds, Ids, Details,
                            AllAppIds
<1>3. AgentInv'
  BY <1>1, Zenon DEF AgentInv, AtHome, Sound, Homed, AgentType, ConnectionType, Ids, kPlatformId,
              AllAppIds
<1>. QED
  BY <1>2, <1>3, Zenon DEF IInv, CastType, ConnectionType, Ids, SenderAppIds

\* What GoIdle() gives is a record: its fields change one at a time.
LEMMA OutcomeFacts ==
  ASSUME NEW a, NEW o \in GoIdle(a), NEW v
  PROVE  /\ [o EXCEPT !.agent.socket = v].agent = [o.agent EXCEPT !.socket = v]
         /\ [o EXCEPT !.agent.socket = v].changed = o.changed
<1>. DEFINE Made(x) == \E b, e, c : x = Outcome(b, e, c)
<1>1. ASSUME NEW x, NEW app, NEW i, NEW socket, NEW y \in LaunchOrFallBack(x, app, i, socket)
      PROVE  Made(y)
  <2>1. \E b : y = Outcome(b, FALSE, TRUE) \/ y = Outcome(b, TRUE, TRUE)
    BY <1>1, Zenon DEF LaunchOrFallBack
  <2>. QED
    BY <2>1, Zenon
<1>. DEFINE id == GetFirstAppId(a.idle_screen_app)
<1>2. o \in SwitchToApplication(a, id, none)
  BY Zenon DEF GoIdle
<1>3. Made(Outcome(a, TRUE, FALSE)) /\ Made(Outcome(a, FALSE, FALSE))
      /\ Made(Outcome(StopLaunched(a), FALSE, a.launched_app # none))
  BY Zenon
<1>. HIDE DEF Made, id
<1>4. \/ o = Outcome(a, TRUE, FALSE) \/ o = Outcome(a, FALSE, FALSE)
      \/ o = Outcome(StopLaunched(a), FALSE, a.launched_app # none)
      \/ \E app \in Registered(a, id) :
           o \in LaunchOrFallBack(StopLaunched(a), app, id, none)
  BY <1>2, Zenon DEF SwitchToApplication
<1>5. Made(o)
  BY <1>1, <1>3, <1>4, Zenon
<1>6. \E b, e, c : o = Outcome(b, e, c)
  BY <1>5, Zenon DEF Made
<1>. QED
  BY <1>6, Zenon DEF Outcome

\* OnSocketError() of the agent keeps the invariant.
LEMMA AgentOnSocketErrorInv ==
  ASSUME IInv, NEW s \in Sockets, AgentOnSocketError(s), UNCHANGED cast
  PROVE  IInv'
<1>. DEFINE open == OpenSockets \ {s}
            cs == RemoveConnectionsBySocketId(agent.connections, s)
            a == [agent EXCEPT !.connections = cs]
<1>0. MailTyped /\ agent \in AgentType /\ AtHome(agent, OpenSockets)
  BY Zenon DEF IInv, AgentInv, AgentOnSocketError
<1>1. /\ ends' = [ends EXCEPT ![s] = ends[s] \ {"receiver"}]
      /\ toReceiver' = [toReceiver EXCEPT ![s] = <<>>]
      /\ IF a.socket = s
           THEN \E o \in GoIdle(a) :
                  Announce([o EXCEPT !.agent.socket = IF o.agent.socket = s
                                                        THEN none ELSE o.agent.socket],
                           open)
           ELSE agent' = a /\ UNCHANGED toSender
  BY Zenon DEF AgentOnSocketError
<1>2. cs \in SUBSET ConnectionType /\ \A c \in cs : c \in agent.connections /\ c.socket_id # s
  BY <1>0, Zenon DEF RemoveConnectionsBySocketId, AgentType
<1>. HIDE DEF cs
<1>3. /\ a \in AgentType /\ a.up = agent.up /\ a.registered = agent.registered
      /\ a.idle_screen_app = agent.idle_screen_app
      /\ a.launched_app = agent.launched_app /\ a.source_id = agent.source_id
      /\ a.connections = cs /\ a.socket = agent.socket
  BY <1>0, <1>2, Zenon DEF AgentType
<1>. HIDE DEF a
<1>4. Sound(a, open)
  BY <1>0, <1>2, <1>3, Zenon DEF AtHome, Sound
<1>5. CASE a.socket # s /\ agent' = a /\ UNCHANGED toSender
  <2>1. AtHome(a, open)
    BY <1>0, <1>3, <1>4, <1>5, Zenon DEF AtHome, Homed
  <2>. QED
    BY <1>0, <1>1, <1>3, <1>5, <2>1, SocketClosed, Zenon DEF MailTyped
<1>6. ASSUME NEW o \in GoIdle(a),
             Announce([o EXCEPT !.agent.socket = IF o.agent.socket = s
                                                   THEN none ELSE o.agent.socket],
                      open)
      PROVE  IInv'
  <2>. DEFINE b == o.agent
              v == IF b.socket = s THEN none ELSE b.socket
              d == [b EXCEPT !.socket = v]
              p == [o EXCEPT !.agent.socket = v]
  <2>1. AtHome(b, open) /\ SameApps(a, b) /\ b.launched_app \in {none, a.idle_screen_app}
    BY <1>4, <1>6, GoIdleFacts, Zenon
  <2>2. Announce(p, open) /\ p.agent = d
    BY <1>6, OutcomeFacts
  <2>. HIDE DEF b, p
  <2>3. /\ d \in AgentType /\ d.up = b.up /\ d.registered = b.registered
        /\ d.idle_screen_app = b.idle_screen_app
        /\ d.launched_app = b.launched_app /\ d.source_id = b.source_id
        /\ d.connections = b.connections
    <3>1. b \in AgentType /\ v \in Sockets \cup {none}
      BY <2>1, Zenon DEF AtHome, Sound, AgentType
    <3>. HIDE DEF v
    <3>. QED
      BY <3>1, Zenon DEF AgentType
  <2>. HIDE DEF d
  <2>4. AtHome(d, open)
    BY <2>1, <2>3, Zenon DEF AtHome, Sound, Homed, SameApps
  <2>5. agent' = d /\ toSender' \in [Sockets -> Seq(SenderMail)]
    <3>1. p.agent \in AgentType
      BY <2>2, <2>3, Zenon
    <3>2. agent' = p.agent /\ toSender' \in [Sockets -> Seq(SenderMail)]
      BY <1>0, <2>2, <3>1, AnnounceFacts, Zenon
    <3>. QED
      BY <2>2, <3>2, Zenon
  <2>. QED
    BY <1>1, <2>3, <2>4, <2>5, SocketClosed, Zenon
<1>. QED
  BY <1>1, <1>5, <1>6, Zenon

-----------------------------------------------------------------------------
(* The senders *)

\* The agent of socket s becomes c and writes the messages q.
LEMMA SenderStep ==
  ASSUME IInv, NEW s \in Sockets, UNCHANGED agent,
         NEW c \in CastType, cast' = [cast EXCEPT ![s] = c],
         NEW q \in Seq(ReceiverMail), q # <<>> => "receiver" \in ends[s],
         toReceiver' = [toReceiver EXCEPT ![s] = toReceiver[s] \o q],
         toSender' \in [Sockets -> Seq(SenderMail)],
         ends' = ends \/ ends' = [ends EXCEPT ![s] = ends[s] \ {"sender"}]
  PROVE  IInv'
<1>0. MailTyped /\ cast \in [Sockets -> CastType]
  BY Zenon DEF IInv
<1>1. OpenSockets' = OpenSockets
  BY <1>0, Zenon DEF OpenSockets, MailTyped
<1>2. MailTyped'
  <2>1. ends' \in [Sockets -> SUBSET {"sender", "receiver"}]
    BY <1>0, Zenon DEF MailTyped
  <2>2. toReceiver[s] \o q \in Seq(ReceiverMail)
    BY <1>0 DEF MailTyped
  <2>3. toReceiver' \in [Sockets -> Seq(ReceiverMail)]
    BY <1>0, <2>2, Zenon DEF MailTyped
  <2>4. toReceiver[s] \o q # <<>> => s \in OpenSockets
    <3>1. toReceiver[s] \in Seq(ReceiverMail)
      BY <1>0, Zenon DEF MailTyped
    <3>2. toReceiver[s] \o q # <<>> => toReceiver[s] # <<>> \/ q # <<>>
      BY <3>1
    <3>. QED
      BY <1>0, <3>2, Zenon DEF MailTyped, OpenSockets
  <2>5. \A t \in Sockets : toReceiver'[t] # <<>> => t \in OpenSockets
    BY <1>0, <2>4, SMTT(60) DEF MailTyped
  <2>. QED
    BY <1>1, <2>1, <2>3, <2>5, Zenon DEF MailTyped, ReceiverMail, SenderMail, SenderAppIds, Ids,
                                  Details, AllAppIds
<1>3. AgentInv'
  BY <1>1 DEF IInv, AgentInv, AtHome, Sound, Homed, AgentType, ConnectionType, Ids,
              kPlatformId, AllAppIds
<1>4. cast' \in [Sockets -> CastType]
  BY <1>0, Zenon
<1>. QED
  BY <1>2, <1>3, <1>4, Zenon DEF IInv, CastType, ConnectionType, Ids, SenderAppIds

\* A sender takes a message and sends others.
LEMMA GoInv ==
  ASSUME IInv, NEW s \in Sockets, NEW c \in CastType, NEW messages \in Seq(ReceiverMail),
         Go(s, c, messages), toSender[s] # <<>>,
         toSender' = [toSender EXCEPT ![s] = Tail(toSender[s])],
         UNCHANGED <<agent, ends>>
  PROVE  IInv'
<1>. DEFINE q == Sent(s, messages)
<1>1. q \in Seq(ReceiverMail) /\ (q # <<>> => "receiver" \in ends[s])
  BY DEF Sent
<1>2. /\ cast' = [cast EXCEPT ![s] = c]
      /\ toReceiver' = [toReceiver EXCEPT ![s] = toReceiver[s] \o q]
  BY Zenon DEF Go
<1>3. toSender' \in [Sockets -> Seq(SenderMail)]
  BY SeqFacts, Zenon DEF IInv, MailTyped
<1>. HIDE DEF q
<1>. QED
  BY <1>1, <1>2, <1>3, SenderStep, Zenon

\* The CLOSE messages are messages.
LEMMA CloseMessagesType ==
  ASSUME NEW c, NEW connection \in ConnectionType \cup {none}
  PROVE  CloseMessages(c, connection) \in Seq(ReceiverMail)
<1>1. CASE connection \in ConnectionType
  <2>1. /\ connection.local_id \in Ids /\ connection.peer_id \in Ids
        /\ none \in SenderAppIds \cup Ids
    BY <1>1, Zenon DEF ConnectionType, Ids
  <2>2. Message("CLOSE", connection.local_id, connection.peer_id, none) \in ReceiverMail
    BY <2>1, ReceiverMessage, Zenon
  <2>. QED
    BY <2>2 DEF CloseMessages
<1>2. CASE connection = none
  BY <1>2 DEF CloseMessages
<1>. QED
  BY <1>1, <1>2, Zenon

\* A sender with one field changed is a sender.
LEMMA CastUpdates ==
  ASSUME NEW c \in CastType
  PROVE  /\ \A v \in {"idle", "authenticating", "up", "down", "aborted"} :
              [c EXCEPT !.state = v] \in CastType
         /\ \A v \in ConnectionType \cup {none} :
              [c EXCEPT !.platform = v] \in CastType /\ [c EXCEPT !.remote = v] \in CastType
         /\ \A v \in SUBSET ConnectionType :
              /\ [c EXCEPT !.pending = v] \in CastType
              /\ [c EXCEPT !.connections = v] \in CastType
         /\ \A v \in Ids : [c EXCEPT !.app_session_id = v] \in CastType
         /\ \A v \in BOOLEAN :
              /\ [c EXCEPT !.has_launched = v] \in CastType
              /\ [c EXCEPT !.session = v] \in CastType
              /\ [c EXCEPT !.streaming = v] \in CastType
<1>1. \A v \in {"idle", "authenticating", "up", "down", "aborted"} :
        [c EXCEPT !.state = v] \in CastType
  BY Zenon DEF CastType
<1>2. \A v \in ConnectionType \cup {none} :
        [c EXCEPT !.platform = v] \in CastType /\ [c EXCEPT !.remote = v] \in CastType
  BY Zenon DEF CastType
<1>3. \A v \in SUBSET ConnectionType :
        /\ [c EXCEPT !.pending = v] \in CastType
        /\ [c EXCEPT !.connections = v] \in CastType
  BY Zenon DEF CastType
<1>4. \A v \in Ids : [c EXCEPT !.app_session_id = v] \in CastType
  BY Zenon DEF CastType
<1>5. \A v \in BOOLEAN :
        /\ [c EXCEPT !.has_launched = v] \in CastType
        /\ [c EXCEPT !.session = v] \in CastType
        /\ [c EXCEPT !.streaming = v] \in CastType
  BY DEF CastType
<1>. QED
  BY <1>1, <1>2, <1>3, <1>4, <1>5, Zenon

\* What Shutdown() of a sender does.
LEMMA ShutdownFacts ==
  ASSUME NEW c \in CastType
  PROVE  ShutdownMessages(c) \in Seq(ReceiverMail) /\ ShutdownState(c) \in CastType
<1>. DEFINE u == Unsessioned(c)
<1>1. /\ u.platform \in ConnectionType \cup {none} /\ u.remote \in ConnectionType \cup {none}
      /\ u.app_session_id \in Ids
  <2>1. u.platform = c.platform /\ u.remote = c.remote
        /\ u.app_session_id = c.app_session_id
    BY Zenon DEF Unsessioned, CastType
  <2>. QED
    BY <2>1, Zenon DEF CastType
<1>. HIDE DEF u
<1>2. StopMessages(u) \in Seq(ReceiverMail)
  <2>1. kPlatformId \in Ids /\ u.app_session_id \in SenderAppIds \cup Ids
    BY <1>1 DEF kPlatformId, Ids
  <2>2. Message("STOP", kPlatformId, kPlatformId, u.app_session_id) \in ReceiverMail
    BY <2>1, ReceiverMessage, Zenon
  <2>. QED
    BY <2>2 DEF StopMessages
<1>3. ShutdownMessages(c) \in Seq(ReceiverMail)
  <2>. DEFINE p == CloseMessages(u, u.platform)
              r == CloseMessages(u, u.remote)
              e == StopMessages(u)
  <2>1. p \in Seq(ReceiverMail) /\ r \in Seq(ReceiverMail)
    BY <1>1, CloseMessagesType, Zenon
  <2>2. p \o r \o e \in Seq(ReceiverMail)
    <3>. HIDE DEF p, r, e
    <3>1. p \o r \in Seq(ReceiverMail) /\ e \in Seq(ReceiverMail)
      BY <1>2, <2>1 DEF e
    <3>. QED
      BY <3>1
  <2>3. ShutdownMessages(c) = IF FailsCheck(c) THEN <<>> ELSE p \o r \o e
    BY Zenon DEF ShutdownMessages, u
  <2>. HIDE DEF p, r, e
  <2>. QED
    BY <2>2, <2>3
<1>4. ShutdownState(c) \in CastType
  <2>. DEFINE st == IF FailsCheck(c) THEN "aborted" ELSE "down"
              c1 == [c EXCEPT !.state = st]
              c2 == [c1 EXCEPT !.platform = none]
              c3 == [c2 EXCEPT !.remote = none]
              c4 == [c3 EXCEPT !.pending = {}]
              c5 == [c4 EXCEPT !.connections = {}]
              c6 == [c5 EXCEPT !.app_session_id = none]
              c7 == [c6 EXCEPT !.session = FALSE]
              c8 == [c7 EXCEPT !.streaming = FALSE]
  <2>1. st \in {"down", "aborted"} /\ none \in Ids
    BY Zenon DEF Ids
  <2>2. ShutdownState(c) = c8
    BY Zenon DEF ShutdownState
  <2>. HIDE DEF st, c1, c2, c3, c4, c5, c6, c7, c8
  <2>3. c1 \in CastType /\ (c1 \in CastType => c2 \in CastType)
    BY <2>1, CastUpdates, Zenon DEF c1, c2
  <2>4. (c2 \in CastType => c3 \in CastType) /\ (c3 \in CastType => c4 \in CastType)
    BY CastUpdates, Zenon DEF c3, c4
  <2>5. (c4 \in CastType => c5 \in CastType) /\ (c5 \in CastType => c6 \in CastType)
    BY <2>1, CastUpdates, Zenon DEF c5, c6
  <2>6. (c6 \in CastType => c7 \in CastType) /\ (c7 \in CastType => c8 \in CastType)
    BY CastUpdates, Zenon DEF c7, c8
  <2>. QED
    BY <2>2, <2>3, <2>4, <2>5, <2>6, Zenon
<1>. QED
  BY <1>3, <1>4, Zenon

\* Shutdown() keeps the invariant.
LEMMA ShutdownInv ==
  ASSUME IInv, NEW s \in Sockets, NEW writable, Shutdown(s, cast[s], writable),
         UNCHANGED agent
  PROVE  IInv'
<1>. DEFINE c == cast[s]
            written == IF writable THEN Sent(s, ShutdownMessages(c)) ELSE <<>>
<1>0. c \in CastType /\ toSender \in [Sockets -> Seq(SenderMail)]
  BY Zenon DEF IInv, MailTyped
<1>1. PICK n \in 0 .. Len(written) :
        /\ cast' = [cast EXCEPT ![s] = ShutdownState(c)]
        /\ toReceiver' = [toReceiver EXCEPT ![s] = toReceiver[s] \o SubSeq(written, 1, n)]
        /\ toSender' = [toSender EXCEPT ![s] = <<>>]
        /\ ends' = [ends EXCEPT ![s] = ends[s] \ {"sender"}]
  BY Zenon DEF Shutdown
<1>2. ShutdownMessages(c) \in Seq(ReceiverMail) /\ ShutdownState(c) \in CastType
  BY <1>0, ShutdownFacts, Zenon
<1>3. written \in Seq(ReceiverMail) /\ (written # <<>> => "receiver" \in ends[s])
  BY <1>2 DEF Sent
<1>. HIDE DEF written
<1>. DEFINE q == SubSeq(written, 1, n)
<1>4. q \in Seq(ReceiverMail)
  BY <1>3, SeqFacts, Zenon
<1>5. q # <<>> => written # <<>>
  BY <1>3
<1>6. toSender' \in [Sockets -> Seq(SenderMail)]
  BY <1>0, <1>1
<1>. HIDE DEF q, c
<1>. QED
  BY <1>1, <1>2, <1>3, <1>4, <1>5, <1>6, SenderStep, Zenon DEF q

\* A message to a sender socket factory keeps the invariant.
LEMMA FactoryOnMessageInv ==
  ASSUME IInv, NEW s \in Sockets, FactoryOnMessage(s), UNCHANGED agent
  PROVE  IInv'
<1>. DEFINE c == cast[s]
            k == Connection(kPlatformId, kPlatformId, s)
            o == [c EXCEPT !.pending = c.pending \cup {k}]
            d == [[o EXCEPT !.state = "up"] EXCEPT !.platform = k]
<1>0. c \in CastType
  BY Zenon DEF IInv
<1>1. CASE /\ toSender[s] # <<>> /\ Go(s, d, <<ConnectMessage(k)>>)
           /\ toSender' = [toSender EXCEPT ![s] = Tail(toSender[s])] /\ UNCHANGED ends
  <2>1. /\ k \in ConnectionType /\ k.local_id = kPlatformId /\ k.peer_id = kPlatformId
        /\ kPlatformId \in Ids /\ none \in SenderAppIds \cup Ids
    BY DEF Connection, ConnectionType, kPlatformId, Ids
  <2>2. ConnectMessage(k) \in ReceiverMail
    BY <2>1, ReceiverMessage, Zenon DEF ConnectMessage
  <2>3. c.pending \cup {k} \in SUBSET ConnectionType
    BY <1>0, <2>1, Zenon DEF CastType
  <2>4. o \in CastType
    BY <1>0, <2>3, CastUpdates, Zenon
  <2>5. d \in CastType
    <3>. HIDE DEF o, k
    <3>1. [o EXCEPT !.state = "up"] \in CastType
      BY <2>4, CastUpdates, Zenon
    <3>. QED
      BY <2>1, <3>1, CastUpdates, Zenon
  <2>6. <<ConnectMessage(k)>> \in Seq(ReceiverMail)
    BY <2>2
  <2>. HIDE DEF d, k
  <2>. QED
    BY <1>1, <2>5, <2>6, GoInv, Zenon
<1>2. CASE Shutdown(s, c, FALSE)
  BY <1>2, ShutdownInv, Zenon
<1>. QED
  BY <1>1, <1>2, Zenon DEF FactoryOnMessage, Opening

\* CONNECTED opens a connection and keeps the invariant.
LEMMA HandleConnectedResponseInv ==
  ASSUME IInv, NEW s \in Sockets, HandleConnectedResponse(s), UNCHANGED agent
  PROVE  IInv'
<1>. DEFINE c == cast[s]
            m == Head(toSender[s])
            k == Connection(m.destination_id, m.source_id, s)
            mail == OpenedMessage(c, k)
            d == Opened(c, k)
<1>0. c \in CastType /\ toSender[s] \in Seq(SenderMail)
  BY Zenon DEF IInv, MailTyped
<1>1. /\ toSender[s] # <<>> /\ m.type = "CONNECTED" /\ Go(s, d, <<mail>>)
      /\ toSender' = [toSender EXCEPT ![s] = Tail(toSender[s])] /\ UNCHANGED ends
  BY Zenon DEF HandleConnectedResponse, Reading, Read, Addressed
<1>2. m \in SenderMail
  BY <1>0, <1>1, SeqFacts, Zenon
<1>3. m.destination_id \in Ids /\ m.source_id \in Ids /\ m.source_id # none
  BY <1>1, <1>2, Zenon DEF SenderMail
<1>. HIDE DEF m
<1>4. k \in ConnectionType /\ k.local_id = m.destination_id /\ k.peer_id = m.source_id
  BY <1>3, Zenon DEF Connection, ConnectionType
<1>. HIDE DEF k
<1>5. mail \in ReceiverMail
  <2>1. /\ kPlatformId \in Ids /\ none \in SenderAppIds \cup Ids
        /\ c.app_id \in SenderAppIds \cup Ids
    BY <1>0 DEF kPlatformId, Ids, CastType
  <2>2. Message("LAUNCH", kPlatformId, kPlatformId, c.app_id) \in ReceiverMail
    BY <2>1, ReceiverMessage, Zenon
  <2>3. Message("OFFER", k.local_id, k.peer_id, none) \in ReceiverMail
    BY <1>3, <1>4, <2>1, ReceiverMessage, Zenon
  <2>. QED
    BY <2>2, <2>3, Zenon DEF OpenedMessage
<1>6. d \in CastType
  <2>. DEFINE e == [c EXCEPT !.pending = c.pending \ {k}]
              cs == AddConnection(e.connections, k)
              f == [e EXCEPT !.connections = cs]
  <2>1. c.pending \ {k} \in SUBSET ConnectionType
    BY <1>0, Zenon DEF CastType
  <2>2. e \in CastType
    BY <1>0, <2>1, CastUpdates, Zenon
  <2>. HIDE DEF e
  <2>3. cs \in SUBSET ConnectionType
    BY <1>4, <2>2, Zenon DEF AddConnection, CastType
  <2>. HIDE DEF cs
  <2>4. f \in CastType /\ (f \in CastType => [f EXCEPT !.session = TRUE] \in CastType)
    BY <2>2, <2>3, CastUpdates, Zenon
  <2>5. d = f \/ d = [f EXCEPT !.session = TRUE]
    <3>1. e.connections = c.connections
      BY <1>0, Zenon DEF e, CastType
    <3>. QED
      BY <3>1, Zenon DEF Opened, e, cs
  <2>. QED
    BY <2>4, <2>5, Zenon
<1>7. <<mail>> \in Seq(ReceiverMail)
  BY <1>5
<1>. HIDE DEF mail, d, c
<1>. QED
  BY <1>1, <1>6, <1>7, GoInv, Zenon

\* RECEIVER_STATUS keeps the invariant.
LEMMA HandleReceiverStatusInv ==
  ASSUME IInv, NEW s \in Sockets, HandleReceiverStatus(s), UNCHANGED agent
  PROVE  IInv'
<1>. DEFINE c == cast[s]
            m == Head(toSender[s])
            h == [c EXCEPT !.has_launched = TRUE]
            l == [h EXCEPT !.app_session_id = m.body.session_id]
            k == Connection(kStreamingSender, m.body.transport_id, s)
            o == [l EXCEPT !.pending = l.pending \cup {k}]
            d == [o EXCEPT !.remote = k]
<1>0. c \in CastType /\ toSender[s] \in Seq(SenderMail)
  BY DEF IInv, MailTyped
<1>1. Reading(s, "RECEIVER_STATUS")
  BY Zenon DEF HandleReceiverStatus
<1>2. m.type = "RECEIVER_STATUS" /\ toSender[s] # <<>> /\ m \in SenderMail
  BY <1>0, <1>1, SeqFacts, Zenon DEF Reading
<1>3. m.body.session_id \in Ids /\ m.body.transport_id \in Ids
  BY <1>2, SMTT(60) DEF SenderMail, Details
<1>4. \/ Shutdown(s, c, TRUE)
      \/ /\ toSender' = [toSender EXCEPT ![s] = Tail(toSender[s])] /\ UNCHANGED ends
         /\ Go(s, c, <<>>) \/ Go(s, l, <<>>) \/ Go(s, d, <<ConnectMessage(k)>>)
  BY Zenon DEF HandleReceiverStatus, Opening, Read
<1>. HIDE DEF m
<1>5. l \in CastType
  <2>1. h \in CastType
    BY <1>0, CastUpdates, Zenon
  <2>. HIDE DEF h
  <2>. QED
    BY <1>3, <2>1, CastUpdates, Zenon
<1>. HIDE DEF l
<1>6. /\ k \in ConnectionType /\ k.local_id = kStreamingSender
      /\ k.peer_id = m.body.transport_id /\ k.local_id \in Ids
      /\ none \in SenderAppIds \cup Ids
  BY <1>3 DEF Connection, ConnectionType, kStreamingSender, Ids
<1>. HIDE DEF k
<1>7. d \in CastType
  <2>1. l.pending \cup {k} \in SUBSET ConnectionType
    BY <1>5, <1>6, Zenon DEF CastType
  <2>2. o \in CastType
    BY <1>5, <2>1, CastUpdates, Zenon
  <2>. HIDE DEF o
  <2>. QED
    BY <1>6, <2>2, CastUpdates, Zenon
<1>8. ConnectMessage(k) \in ReceiverMail
  BY <1>3, <1>6, ReceiverMessage, Zenon DEF ConnectMessage
<1>9. <<>> \in Seq(ReceiverMail) /\ <<ConnectMessage(k)>> \in Seq(ReceiverMail)
  BY <1>8
<1>. HIDE DEF d
<1>10. CASE Shutdown(s, c, TRUE)
  BY <1>10, ShutdownInv, Zenon
<1>. HIDE DEF c
<1>. QED
  BY <1>0, <1>2, <1>4, <1>5, <1>7, <1>9, <1>10, GoInv, Zenon

\* ANSWER keeps the invariant.
LEMMA HandleAnswerInv ==
  ASSUME IInv, NEW s \in Sockets, HandleAnswer(s), UNCHANGED agent
  PROVE  IInv'
<1>. DEFINE c == cast[s]
            d == [c EXCEPT !.streaming = TRUE]
<1>0. c \in CastType
  BY DEF IInv
<1>1. \/ Shutdown(s, c, TRUE)
      \/ /\ toSender' = [toSender EXCEPT ![s] = Tail(toSender[s])] /\ UNCHANGED ends
         /\ toSender[s] # <<>> /\ Go(s, d, <<>>)
  BY Zenon DEF HandleAnswer, Reading, Read
<1>2. d \in CastType /\ <<>> \in Seq(ReceiverMail)
  <2>1. TRUE \in BOOLEAN
    BY Zenon
  <2>2. d \in CastType
    <3>. HIDE DEF c
    <3>. QED
      BY <1>0, <2>1, CastUpdates, Zenon
  <2>3. <<>> \in Seq(ReceiverMail)
    OBVIOUS
  <2>. QED
    BY <2>2, <2>3, Zenon
<1>3. CASE Shutdown(s, c, TRUE)
  BY <1>3, ShutdownInv, Zenon
<1>. HIDE DEF d, c
<1>. QED
  BY <1>1, <1>2, <1>3, GoInv, Zenon

\* A step of a sender keeps the invariant.
LEMMA SenderActInv ==
  ASSUME IInv, NEW s \in Sockets, SenderAct(s), UNCHANGED agent
  PROVE  IInv'
<1>1. CASE FactoryOnConnectionFailed(s)
  BY <1>1, ShutdownInv, Zenon DEF FactoryOnConnectionFailed
<1>2. CASE CastOnMessage(s)
  <2>1. CASE HandleLaunchError(s)
    BY <2>1, ShutdownInv, Zenon DEF HandleLaunchError
  <2>. QED
    BY Zenon, <1>2, <2>1, FactoryOnMessageInv, HandleConnectedResponseInv,
       HandleReceiverStatusInv, HandleAnswerInv DEF CastOnMessage
<1>3. CASE CastOnSocketError(s)
  BY <1>3, ShutdownInv, Zenon DEF CastOnSocketError
<1>4. CASE OnSessionError(s)
  BY <1>4, ShutdownInv, Zenon DEF OnSessionError
<1>5. CASE DestroyCastAgent(s)
  <2>1. Shutdown(s, cast[s], cast[s].state = "up")
    BY <1>5, Zenon DEF DestroyCastAgent
  <2>. QED
    BY <2>1, ShutdownInv, Zenon
<1>. QED
  BY <1>1, <1>2, <1>3, <1>4, <1>5, Zenon DEF SenderAct

-----------------------------------------------------------------------------
(* The invariant *)

\* Connect() keeps the invariant.
LEMMA ConnectInv ==
  ASSUME IInv, NEW s \in Sockets, Connect(s)
  PROVE  IInv'
<1>. DEFINE mail == Message("AUTH", kPlatformId, kPlatformId, none)
            c == [cast[s] EXCEPT !.state = "authenticating"]
<1>0. MailTyped /\ cast \in [Sockets -> CastType] /\ AgentInv
  BY Zenon DEF IInv
<1>1. /\ ends' = [ends EXCEPT ![s] = {"sender", "receiver"}]
      /\ cast' = [cast EXCEPT ![s] = c]
      /\ toReceiver' = [toReceiver EXCEPT ![s] = <<mail>>]
      /\ UNCHANGED <<toSender, agent>>
  BY Zenon DEF Connect, FactoryOnConnected
<1>2. OpenSockets' = OpenSockets \cup {s}
  BY <1>0, <1>1, Zenon DEF OpenSockets, MailTyped
<1>3. mail \in ReceiverMail
  <2>1. kPlatformId \in Ids /\ none \in SenderAppIds \cup Ids
    BY DEF kPlatformId, Ids
  <2>. QED
    BY <2>1, ReceiverMessage, Zenon
<1>. HIDE DEF mail
<1>4. <<mail>> \in Seq(ReceiverMail)
  BY <1>3
<1>5. MailTyped'
  <2>1. ends' \in [Sockets -> SUBSET {"sender", "receiver"}]
    BY <1>0, <1>1, Zenon DEF MailTyped
  <2>2. toReceiver' \in [Sockets -> Seq(ReceiverMail)]
    BY <1>0, <1>1, <1>4, Zenon DEF MailTyped
  <2>3. \A t \in Sockets : toReceiver'[t] # <<>> => t \in OpenSockets'
    BY <1>0, <1>1, <1>2, Zenon DEF MailTyped
  <2>. QED
    BY <1>0, <1>1, <2>1, <2>2, <2>3, Zenon DEF MailTyped, ReceiverMail, SenderMail, SenderAppIds,
                                        Ids, Details, AllAppIds
<1>6. c \in CastType
  BY <1>0, CastUpdates, Zenon
<1>. HIDE DEF c
<1>7. cast' \in [Sockets -> CastType]
  BY <1>0, <1>1, <1>6, Zenon
<1>8. agent.up => AtHome(agent, OpenSockets')
  BY <1>0, <1>2, Zenon DEF AgentInv, AtHome, Sound, Homed
<1>9. AgentInv'
  BY <1>0, <1>1, <1>8 DEF AgentInv, AtHome, Sound, Homed, AgentType, ConnectionType, Ids,
                          kPlatformId, AllAppIds
<1>. QED
  BY <1>5, <1>7, <1>9, Zenon DEF IInv, CastType, ConnectionType, Ids, SenderAppIds

\* A step of the receiver keeps the invariant.
LEMMA ReceiverActInv ==
  ASSUME IInv, ReceiverAct, UNCHANGED cast
  PROVE  IInv'
<1>1. ASSUME NEW app \in Apps,
             \/ RegisterApplication(app) \/ UnregisterApplication(app)
             \/ StopApplicationIfRunning(app)
      PROVE  IInv'
  BY <1>1, RegisterApplicationInv, UnregisterApplicationInv, StopApplicationIfRunningInv, Zenon
<1>2. ASSUME NEW s \in Sockets, AgentOnSocketError(s)
      PROVE  IInv'
  BY <1>2, AgentOnSocketErrorInv, Zenon
<1>3. ASSUME NEW s \in Sockets, AgentOnMessage(s)
      PROVE  IInv'
  BY Zenon, <1>3, HandleAuthChallengeInv, HandleConnectInv, HandleCloseInv, HandleLaunchInv,
     HandleStopInv, PortOnMessageInv DEF AgentOnMessage
<1>. QED
  BY <1>1, <1>2, <1>3, Zenon DEF ReceiverAct

\* Before anything has connected, no socket is open and nothing is launched.
THEOREM InitIInv == Init => IInv
<1>. SUFFICES ASSUME Init
              PROVE  IInv
  BY Zenon
<1>1. MailTyped
  BY SMTT(60) DEF Init, ChannelInit, MailTyped
<1>2. cast \in [Sockets -> CastType]
  <2>1. PICK ids \in [Sockets -> UNION {StreamingAppIds[s] : s \in Sockets}] :
          cast = [s \in Sockets |->
            [state |-> "idle", app_id |-> ids[s], platform |-> none,
             remote |-> none, pending |-> {}, connections |-> {},
             has_launched |-> FALSE, app_session_id |-> none,
             session |-> FALSE, streaming |-> FALSE]]
    BY Zenon DEF Init, CastInit
  <2>2. \A s \in Sockets : ids[s] \in SenderAppIds
    BY Zenon DEF SenderAppIds
  <2>3. \A id \in SenderAppIds :
          [state |-> "idle", app_id |-> id, platform |-> none,
           remote |-> none, pending |-> {}, connections |-> {},
           has_launched |-> FALSE, app_session_id |-> none,
           session |-> FALSE, streaming |-> FALSE] \in CastType
    BY Zenon DEF CastType, Ids
  <2>. QED
    BY <2>1, <2>2, <2>3, Zenon
<1>3. agent \in AgentType /\ AtHome(agent, OpenSockets)
  BY Zenon DEF Init, AgentInit, AgentType, AtHome, Sound, Homed, Ids
<1>. QED
  BY <1>1, <1>2, <1>3, Zenon DEF IInv, AgentInv

\* Each step of the receiver and of each sender keeps the invariant.
THEOREM NextIInv == IInv /\ [Next]_vars => IInv'
<1>. SUFFICES ASSUME IInv, [Next]_vars
              PROVE  IInv'
  BY Zenon
<1>1. CASE UNCHANGED vars
  <2>1. UNCHANGED <<agent, cast, ends, toReceiver, toSender>>
    BY <1>1, Zenon DEF vars, channelVars
  <2>. QED
    BY <2>1, ReceiverStep, Zenon DEF IInv, AgentInv, MailTyped
<1>2. ASSUME NEW s \in Sockets, Connect(s)
      PROVE  IInv'
  BY <1>2, ConnectInv, Zenon
<1>3. CASE ReceiverAct /\ UNCHANGED cast
  BY <1>3, ReceiverActInv, Zenon
<1>4. ASSUME NEW s \in Sockets, SenderAct(s), UNCHANGED agent
      PROVE  IInv'
  BY <1>4, SenderActInv, Zenon
<1>. QED
  BY <1>1, <1>2, <1>3, <1>4, Zenon DEF Next

\* Every virtual connection of the receiver is on an open socket and leads to the
\* platform or to the running application, however many senders connect, launch,
\* stop and vanish: ResetClient() and RemoveConnectionsBySocketId() leave no other.
THEOREM ConnectionsLeadSomewhere == Spec => []ConnectionsLive
<1>1. IInv => ConnectionsLive
  BY Zenon DEF IInv, AgentInv, AtHome, Sound, ConnectionsLive
<1>. QED
  BY <1>1, InitIInv, NextIInv, PTL DEF Spec

\* An application other than the idle screen always runs for an open socket:
\* OnClose() and OnError() go idle before the socket of the port is forgotten,
\* and a fallback that SwitchToApplication() launches is the idle screen.
THEOREM ApplicationsHaveSenders == Spec => []NoAppOrphaned
<1>1. IInv => NoAppOrphaned
  BY Zenon DEF IInv, AgentInv, AtHome, Homed, NoAppOrphaned
<1>. QED
  BY <1>1, InitIInv, NextIInv, PTL DEF Spec

-----------------------------------------------------------------------------
(* What senders know of the session *)

IsStatus(m) == m.type = "RECEIVER_STATUS"

\* There is no news of a switch among the messages q.
Untold(q) == \A i \in DOMAIN q : ~IsStatus(q[i])

\* The last RECEIVER_STATUS of the messages q, if there is one, is of the session.
Latest(q, session) ==
  \A i \in DOMAIN q :
    IsStatus(q[i]) /\ (\A j \in DOMAIN q : j > i => ~IsStatus(q[j]))
      => q[i].body.session_id = session

\* What the sender of socket s knows, or will know when it has read its messages.
Informed(s) ==
  /\ cast[s].state = "idle" => ends[s] = {}
  /\ "sender" \notin ends[s] => toSender[s] = <<>>
  /\ cast[s].app_session_id # none => cast[s].has_launched /\ "sender" \in ends[s]
  /\ s \in OpenSockets =>
       /\ Latest(toSender[s], agent.session)
       /\ Untold(toSender[s]) /\ cast[s].app_session_id # none
            => cast[s].app_session_id = agent.session

AllInformed == \A s \in Sockets : Informed(s)

\* Nothing under way is the latest news.
LEMMA EmptyIsLatest == \A session : Latest(<<>>, session) /\ Untold(<<>>)
<1>1. DOMAIN <<>> = {}
  OBVIOUS
<1>. QED
  BY <1>1, Zenon DEF Latest, Untold

\* Concatenation is associative.
LEMMA ConcatAssociative ==
  ASSUME NEW S, NEW p \in Seq(S), NEW q \in Seq(S), NEW r \in Seq(S)
  PROVE  (p \o q) \o r = p \o (q \o r)
BY SMTT(30)

\* Messages without news change nothing.
LEMMA UntoldAppended ==
  ASSUME NEW S, NEW p \in Seq(S), NEW q \in Seq(S), NEW session, Latest(p, session),
         Untold(q)
  PROVE  /\ Latest(p \o q, session)
         /\ Untold(p \o q) <=> Untold(p)
<1>1. /\ \A i \in DOMAIN p : i \in DOMAIN (p \o q) /\ (p \o q)[i] = p[i]
      /\ \A i \in DOMAIN (p \o q) : i \in DOMAIN p \/ ~IsStatus((p \o q)[i])
  BY DEF Untold
<1>. QED
  BY <1>1, Zenon DEF Latest, Untold

\* News is the latest wherever it is put at the end.
LEMMA LatestAppended ==
  ASSUME NEW S, NEW p \in Seq(S), NEW q \in Seq(S), NEW session, Latest(q, session),
         ~Untold(q)
  PROVE  Latest(p \o q, session) /\ ~Untold(p \o q)
<1>. DEFINE r == p \o q
            n == Len(p)
<1>1. PICK k \in DOMAIN q : IsStatus(q[k])
  BY Zenon DEF Untold
<1>2. /\ \A i \in DOMAIN q : n + i \in DOMAIN r /\ r[n + i] = q[i]
      /\ \A i \in DOMAIN r : i <= n \/ i - n \in DOMAIN q
      /\ DOMAIN q \subseteq Nat \ {0} /\ n \in Nat /\ DOMAIN r \subseteq Nat
  OBVIOUS
<1>. HIDE DEF r, n
<1>3. ~Untold(r)
  BY <1>1, <1>2, Zenon DEF Untold
<1>4. ASSUME NEW i \in DOMAIN r, IsStatus(r[i]),
             \A j \in DOMAIN r : j > i => ~IsStatus(r[j])
      PROVE  r[i].body.session_id = session
  <2>0. i \in Nat /\ k \in Nat \ {0} /\ n \in Nat
    BY <1>2, Zenon
  <2>1. n + k \in DOMAIN r /\ IsStatus(r[n + k])
    BY <1>1, <1>2, Zenon
  <2>2. n + k <= i
    BY <1>4, <2>0, <2>1
  <2>3. i - n \in DOMAIN q /\ n + (i - n) = i
    BY <1>2, <2>0, <2>2
  <2>4. r[i] = q[i - n]
    BY <1>2, <2>3, Zenon
  <2>5. ASSUME NEW j \in DOMAIN q, j > i - n
        PROVE  ~IsStatus(q[j])
    <3>1. j \in Nat /\ n + j \in DOMAIN r /\ r[n + j] = q[j]
      BY <1>2, Zenon
    <3>2. n + j > i
      BY <2>0, <2>5, <3>1
    <3>. QED
      BY <1>4, <3>1, <3>2, Zenon
  <2>. QED
    BY <1>4, <2>3, <2>4, <2>5, Zenon DEF Latest
<1>. QED
  BY <1>3, <1>4, Zenon DEF Latest, r

\* What is left of the messages q when the first has been read.
LEMMA LatestTail ==
  ASSUME NEW S, NEW q \in Seq(S), q # <<>>, NEW session, Latest(q, session)
  PROVE  /\ Latest(Tail(q), session)
         /\ Untold(Tail(q)) /\ IsStatus(Head(q)) => Head(q).body.session_id = session
         /\ Untold(Tail(q)) /\ ~IsStatus(Head(q)) => Untold(q)
<1>1. /\ \A i \in DOMAIN Tail(q) : i + 1 \in DOMAIN q /\ Tail(q)[i] = q[i + 1]
      /\ \A i \in DOMAIN q : i = 1 \/ (i - 1 \in DOMAIN Tail(q) /\ Tail(q)[i - 1] = q[i])
      /\ DOMAIN q \subseteq Nat \ {0} /\ DOMAIN Tail(q) \subseteq Nat
      /\ 1 \in DOMAIN q /\ Head(q) = q[1]
  OBVIOUS
<1>2. ASSUME NEW i \in DOMAIN Tail(q), IsStatus(Tail(q)[i]),
             \A j \in DOMAIN Tail(q) : j > i => ~IsStatus(Tail(q)[j])
      PROVE  Tail(q)[i].body.session_id = session
  <2>1. \A j \in DOMAIN q : j > i + 1 => ~IsStatus(q[j])
    <3>. SUFFICES ASSUME NEW j \in DOMAIN q, j > i + 1
                  PROVE  ~IsStatus(q[j])
      BY Zenon
    <3>1. j - 1 \in DOMAIN Tail(q) /\ Tail(q)[j - 1] = q[j] /\ j - 1 > i
      BY <1>1
    <3>. QED
      BY <1>2, <3>1, Zenon
  <2>. QED
    BY <1>1, <1>2, <2>1 DEF Latest
<1>3. Untold(Tail(q)) => \A j \in DOMAIN q : j > 1 => ~IsStatus(q[j])
  <2>. SUFFICES ASSUME Untold(Tail(q)), NEW j \in DOMAIN q, j > 1
                PROVE  ~IsStatus(q[j])
    BY Zenon
  <2>1. j - 1 \in DOMAIN Tail(q) /\ Tail(q)[j - 1] = q[j]
    BY <1>1
  <2>. QED
    BY <2>1, Zenon DEF Untold
<1>4. Untold(Tail(q)) /\ IsStatus(Head(q)) => Head(q).body.session_id = session
  BY <1>1, <1>3, Zenon DEF Latest
<1>5. Untold(Tail(q)) /\ ~IsStatus(Head(q)) => Untold(q)
  BY <1>1, <1>3 DEF Untold
<1>. QED
  BY <1>2, <1>4, <1>5, Zenon DEF Latest
\* The session is replaced only by a switch that is announced.
LEMMA SwitchSession ==
  ASSUME NEW a, NEW id, NEW socket, NEW o \in SwitchToApplication(a, id, socket)
  PROVE  o.changed \/ o.agent.session = a.session
<1>1. \/ \E error : o = Outcome(a, error, FALSE)
      \/ o = Outcome(StopLaunched(a), FALSE, a.launched_app # none)
      \/ \E app \in Registered(a, id) :
           o \in LaunchOrFallBack(StopLaunched(a), app, id, socket)
  BY Zenon DEF SwitchToApplication
<1>2. ASSUME NEW error, o = Outcome(a, error, FALSE)
      PROVE  o.agent.session = a.session
  BY <1>2, Zenon DEF Outcome
<1>3. CASE o = Outcome(StopLaunched(a), FALSE, a.launched_app # none)
  BY <1>3, Zenon DEF Outcome, StopLaunched
<1>4. ASSUME NEW app, o \in LaunchOrFallBack(StopLaunched(a), app, id, socket)
      PROVE  o.changed
  <2>1. \E b : o = Outcome(b, FALSE, TRUE) \/ o = Outcome(b, TRUE, TRUE)
    BY <1>4, Zenon DEF LaunchOrFallBack
  <2>. QED
    BY <2>1 DEF Outcome
<1>. QED
  BY <1>1, <1>2, <1>3, <1>4, Zenon

\* A RECEIVER_STATUS tells of the session.
LEMMA StatusIsNews ==
  ASSUME NEW a, NEW m, m.type = "RECEIVER_STATUS", m.body.session_id = a.session
  PROVE  Latest(<<m>>, a.session) /\ ~Untold(<<m>>)
BY DEF Latest, Untold, IsStatus

\* What a step of the receiver may write to socket s: nothing of the session as
\* long as it stays the same, or else who is running now.
NewsFor(s, q) ==
  /\ q \in Seq(SenderMail)
  /\ "sender" \notin ends[s] => q = <<>>
  /\ s \in OpenSockets' /\ "sender" \in ends[s] =>
       \/ Untold(q) /\ agent'.session = agent.session
       \/ ~Untold(q) /\ Latest(q, agent'.session)

\* No socket's end is opened, and none of a sender's closed.
Closing ==
  \A s \in Sockets : ends'[s] = ends[s] \/ ends'[s] = ends[s] \ {"receiver"}

\* A step of the receiver that sends the latest status keeps senders informed.
LEMMA ReceiverInforms ==
  ASSUME IInv, AllInformed, UNCHANGED cast, Closing, NEW news,
         toSender' = [s \in Sockets |-> toSender[s] \o news[s]],
         \A s \in Sockets : NewsFor(s, news[s])
  PROVE  AllInformed'
<1>. SUFFICES ASSUME NEW s \in Sockets
              PROVE  Informed(s)'
  BY Zenon DEF AllInformed
<1>. DEFINE p == toSender[s]
            q == news[s]
<1>1. /\ p \in Seq(SenderMail) /\ q \in Seq(SenderMail) /\ Informed(s) /\ NewsFor(s, q)
      /\ toSender'[s] = p \o q /\ cast'[s] = cast[s]
      /\ ends'[s] \subseteq ends[s] /\ ("sender" \in ends'[s] <=> "sender" \in ends[s])
  BY Zenon DEF IInv, MailTyped, AllInformed, NewsFor, Closing
<1>2. s \in OpenSockets' => s \in OpenSockets
  BY <1>1, Zenon DEF OpenSockets
<1>3. CASE "sender" \notin ends[s]
  <2>1. p = <<>> /\ q = <<>> /\ cast[s].app_session_id = none
    BY <1>1, <1>3, Zenon DEF Informed, NewsFor
  <2>2. toSender'[s] = <<>>
    BY <1>1, <2>1
  <2>3. Latest(toSender'[s], agent'.session)
    BY <2>2, EmptyIsLatest, Zenon
  <2>4. cast[s].state = "idle" => ends'[s] = {}
    BY <1>1, Zenon DEF Informed
  <2>. HIDE DEF p, q
  <2>. QED
    BY <1>1, <1>3, <2>1, <2>2, <2>3, <2>4, Zenon DEF Informed
<1>4. CASE "sender" \in ends[s]
  <2>. SUFFICES ASSUME s \in OpenSockets'
                PROVE  /\ Latest(p \o q, agent'.session)
                       /\ Untold(p \o q) /\ cast[s].app_session_id # none
                            => cast[s].app_session_id = agent'.session
    BY <1>1, <1>4 DEF Informed
  <2>. HIDE DEF p, q
  <2>1. /\ Latest(p, agent.session)
        /\ Untold(p) /\ cast[s].app_session_id # none
             => cast[s].app_session_id = agent.session
    BY <1>1, <1>2 DEF Informed, p
  <2>2. CASE Untold(q) /\ agent'.session = agent.session
    BY <1>1, <2>1, <2>2, UntoldAppended, Zenon
  <2>3. CASE ~Untold(q) /\ Latest(q, agent'.session)
    BY <1>1, <2>3, LatestAppended, Zenon
  <2>. QED
    BY <1>1, <1>4, <2>2, <2>3, Zenon DEF NewsFor
<1>. QED
  BY <1>3, <1>4, Zenon

\* A step that changes neither the session nor the messages.
LEMMA NothingInforms ==
  ASSUME IInv, AllInformed, UNCHANGED <<cast, toSender>>, Closing,
         agent'.session = agent.session
  PROVE  AllInformed'
<1>. DEFINE news == [s \in Sockets |-> <<>>]
<1>1. toSender' = [s \in Sockets |-> toSender[s] \o news[s]]
  <2>1. toSender \in [Sockets -> Seq(SenderMail)]
    BY Zenon DEF IInv, MailTyped
  <2>2. \A s \in Sockets : toSender[s] \o news[s] = toSender[s]
    BY <2>1
  <2>. QED
    BY <2>1, <2>2, Zenon
<1>2. \A s \in Sockets : NewsFor(s, news[s])
  BY DEF NewsFor, Untold
<1>. HIDE DEF news
<1>. QED
  BY <1>1, <1>2, ReceiverInforms, Zenon

\* Announcing the status informs every connected sender.
LEMMA AnnounceInforms ==
  ASSUME IInv, AllInformed, UNCHANGED cast, Closing, NEW o, NEW sockets,
         agent' \in AgentType, Announce(o, sockets), OpenSockets' \subseteq sockets,
         o.changed \/ o.agent.session = agent.session
  PROVE  AllInformed'
<1>. DEFINE news == BroadcastReceiverStatus(o, sockets)
            status == ReceiverStatus(o.agent)
<1>1. agent' = o.agent /\ toSender' = [s \in Sockets |-> toSender[s] \o news[s]]
  BY Zenon DEF Announce
<1>2. news \in [Sockets -> Seq(SenderMail)]
  BY <1>1, BroadcastType, Zenon
<1>3. Latest(<<status>>, o.agent.session) /\ ~Untold(<<status>>)
  BY StatusIsNews, Zenon DEF ReceiverStatus, Message
<1>. HIDE DEF status
<1>4. \A s \in Sockets :
        news[s] = IF o.changed /\ s \in sockets /\ "sender" \in ends[s]
                    THEN <<status>> ELSE <<>>
  BY Zenon DEF BroadcastReceiverStatus, Replied, status
<1>. HIDE DEF news
<1>5. ASSUME NEW s \in Sockets
      PROVE  NewsFor(s, news[s])
  <2>1. news[s] = <<>> => Untold(news[s])
    BY DEF Untold
  <2>2. news[s] = <<status>> => ~Untold(news[s]) /\ Latest(news[s], agent'.session)
    BY <1>1, <1>3, Zenon
  <2>3. s \in OpenSockets' => s \in sockets
    BY Zenon
  <2>. QED
    BY <1>1, <1>2, <1>4, <2>1, <2>2, <2>3, SMTT(60) DEF NewsFor
<1>. QED
  BY <1>1, <1>5, ReceiverInforms, Zenon

\* GoIdle() of an agent with the session of now is announced.
LEMMA GoIdleInforms ==
  ASSUME IInv, AllInformed, UNCHANGED <<cast, ends>>, agent' \in AgentType,
         NEW a, a.session = agent.session, NEW o \in GoIdle(a), Announce(o, OpenSockets)
  PROVE  AllInformed'
<1>1. o.changed \/ o.agent.session = agent.session
  BY SwitchSession DEF GoIdle
<1>2. Closing /\ OpenSockets' = OpenSockets
  BY Zenon DEF Closing, OpenSockets
<1>. QED
  BY <1>1, <1>2, AnnounceInforms, Zenon

\* Registering and unregistering applications informs the senders.
LEMMA ApplicationsInform ==
  ASSUME IInv, AllInformed, UNCHANGED cast, agent' \in AgentType, NEW app \in Apps,
         \/ RegisterApplication(app) \/ UnregisterApplication(app)
         \/ StopApplicationIfRunning(app)
  PROVE  AllInformed'
<1>0. agent \in AgentType
  BY Zenon DEF IInv, AgentInv
<1>1. UNCHANGED ends /\ Closing
  BY Zenon DEF RegisterApplication, UnregisterApplication, StopApplicationIfRunning, Closing
<1>2. ASSUME NEW a, a.session = agent.session,
             \/ \E o \in GoIdle(a) : Announce(o, OpenSockets)
             \/ agent' = a /\ UNCHANGED toSender
      PROVE  AllInformed'
  BY <1>1, <1>2, GoIdleInforms, NothingInforms, Zenon
<1>3. CASE RegisterApplication(app)
  <2>. DEFINE idle == IF app \in IdleScreenApps THEN app ELSE agent.idle_screen_app
              a == [agent EXCEPT !.registered = agent.registered \cup {app},
                                 !.idle_screen_app = idle]
  <2>1. a.session = agent.session
    BY <1>0, Zenon DEF AgentType
  <2>2. \/ \E o \in GoIdle(a) : Announce(o, OpenSockets)
        \/ agent' = a /\ UNCHANGED toSender
    BY <1>3, Zenon DEF RegisterApplication
  <2>. HIDE DEF a
  <2>. QED
    BY <1>2, <2>1, <2>2, Zenon
<1>4. CASE UnregisterApplication(app)
  <2>. DEFINE idle == IF agent.idle_screen_app = app THEN none ELSE agent.idle_screen_app
              a == [agent EXCEPT !.registered = agent.registered \ {app},
                                 !.idle_screen_app = idle]
  <2>1. a.session = agent.session
    BY <1>0, Zenon DEF AgentType
  <2>2. \/ \E o \in GoIdle(a) : Announce(o, OpenSockets)
        \/ agent' = a /\ UNCHANGED toSender
    BY <1>4, Zenon DEF UnregisterApplication
  <2>. HIDE DEF a
  <2>. QED
    BY <1>2, <2>1, <2>2
<1>5. CASE StopApplicationIfRunning(app)
  BY <1>2, <1>5, Zenon DEF StopApplicationIfRunning
<1>. QED
  BY <1>3, <1>4, <1>5, Zenon

\* A socket that fails has no sender to inform.
LEMMA SocketErrorInforms ==
  ASSUME IInv, AllInformed, UNCHANGED cast, agent' \in AgentType, NEW s \in Sockets,
         AgentOnSocketError(s)
  PROVE  AllInformed'
<1>. DEFINE open == OpenSockets \ {s}
            cs == RemoveConnectionsBySocketId(agent.connections, s)
            a == [agent EXCEPT !.connections = cs]
            p(o) == [o EXCEPT !.agent.socket = IF o.agent.socket = s
                                                 THEN none ELSE o.agent.socket]
<1>0. agent \in AgentType /\ MailTyped
  BY Zenon DEF IInv, AgentInv
<1>1. /\ ends' = [ends EXCEPT ![s] = ends[s] \ {"receiver"}]
      /\ \/ \E o \in GoIdle(a) : Announce(p(o), open)
         \/ agent' = a /\ UNCHANGED toSender
  BY Zenon DEF AgentOnSocketError
<1>2. Closing /\ OpenSockets' \subseteq open
  BY <1>0, <1>1, Zenon DEF Closing, OpenSockets, MailTyped
<1>3. a.session = agent.session
  BY <1>0, Zenon DEF AgentType
<1>. HIDE DEF a, open
<1>4. ASSUME NEW o \in GoIdle(a), Announce(p(o), open)
      PROVE  AllInformed'
  <2>. DEFINE v == IF o.agent.socket = s THEN none ELSE o.agent.socket
  <2>1. o.changed \/ o.agent.session = agent.session
    BY <1>3, SwitchSession DEF GoIdle
  <2>2. p(o).agent = [o.agent EXCEPT !.socket = v] /\ p(o).changed = o.changed
    <3>1. p(o) = [o EXCEPT !.agent.socket = v]
      BY Zenon
    <3>. HIDE DEF v, p
    <3>2. /\ [o EXCEPT !.agent.socket = v].agent = [o.agent EXCEPT !.socket = v]
          /\ [o EXCEPT !.agent.socket = v].changed = o.changed
      BY <1>4, OutcomeFacts, Zenon
    <3>. QED
      BY <3>1, <3>2, Zenon
  <2>3. p(o).agent.session = o.agent.session
    <3>1. p(o).agent \in AgentType
      BY <1>4, Zenon DEF Announce
    <3>. HIDE DEF v, p
    <3>. QED
      BY <2>2, <3>1, Zenon DEF AgentType
  <2>. HIDE DEF p
  <2>. QED
    BY <1>2, <1>4, <2>1, <2>2, <2>3, AnnounceInforms, Zenon
<1>. QED
  BY <1>1, <1>2, <1>3, <1>4, NothingInforms, Zenon

\* What is appended to a sequence is of the type of the whole.
LEMMA AppendedType ==
  ASSUME NEW S, NEW p \in Seq(S), NEW m, NEW q \in {<<>>, <<m>>}, p \o q \in Seq(S)
  PROVE  q \in Seq(S)
<1>1. CASE q = <<>>
  BY <1>1
<1>2. CASE q = <<m>>
  <2>1. p \in Seq(S \cup {m}) /\ <<m>> \in Seq(S \cup {m})
    OBVIOUS
  <2>2. Len(p \o <<m>>) = Len(p) + 1 /\ (p \o <<m>>)[Len(p) + 1] = m
    BY <2>1
  <2>3. m \in S
    BY <1>2, <2>2
  <2>. QED
    BY <1>2, <2>3
<1>. QED
  BY <1>1, <1>2, Zenon

\* A reply that is no RECEIVER_STATUS says nothing of the session.
LEMMA ReplyInforms ==
  ASSUME IInv, AllInformed, UNCHANGED <<cast, ends>>, agent'.session = agent.session,
         NEW s \in Sockets, NEW type, type # "RECEIVER_STATUS", NEW m, NEW body,
         Reply(s, type, m, body), toSender' \in [Sockets -> Seq(SenderMail)]
  PROVE  AllInformed'
<1>. DEFINE mail == Message(type, m.destination_id, m.source_id, body)
            news == [t \in Sockets |-> IF t = s THEN Replied(s, <<mail>>) ELSE <<>>]
<1>1. ~IsStatus(mail)
  BY Zenon DEF IsStatus, Message
<1>2. toSender' = [toSender EXCEPT ![s] = toSender[s] \o Replied(s, <<mail>>)]
  BY Zenon DEF Reply
<1>. HIDE DEF mail
<1>3. toSender \in [Sockets -> Seq(SenderMail)]
  BY Zenon DEF IInv, MailTyped
<1>4. \A t \in Sockets : news[t] \in {<<>>, <<mail>>}
                         /\ ("sender" \notin ends[t] => news[t] = <<>>)
  BY Zenon DEF Replied
<1>5. toSender' = [t \in Sockets |-> toSender[t] \o news[t]]
  <2>1. \A t \in Sockets : toSender[t] \o <<>> = toSender[t]
    BY <1>3
  <2>. QED
    BY <1>2, <1>3, <2>1, Zenon
<1>. HIDE DEF news
<1>6. Untold(<<>>) /\ Untold(<<mail>>)
  BY <1>1, EmptyIsLatest DEF Untold
<1>7. \A t \in Sockets : NewsFor(t, news[t])
  <2>1. \A t \in Sockets : toSender[t] \o news[t] \in Seq(SenderMail)
    BY <1>5, Zenon
  <2>2. \A t \in Sockets : Untold(news[t]) /\ news[t] \in Seq(SenderMail)
    BY <1>3, <1>4, <1>6, <2>1, AppendedType
  <2>. QED
    BY <1>4, <2>2, Zenon DEF NewsFor
<1>8. Closing
  BY Zenon DEF Closing
<1>. QED
  BY <1>5, <1>7, <1>8, ReceiverInforms, Zenon

\* LAUNCH informs the senders.
LEMMA LaunchInforms ==
  ASSUME IInv, AllInformed, UNCHANGED cast, agent' \in AgentType, NEW s \in Sockets,
         HandleLaunch(s)
  PROVE  AllInformed'
<1>. DEFINE m == Head(toReceiver[s])
            response(o) ==
              IF o.error
                THEN Message("LAUNCH_ERROR", kPlatformId, m.source_id, none)
                ELSE [ReceiverStatus(o.agent) EXCEPT !.destination_id = m.source_id]
            last(o, t) == IF t = s THEN Replied(s, <<response(o)>>) ELSE <<>>
<1>0. Take(s, "LAUNCH") /\ UNCHANGED ends
  BY Zenon DEF HandleLaunch, Take
<1>1. m \in ReceiverMail
  BY <1>0, TakeFacts, Zenon
<1>2. m.source_id \in Ids
  BY <1>1, Zenon DEF ReceiverMail
<1>3. PICK o \in SwitchToApplication(agent, m.body, s) :
        /\ agent' = o.agent
        /\ toSender' = [t \in Sockets |->
             toSender[t] \o BroadcastReceiverStatus(o, OpenSockets)[t] \o last(o, t)]
  BY Zenon DEF HandleLaunch
<1>4. o.changed \/ o.agent.session = agent.session
  BY SwitchSession
<1>. DEFINE status == ReceiverStatus(o.agent)
            r == response(o)
            first(t) == BroadcastReceiverStatus(o, OpenSockets)[t]
            news == [t \in Sockets |-> first(t) \o last(o, t)]
<1>5. status \in SenderMail /\ Latest(<<status>>, o.agent.session) /\ ~Untold(<<status>>)
  <2>1. status \in SenderMail
    BY <1>3, ReceiverStatusMessage, Zenon
  <2>. QED
    BY <2>1, StatusIsNews, Zenon DEF ReceiverStatus, Message
<1>6. /\ r \in SenderMail
      /\ \/ Untold(<<r>>)
         \/ Latest(<<r>>, o.agent.session) /\ ~Untold(<<r>>)
  <2>1. CASE o.error
    <3>1. kPlatformId \in Ids
      BY DEF kPlatformId, Ids
    <3>2. Message("LAUNCH_ERROR", kPlatformId, m.source_id, none) \in SenderMail
      BY <1>2, <3>1, SenderMessage, Zenon
    <3>3. r = Message("LAUNCH_ERROR", kPlatformId, m.source_id, none)
      BY <2>1, Zenon
    <3>4. r.type # "RECEIVER_STATUS"
      BY <3>3, Zenon DEF Message
    <3>. HIDE DEF r
    <3>. QED
      BY <3>2, <3>3, <3>4, SMTT(60) DEF Untold, IsStatus
  <2>2. CASE ~o.error
    <3>1. r = [status EXCEPT !.destination_id = m.source_id]
      BY <2>2, Zenon
    <3>2. r \in SenderMail
      BY <1>2, <1>3, <3>1, ReceiverStatusMessage, Zenon
    <3>3. r.type = "RECEIVER_STATUS" /\ r.body.session_id = o.agent.session
      BY <3>1, Zenon DEF ReceiverStatus, Message
    <3>. HIDE DEF r
    <3>. QED
      BY <3>2, <3>3, StatusIsNews, Zenon
  <2>. QED
    BY <2>1, <2>2, Zenon
<1>7. ASSUME NEW t \in Sockets
      PROVE  /\ last(o, t) \in Seq(SenderMail) /\ first(t) \in Seq(SenderMail)
             /\ last(o, t) = <<>> \/ (last(o, t) = <<r>> /\ "sender" \in ends[t])
             /\ first(t) = IF o.changed /\ t \in OpenSockets /\ "sender" \in ends[t]
                             THEN <<status>> ELSE <<>>
  BY <1>5, <1>6, SMTT(60) DEF Replied, BroadcastReceiverStatus
<1>8. toSender' = [t \in Sockets |-> toSender[t] \o news[t]]
  <2>1. toSender \in [Sockets -> Seq(SenderMail)]
    BY Zenon DEF IInv, MailTyped
  <2>. HIDE DEF first, last
  <2>2. \A t \in Sockets : toSender[t] \o first(t) \o last(o, t) = toSender[t] \o news[t]
    <3>. SUFFICES ASSUME NEW t \in Sockets
                  PROVE  (toSender[t] \o first(t)) \o last(o, t)
                           = toSender[t] \o (first(t) \o last(o, t))
      BY Zenon
    <3>1. toSender[t] \in Seq(SenderMail)
      BY <2>1, Zenon
    <3>2. first(t) \in Seq(SenderMail) /\ last(o, t) \in Seq(SenderMail)
      BY <1>7, Zenon
    <3>. DEFINE x == toSender[t]
                y == first(t)
                z == last(o, t)
    <3>3. x \in Seq(SenderMail) /\ y \in Seq(SenderMail) /\ z \in Seq(SenderMail)
      BY <3>1, <3>2, Zenon
    <3>. HIDE DEF x, y, z
    <3>4. (x \o y) \o z = x \o (y \o z)
      BY <3>3, ConcatAssociative
    <3>. QED
      BY <3>4, Zenon DEF x, y, z
  <2>. QED
    BY <1>3, <2>2, Zenon DEF first
<1>. HIDE DEF first, last, r, status
<1>9. ASSUME NEW t \in Sockets
      PROVE  NewsFor(t, news[t])
  <2>. DEFINE p == first(t)
              q == last(o, t)
              n == p \o q
  <2>0. news[t] = n /\ p \in Seq(SenderMail) /\ q \in Seq(SenderMail)
        /\ n \in Seq(SenderMail)
    BY <1>7, SMTT(60)
  <2>1. CASE "sender" \notin ends[t]
    <3>1. n = <<>>
      BY <1>7, <2>1, SMTT(60)
    <3>. HIDE DEF n
    <3>. QED
      BY <2>0, <2>1, <3>1, EmptyIsLatest, Zenon DEF NewsFor
  <2>2. CASE t \notin OpenSockets'
    <3>1. "sender" \notin ends[t] => n = <<>>
      BY <1>7
    <3>. HIDE DEF n
    <3>. QED
      BY <2>0, <2>2, <3>1, Zenon DEF NewsFor
  <2>3. CASE "sender" \in ends[t] /\ t \in OpenSockets'
    <3>1. t \in OpenSockets
      BY <1>0, <2>3, Zenon DEF OpenSockets
    <3>2. CASE q = <<>> \/ Untold(<<r>>)
      <4>1. Untold(q)
        BY <1>7, <3>2, EmptyIsLatest, Zenon
      <4>2. CASE o.changed
        <5>1. Latest(p, o.agent.session) /\ ~Untold(p)
          BY <1>5, <1>7, <2>3, <3>1, <4>2, Zenon
        <5>2. Latest(n, o.agent.session) /\ ~Untold(n)
          BY <2>0, <4>1, <5>1, UntoldAppended, Zenon
        <5>. HIDE DEF n
        <5>. QED
          BY <1>3, <2>0, <2>3, <5>2, Zenon DEF NewsFor
      <4>3. CASE ~o.changed
        <5>1. n = q
          BY <1>7, <2>0, <4>3, SMTT(60)
        <5>. HIDE DEF n
        <5>. QED
          BY <1>3, <1>4, <2>0, <2>3, <4>1, <4>3, <5>1, Zenon DEF NewsFor
      <4>. QED
        BY <4>2, <4>3, Zenon
    <3>3. CASE q = <<r>> /\ ~Untold(<<r>>)
      <4>1. Latest(n, o.agent.session) /\ ~Untold(n)
        BY <1>6, <2>0, <3>3, LatestAppended, Zenon
      <4>. HIDE DEF n
      <4>. QED
        BY <1>3, <2>0, <2>3, <4>1, Zenon DEF NewsFor
    <3>. QED
      BY <1>7, <3>2, <3>3, Zenon
  <2>. QED
    BY <2>1, <2>2, <2>3, Zenon
<1>10. Closing
  BY <1>0, Zenon DEF Closing
<1>. HIDE DEF news
<1>. QED
  BY <1>8, <1>9, <1>10, ReceiverInforms, Zenon

\* Every message to the agent leaves the senders informed.
LEMMA AgentMessageInforms ==
  ASSUME IInv, AllInformed, UNCHANGED cast, agent' \in AgentType, MailTyped',
         NEW s \in Sockets, AgentOnMessage(s)
  PROVE  AllInformed'
<1>0. agent \in AgentType /\ toSender' \in [Sockets -> Seq(SenderMail)]
  BY Zenon DEF IInv, AgentInv, MailTyped, SenderMail, Ids, Details, AllAppIds
<1>1. \A cs : [agent EXCEPT !.connections = cs].session = agent.session
  BY <1>0, Zenon DEF AgentType
<1>2. CASE HandleAuthChallenge(s)
  BY <1>0, <1>2, ReplyInforms, Zenon DEF HandleAuthChallenge, Take
<1>3. CASE HandleConnect(s)
  <2>1. agent'.session = agent.session /\ UNCHANGED ends
    BY <1>1, <1>3, Zenon DEF HandleConnect, Take
  <2>2. \E type, m : type # "RECEIVER_STATUS" /\ Reply(s, type, m, none)
    <3>1. "CLOSE" # "RECEIVER_STATUS" /\ "CONNECTED" # "RECEIVER_STATUS"
      BY Zenon
    <3>. QED
      BY <1>3, <3>1, Zenon DEF HandleConnect
  <2>. QED
    BY <1>0, <2>1, <2>2, ReplyInforms, Zenon
<1>4. CASE HandleClose(s)
  BY <1>1, <1>4, NothingInforms, Zenon DEF HandleClose, Take, Closing
<1>5. CASE HandleLaunch(s)
  BY <1>5, LaunchInforms, Zenon
<1>6. CASE HandleStop(s)
  <2>1. UNCHANGED ends /\ Closing
    BY <1>6, Zenon DEF HandleStop, Take, Closing
  <2>2. \/ \E o \in GoIdle(agent) : Announce(o, OpenSockets)
        \/ UNCHANGED <<agent, toSender>>
    BY <1>6, Zenon DEF HandleStop
  <2>. QED
    BY <2>1, <2>2, GoIdleInforms, NothingInforms, Zenon
<1>7. CASE PortOnMessage(s)
  <2>. DEFINE m == Head(toReceiver[s])
              cs == AddConnection(agent.connections, Connection(m.destination_id, m.source_id, s))
  <2>1. CASE UNCHANGED <<ends, agent, toSender>>
    BY <2>1, NothingInforms, Zenon DEF Closing
  <2>2. ASSUME UNCHANGED ends, agent' = [agent EXCEPT !.connections = cs],
               NEW accepted, Reply(s, "ANSWER", m, accepted)
        PROVE  AllInformed'
    <3>1. agent'.session = agent.session
      BY <1>1, <2>2, Zenon
    <3>. HIDE DEF m
    <3>. QED
      BY <1>0, <2>2, <3>1, ReplyInforms, Zenon
  <2>3. CASE AbortAgent
    <3>1. agent'.session = agent.session /\ UNCHANGED toSender
      BY <1>0, <2>3, Zenon DEF AbortAgent, AgentType
    <3>2. Closing
      BY <2>3, Zenon DEF AbortAgent, Closing
    <3>. QED
      BY <3>1, <3>2, NothingInforms, Zenon
  <2>. QED
    BY <1>7, <2>1, <2>2, <2>3, Zenon DEF PortOnMessage, Take
<1>. QED
  BY <1>2, <1>3, <1>4, <1>5, <1>6, <1>7, Zenon DEF AgentOnMessage

\* A step of the sender at socket s leaves what the others know alone.
LEMMA SenderInformed ==
  ASSUME IInv, AllInformed, NEW s \in Sockets, UNCHANGED agent, NEW c, NEW q, NEW e,
         cast' = [cast EXCEPT ![s] = c], toSender' = [toSender EXCEPT ![s] = q],
         ends' = [ends EXCEPT ![s] = e], Informed(s)'
  PROVE  AllInformed'
<1>. SUFFICES ASSUME NEW t \in Sockets, t # s
              PROVE  Informed(t)'
  BY Zenon DEF AllInformed
<1>1. cast'[t] = cast[t] /\ toSender'[t] = toSender[t] /\ ends'[t] = ends[t]
  BY Zenon DEF IInv, MailTyped
<1>2. Informed(t)
  BY Zenon DEF AllInformed
<1>. QED
  BY <1>1, <1>2 DEF Informed, OpenSockets

\* Shutdown() leaves the other senders informed.
LEMMA ShutdownInforms ==
  ASSUME IInv, AllInformed, NEW s \in Sockets, NEW writable,
         Shutdown(s, cast[s], writable), UNCHANGED agent
  PROVE  AllInformed'
<1>. DEFINE c == ShutdownState(cast[s])
            e == ends[s] \ {"sender"}
<1>0. /\ cast \in [Sockets -> CastType] /\ toSender \in [Sockets -> Seq(SenderMail)]
      /\ ends \in [Sockets -> SUBSET {"sender", "receiver"}]
  BY Zenon DEF IInv, MailTyped
<1>1. /\ cast' = [cast EXCEPT ![s] = c] /\ toSender' = [toSender EXCEPT ![s] = <<>>]
      /\ ends' = [ends EXCEPT ![s] = e]
  BY Zenon DEF Shutdown
<1>2. c.state # "idle" /\ c.app_session_id = none
  BY <1>0 DEF ShutdownState, CastType
<1>. HIDE DEF c
<1>3. cast'[s] = c /\ toSender'[s] = <<>> /\ ends'[s] = e
  BY <1>0, <1>1, Zenon
<1>4. Informed(s)'
  BY <1>2, <1>3, EmptyIsLatest, Zenon DEF Informed
<1>. QED
  BY <1>1, <1>4, SenderInformed, Zenon

\* Messages other than a RECEIVER_STATUS leave the session that is known alone.
LEMMA ReadInforms ==
  ASSUME IInv, AllInformed, NEW s \in Sockets, NEW c, NEW messages,
         Go(s, c, messages), Read(s), UNCHANGED agent, toSender[s] # <<>>,
         cast[s].state # "idle", c.state # "idle",
         LET m == Head(toSender[s])
             d == cast[s]
         IN  \/ /\ ~IsStatus(m) \/ d.app_session_id = none
                /\ c.app_session_id = d.app_session_id
                /\ c.has_launched = d.has_launched
             \/ /\ IsStatus(m) /\ c.has_launched
                /\ c.app_session_id = m.body.session_id
  PROVE  AllInformed'
<1>. DEFINE m == Head(toSender[s])
            d == cast[s]
            q == toSender[s]
<1>0. /\ cast \in [Sockets -> CastType] /\ toSender \in [Sockets -> Seq(SenderMail)]
      /\ ends \in [Sockets -> SUBSET {"sender", "receiver"}] /\ q \in Seq(SenderMail)
  BY Zenon DEF IInv, MailTyped
<1>1. /\ cast' = [cast EXCEPT ![s] = c] /\ toSender' = [toSender EXCEPT ![s] = Tail(q)]
      /\ ends' = [ends EXCEPT ![s] = ends[s]]
  BY <1>0, Zenon DEF Go, Read
<1>2. cast'[s] = c /\ toSender'[s] = Tail(q) /\ ends'[s] = ends[s]
  BY <1>0, <1>1, Zenon
<1>3. Informed(s) /\ "sender" \in ends[s]
  BY Zenon DEF AllInformed, Informed
<1>4. s \in OpenSockets' <=> s \in OpenSockets
  BY <1>2, Zenon DEF OpenSockets
<1>5. s \in OpenSockets =>
        /\ Latest(Tail(q), agent.session)
        /\ Untold(Tail(q)) /\ IsStatus(m) => m.body.session_id = agent.session
        /\ Untold(Tail(q)) /\ ~IsStatus(m) => Untold(q)
  BY <1>0, <1>3, LatestTail, Zenon DEF Informed
<1>6. c.app_session_id # none => c.has_launched
  BY <1>3, Zenon DEF Informed
<1>7. s \in OpenSockets /\ Untold(Tail(q)) /\ c.app_session_id # none
        => c.app_session_id = agent.session
  BY <1>3, <1>5, Zenon DEF Informed
<1>. HIDE DEF q, m, d
<1>8. Informed(s)'
  BY <1>2, <1>3, <1>4, <1>5, <1>6, <1>7, Zenon DEF Informed
<1>. QED
  BY <1>1, <1>8, SenderInformed, Zenon

\* A step of a sender takes in the news.
LEMMA SenderActInforms ==
  ASSUME IInv, AllInformed, NEW s \in Sockets, SenderAct(s), UNCHANGED agent
  PROVE  AllInformed'
<1>. DEFINE c == cast[s]
            m == Head(toSender[s])
<1>0. c \in CastType
  BY Zenon DEF IInv
<1>1. ASSUME NEW writable, Shutdown(s, c, writable)
      PROVE  AllInformed'
  BY <1>1, ShutdownInforms, Zenon
<1>2. CASE FactoryOnMessage(s)
  <2>. DEFINE k == Connection(kPlatformId, kPlatformId, s)
              d == [Opening(c, k) EXCEPT !.state = "up", !.platform = k]
  <2>1. \/ Shutdown(s, c, FALSE)
        \/ /\ toSender[s] # <<>> /\ m.type = "AUTH" /\ c.state = "authenticating"
           /\ Go(s, d, <<ConnectMessage(k)>>) /\ Read(s)
    BY <1>2, Zenon DEF FactoryOnMessage, Read
  <2>2. /\ d.state = "up" /\ d.app_session_id = c.app_session_id
        /\ d.has_launched = c.has_launched
    BY <1>0, Zenon DEF Opening, CastType
  <2>3. m.type = "AUTH" => ~IsStatus(m)
    BY Zenon DEF IsStatus
  <2>. HIDE DEF d
  <2>. QED
    BY <1>1, <2>1, <2>2, <2>3, ReadInforms, Zenon
<1>3. CASE HandleConnectedResponse(s)
  <2>. DEFINE d == Opened(c, Addressed(s))
  <2>1. /\ toSender[s] # <<>> /\ m.type = "CONNECTED" /\ c.state = "up"
        /\ Go(s, d, <<OpenedMessage(c, Addressed(s))>>) /\ Read(s)
    BY <1>3, Zenon DEF HandleConnectedResponse, Reading
  <2>2. /\ d.state = c.state /\ d.app_session_id = c.app_session_id
        /\ d.has_launched = c.has_launched
    BY <1>0, Zenon DEF Opened, CastType
  <2>3. ~IsStatus(m)
    BY <2>1, Zenon DEF IsStatus
  <2>. HIDE DEF d
  <2>. QED
    BY <2>1, <2>2, <2>3, ReadInforms, Zenon
<1>4. CASE HandleReceiverStatus(s)
  <2>. DEFINE l == [c EXCEPT !.has_launched = TRUE, !.app_session_id = m.body.session_id]
              k == Connection(kStreamingSender, m.body.transport_id, s)
              d == [Opening(l, k) EXCEPT !.remote = k]
  <2>1. /\ toSender[s] # <<>> /\ c.state = "up" /\ m.type = "RECEIVER_STATUS"
        /\ \/ Shutdown(s, c, TRUE)
           \/ /\ Read(s)
              /\ \/ ~c.has_launched /\ Go(s, c, <<>>)
                 \/ Go(s, l, <<>>) \/ Go(s, d, <<ConnectMessage(k)>>)
    BY <1>4, Zenon DEF HandleReceiverStatus, Reading
  <2>2. /\ l.state = c.state /\ l.has_launched /\ l.app_session_id = m.body.session_id
        /\ d.state = c.state /\ d.has_launched /\ d.app_session_id = m.body.session_id
    BY <1>0, Zenon DEF Opening, CastType
  <2>3. IsStatus(m)
    BY <2>1, Zenon DEF IsStatus
  <2>4. ~c.has_launched => c.app_session_id = none
    BY Zenon DEF AllInformed, Informed
  <2>5. CASE ~c.has_launched /\ Go(s, c, <<>>) /\ Read(s)
    BY <2>1, <2>4, <2>5, ReadInforms, Zenon
  <2>. HIDE DEF l, d
  <2>. QED
    BY <1>1, <2>1, <2>2, <2>3, <2>5, ReadInforms, Zenon
<1>5. CASE HandleAnswer(s)
  <2>. DEFINE d == [c EXCEPT !.streaming = TRUE]
  <2>1. /\ toSender[s] # <<>> /\ c.state = "up" /\ m.type = "ANSWER"
        /\ Shutdown(s, c, TRUE) \/ (Go(s, d, <<>>) /\ Read(s))
    BY <1>5, Zenon DEF HandleAnswer, Reading
  <2>2. /\ d.state = c.state /\ d.app_session_id = c.app_session_id
        /\ d.has_launched = c.has_launched
    BY <1>0, Zenon DEF CastType
  <2>3. ~IsStatus(m)
    BY <2>1, Zenon DEF IsStatus
  <2>. HIDE DEF d
  <2>. QED
    BY <1>1, <2>1, <2>2, <2>3, ReadInforms, Zenon
<1>6. CASE \/ FactoryOnConnectionFailed(s) \/ HandleLaunchError(s)
           \/ CastOnSocketError(s) \/ OnSessionError(s) \/ DestroyCastAgent(s)
  <2>1. Shutdown(s, c, FALSE) \/ Shutdown(s, c, TRUE) \/ Shutdown(s, c, c.state = "up")
    BY <1>6, Zenon DEF FactoryOnConnectionFailed, HandleLaunchError, CastOnSocketError,
                       OnSessionError, DestroyCastAgent
  <2>. QED
    BY <1>1, <2>1, Zenon
<1>. QED
  BY <1>2, <1>3, <1>4, <1>5, <1>6, Zenon DEF SenderAct, CastOnMessage

\* A sender that connects knows nothing, and has been told nothing.
LEMMA ConnectInforms ==
  ASSUME IInv, AllInformed, NEW s \in Sockets, Connect(s)
  PROVE  AllInformed'
<1>. DEFINE c == [cast[s] EXCEPT !.state = "authenticating"]
            e == {"sender", "receiver"}
<1>0. /\ cast \in [Sockets -> CastType] /\ toSender \in [Sockets -> Seq(SenderMail)]
      /\ ends \in [Sockets -> SUBSET {"sender", "receiver"}]
  BY Zenon DEF IInv, MailTyped
<1>1. /\ ends' = [ends EXCEPT ![s] = e] /\ cast' = [cast EXCEPT ![s] = c]
      /\ toSender' = [toSender EXCEPT ![s] = toSender[s]] /\ UNCHANGED agent
      /\ cast[s].state = "idle"
  BY <1>0, Zenon DEF Connect, FactoryOnConnected
<1>2. c.state # "idle" /\ c.app_session_id = cast[s].app_session_id
  BY <1>0 DEF CastType
<1>3. cast[s].app_session_id = none /\ toSender[s] = <<>>
  BY <1>1, Zenon DEF AllInformed, Informed
<1>. HIDE DEF c
<1>4. cast'[s] = c /\ toSender'[s] = <<>> /\ ends'[s] = e
  BY <1>0, <1>1, <1>3, Zenon
<1>5. Informed(s)'
  BY <1>2, <1>3, <1>4, EmptyIsLatest, Zenon DEF Informed
<1>. QED
  BY <1>1, <1>5, SenderInformed, Zenon

\* Nobody is connected at first.
LEMMA InitInformed == Init => AllInformed
<1>. SUFFICES ASSUME Init, NEW s \in Sockets
              PROVE  Informed(s)
  BY Zenon DEF AllInformed
<1>1. ends[s] = {} /\ toSender[s] = <<>>
  BY Zenon DEF Init, ChannelInit
<1>2. cast[s].app_session_id = none
  <2>1. PICK ids : cast = [t \in Sockets |->
            [state |-> "idle", app_id |-> ids[t], platform |-> none,
             remote |-> none, pending |-> {}, connections |-> {},
             has_launched |-> FALSE, app_session_id |-> none,
             session |-> FALSE, streaming |-> FALSE]]
    BY Zenon DEF Init, CastInit
  <2>. QED
    BY <2>1, Zenon
<1>. QED
  BY <1>1, <1>2, Zenon DEF Informed, OpenSockets

\* Every step leaves the senders informed.
LEMMA NextInformed == IInv /\ AllInformed /\ [Next]_vars => AllInformed'
<1>. SUFFICES ASSUME IInv, AllInformed, [Next]_vars
              PROVE  AllInformed'
  BY Zenon
<1>0. agent' \in AgentType /\ MailTyped'
  BY NextIInv, Zenon DEF IInv, AgentInv, AgentType, ConnectionType, Ids, AllAppIds
<1>1. CASE UNCHANGED vars
  BY <1>1, Zenon DEF vars, channelVars, AllInformed, Informed, OpenSockets, Untold, Latest
<1>2. ASSUME NEW s \in Sockets, Connect(s)
      PROVE  AllInformed'
  BY <1>2, ConnectInforms, Zenon
<1>3. CASE ReceiverAct /\ UNCHANGED cast
  BY <1>0, <1>3, ApplicationsInform, SocketErrorInforms, AgentMessageInforms, Zenon DEF ReceiverAct
<1>4. ASSUME NEW s \in Sockets, SenderAct(s), UNCHANGED agent
      PROVE  AllInformed'
  BY <1>4, SenderActInforms, Zenon
<1>. QED
  BY <1>1, <1>2, <1>3, <1>4, Zenon DEF Next

\* A sender that knows an application session and has read all it was sent knows
\* the session that runs, for any number of senders, applications and messages in
\* flight: every switch is broadcast to every open socket after it was made, so
\* that the last RECEIVER_STATUS under way always names the running session.
THEOREM SendersFollowSession == Spec => []SendersKnowSession
<1>1. AllInformed => SendersKnowSession
  BY DEF AllInformed, Informed, SendersKnowSession, Untold, OpenSockets
<1>. QED
  BY <1>1, InitIInv, NextIInv, InitInformed, NextInformed, PTL DEF Spec
=============================================================================
