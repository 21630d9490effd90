-------------------------- MODULE MdnsProbeManager --------------------------
(***************************************************************************)
(* The claiming of a domain name by the hosts of a link: MdnsProbe and        *)
(* MdnsProbeManager of every host, and the multicast network between them.    *)
(*                                                                            *)
(* All hosts ask for the same name.  Names are numbered: 0 is the requested   *)
(* name and n > 0 is CreateRetryDomainName(requested, n).  A host's address   *)
(* record is its number, so that the lexicographic order of the records is    *)
(* the order of the numbers.  Time is counted in ticks, and an alarm is the   *)
(* number of ticks until it is due.                                           *)
(***************************************************************************)
EXTENDS Optional, FiniteSets

CONSTANTS
  Hosts,           \* a set of integers: each host's address record
  ProbeQueries,    \* kProbeIterationCountBeforeSuccess
  ProbeDelay,      \* ticks of kDelayBetweenProbeQueries
  PostponeDelay,   \* ticks of kSimultaneousProbeDelay
  NetworkDelay,    \* ticks in which the network delivers a message
  MaxLost,         \* bound: how many messages the network loses
  MaxCopied        \* bound: how many it delivers twice

\* MdnsProbeImpl: the name probed for, the queries sent so far without a
\* conflict, and when the next one is due.
Probe == [target_name : Nat, successful_probe_queries : Int, alarm : Int]

ASSUME ProbeAssumption ==
  /\ Hosts \subseteq Int /\ IsFiniteSet(Hosts)
  /\ none \notin Int /\ none \notin Probe
  /\ {ProbeQueries, ProbeDelay, PostponeDelay, NetworkDelay} \subseteq Nat
  /\ {MaxLost, MaxCopied} \subseteq Nat
  /\ ProbeQueries >= 3 /\ 2 * NetworkDelay < ProbeDelay

VARIABLES
  probe,      \* ongoing_probes_ of each host: its one probe, or none
  completed,  \* completed_probes_ of each host: the names it claimed
  network,    \* the messages under way
  lost,       \* how many messages were lost
  copied      \* how many were duplicated

probeVars == <<probe, completed, network, lost, copied>>

ProbeInit ==
  /\ probe = [h \in Hosts |-> none]
  /\ completed = [h \in Hosts |-> {}]
  /\ network = {}
  /\ lost = 0 /\ copied = 0

\* MdnsProbeImpl's constructor, with an initial delay of up to ProbeDelay
NewProbe(name, delay) ==
  [target_name |-> name, successful_probe_queries |-> 0, alarm |-> delay]

IsDomainClaimed(h, name) == name \in completed[h]

\* StartProbe() creates a probe unless there is one or the name is claimed.
StartedProbes(h, delay) ==
  IF probe[h] # none \/ IsDomainClaimed(h, 0)
  THEN probe
  ELSE [probe EXCEPT ![h] = NewProbe(0, delay)]

Datagrams(kind, src, dests, name) ==
  { [kind |-> kind, src |-> src, dest |-> d, name |-> name, due |-> NetworkDelay]
      : d \in dests }

-----------------------------------------------------------------------------
\* OnDomainFound() of the manager's client, which the action that takes these
\* steps performs, is told of the name found, or of none.

Queried(p) ==
  [p EXCEPT !.successful_probe_queries = @ + 1, !.alarm = ProbeDelay]

ProbeQuery(h) ==
  /\ probe' = [probe EXCEPT ![h] = Queried(@)]
  /\ network' = network \cup Datagrams("query", h, Hosts \ {h}, probe[h].target_name)
  /\ UNCHANGED completed

OnProbeSuccess(h) ==
  /\ probe' = [probe EXCEPT ![h] = none]
  /\ completed' = [completed EXCEPT ![h] = @ \cup {probe[h].target_name}]
  /\ UNCHANGED network

ProbeOnce(h, found) ==
  /\ probe[h] # none /\ probe[h].alarm = 0
  /\ IF probe[h].successful_probe_queries < ProbeQueries
     THEN ProbeQuery(h) /\ found = none
     ELSE OnProbeSuccess(h) /\ found = probe[h].target_name
  /\ UNCHANGED <<lost, copied>>

\* Mutant: the queries sent before the tie-break still count.
PostponedKept(p) == [p EXCEPT !.alarm = PostponeDelay]

\* Postpone(): the queries sent so far count for nothing.
Postponed(p) == [p EXCEPT !.successful_probe_queries = 0, !.alarm = PostponeDelay]

\* Mutant: the greater record defers as well.
TiebreakBothDefer(h, m) ==
  IF probe[h] # none /\ probe[h].target_name = m.name
  THEN [probe EXCEPT ![h] = Postponed(@)]
  ELSE probe

\* The host with the smaller record defers to the other.
TiebreakSimultaneousProbes(h, m) ==
  IF probe[h] # none /\ probe[h].target_name = m.name /\ h < m.src
  THEN [probe EXCEPT ![h] = Postponed(@)]
  ELSE probe

\* Mutant: a name is defended while it is only being probed.
RespondWhileProbing(h, m) ==
  /\ IF \/ IsDomainClaimed(h, m.name)
        \/ probe[h] # none /\ probe[h].target_name = m.name /\ h > m.src
     THEN /\ network' = (network \ {m}) \cup Datagrams("response", h, {m.src}, m.name)
          /\ UNCHANGED probe
     ELSE /\ network' = network \ {m}
          /\ probe' = TiebreakSimultaneousProbes(h, m)
  /\ UNCHANGED <<completed, lost, copied>>

RespondToProbeQuery(h, m) ==
  /\ IF IsDomainClaimed(h, m.name)
     THEN /\ network' = (network \ {m}) \cup Datagrams("response", h, {m.src}, m.name)
          /\ UNCHANGED probe
     ELSE /\ network' = network \ {m}
          /\ probe' = TiebreakSimultaneousProbes(h, m)
  /\ UNCHANGED <<completed, lost, copied>>

\* Mutant: the probe ends, and the client is not told of the name it has.
OnProbeFailureUntold(h, found) ==
  LET new_name == probe[h].target_name + 1 IN
  IF IsDomainClaimed(h, new_name)
  THEN probe' = [probe EXCEPT ![h] = none] /\ found = none
  ELSE /\ \E delay \in 0..ProbeDelay :
            probe' = [probe EXCEPT ![h] = NewProbe(new_name, delay)]
       /\ found = none

\* OnProbeFailure() goes on with the next name, unless the host has claimed that
\* one already.
OnProbeFailure(h, found) ==
  LET new_name == probe[h].target_name + 1 IN
  IF IsDomainClaimed(h, new_name)
  THEN probe' = [probe EXCEPT ![h] = none] /\ found = new_name
  ELSE /\ \E delay \in 0..ProbeDelay :
            probe' = [probe EXCEPT ![h] = NewProbe(new_name, delay)]
       /\ found = none

\* MdnsProbeImpl::OnMessageReceived(): any answer about the name is a conflict.
\* Responses have one answer here.  With several about the name, the loop of the
\* code goes on after OnProbeFailure() has destroyed the probe.
ProbeOnMessage(h, m, found) ==
  /\ network' = network \ {m}
  /\ IF probe[h] # none /\ probe[h].target_name = m.name
     THEN OnProbeFailure(h, found)
     ELSE UNCHANGED probe /\ found = none
  /\ UNCHANGED <<completed, lost, copied>>

\* A message arrives: MdnsReceiver::OnRead() passes a response to the probe and
\* a query, through MdnsResponder, to the manager.
OnRead(h, found) ==
  \E m \in network :
    /\ m.dest = h
    /\ \/ m.kind = "query" /\ RespondToProbeQuery(h, m) /\ found = none
       \/ m.kind = "response" /\ ProbeOnMessage(h, m, found)

-----------------------------------------------------------------------------
\* The network and the clock.  Time does not pass an alarm or a delivery that
\* is due.

Lose ==
  /\ lost < MaxLost
  /\ \E m \in network : network' = network \ {m}
  /\ lost' = lost + 1
  /\ UNCHANGED <<probe, completed, copied>>

\* A second copy of a message, which arrives in this tick
Duplicate ==
  /\ copied < MaxCopied
  /\ \E m \in network :
       m.due > 0 /\ network' = network \cup {[m EXCEPT !.due = 0]}
  /\ copied' = copied + 1
  /\ UNCHANGED <<probe, completed, lost>>

Tick ==
  /\ \A m \in network : m.due > 0
  /\ \A h \in Hosts : probe[h] # none => probe[h].alarm > 0
  /\ \/ network # {}
     \/ \E h \in Hosts : probe[h] # none
  /\ network' = { [m EXCEPT !.due = @ - 1] : m \in network }
  /\ probe' = [h \in Hosts |->
                 IF probe[h] = none THEN none ELSE [probe[h] EXCEPT !.alarm = @ - 1]]
  /\ UNCHANGED <<completed, lost, copied>>

-----------------------------------------------------------------------------
\* No name is claimed by two hosts as long as the network has lost nothing, and
\* takes a query and its response in the delay between queries: whenever the hosts start, in
\* whatever order their queries cross, and however often one defers to another.
\* (One loss is enough to break this.  Of the three queries of a host the first
\* two may reach another before it starts, and those of the other may arrive
\* just before the first host is done.)
OneOwner ==
  lost = 0 => \A g, h \in Hosts : g # h => completed[g] \cap completed[h] = {}

\* A host passes over a name only for another that has claimed it: the names a
\* host has gone by are all owned, so that a probe fails once per other host
\* at most.
PassedNamesOwned ==
  \A h \in Hosts :
    LET reached == completed[h]
                     \cup {p.target_name : p \in {probe[h]} \ {none}} IN
    \A name \in reached :
      \A n \in 0..(name - 1) : \E g \in Hosts \ {h} : n \in completed[g]

=============================================================================
