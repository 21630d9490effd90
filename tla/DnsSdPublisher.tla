--------------------------- MODULE DnsSdPublisher ---------------------------
(***************************************************************************)
(* The DNS-SD publishers (PublisherImpl) of the hosts of a link, which        *)
(* publish one instance each, all under the same requested name, on top of    *)
(* the MdnsProbeManager of their hosts.                                       *)
(*                                                                            *)
(* The announcements of published records (MdnsPublisher) are left out: they  *)
(* come from the owner of a name only, and to a probe they are one more way   *)
(* to learn of the owner, at other times than the answers to its queries.     *)
(* They may hold several records of the name; see ProbeOnMessage().           *)
(***************************************************************************)
EXTENDS MdnsProbeManager

CONSTANT MaxRegister   \* bound: Register() calls per host

VARIABLES
  pending,    \* pending_instances_ of each host holds its instance
  published,  \* published_instances_: the name of the instance's endpoint, or none
  registers   \* Register() calls so far

publisherVars == <<pending, published, registers>>
dnsSdVars == <<probeVars, publisherVars>>

DnsSdInit ==
  /\ ProbeInit
  /\ pending = [h \in Hosts |-> FALSE]
  /\ published = [h \in Hosts |-> none]
  /\ registers = [h \in Hosts |-> 0]

\* Register() of an instance that is not pending.  If the instance is published
\* already it is updated (here: to what it is) and then treated as a new one.
\* The instance stays pending whether or not StartProbe() has started a probe.
Register(h) ==
  /\ registers[h] < MaxRegister
  /\ registers' = [registers EXCEPT ![h] = @ + 1]
  /\ ~pending[h]
  /\ pending' = [pending EXCEPT ![h] = TRUE]
  /\ \E delay \in 0..ProbeDelay : probe' = StartedProbes(h, delay)
  /\ UNCHANGED <<completed, network, lost, copied, published>>

\* DeregisterAll() neither stops the probe nor gives up the claim.
DeregisterAll(h) ==
  /\ pending[h] \/ published[h] # none
  /\ pending' = [pending EXCEPT ![h] = FALSE]
  /\ published' = [published EXCEPT ![h] = none]
  /\ UNCHANGED <<probeVars, registers>>

\* The first endpoint of an instance stays: emplace() does not replace it.
OnDomainFound(h, name) ==
  /\ IF name # none /\ pending[h]
     THEN /\ pending' = [pending EXCEPT ![h] = FALSE]
          /\ published' = [published EXCEPT ![h] = IF @ = none THEN name ELSE @]
     ELSE UNCHANGED <<pending, published>>
  /\ UNCHANGED registers

\* What an alarm or the network makes a host do.  The name found is the one
\* probed for, or the one after it.
Step(h) ==
  \E found \in {none} \cup UNION { {p.target_name, p.target_name + 1}
                                      : p \in {probe[h]} \ {none} } :
    /\ ProbeOnce(h, found) \/ OnRead(h, found)
    /\ OnDomainFound(h, found)

Progress ==
  \/ \E h \in Hosts : Step(h)
  \/ Tick /\ UNCHANGED publisherVars

DnsSdNext ==
  \/ \E h \in Hosts : Register(h) \/ DeregisterAll(h)
  \/ (Lose \/ Duplicate) /\ UNCHANGED publisherVars
  \/ Progress

\* The clock runs, alarms go off when they are due, and messages that are not
\* lost arrive.
DnsSdSpec == DnsSdInit /\ [][DnsSdNext]_dnsSdVars /\ WF_dnsSdVars(Progress)

-----------------------------------------------------------------------------
\* What is published is claimed, and what waits to be published either has a
\* probe that will call OnDomainFound(), or asks for a name that this host has
\* claimed in an earlier registration.
PublisherServed ==
  \A h \in Hosts :
    /\ published[h] # none => IsDomainClaimed(h, published[h])
    /\ pending[h] => probe[h] # none \/ IsDomainClaimed(h, 0)

\* Every probe comes to an end: hosts do not keep deferring to each other.
EveryProbeConcludes == \A h \in Hosts : probe[h] # none ~> probe[h] = none

=============================================================================
