----------------------------- MODULE MdnsRecords ----------------------------
(***************************************************************************)
(* A publisher and a querier of the same link.                                *)
(***************************************************************************)
EXTENDS MdnsQuerier

vars == <<publisherVars, networkVars, querierVars>>

Init == PublisherInit /\ QuerierInit

Publish ==
  \/ \E rdata \in Rdata : RegisterRecord(rdata) \/ UpdateRegisteredRecord(rdata)
  \/ UnregisterRecord
  \/ QueueAnnouncement
  \/ ProcessRecordQueue
  \/ ResponderOnMessage
  \/ Lose

Query ==
  \/ StartQuery \/ StopQuery \/ ReinitializeQueries
  \/ QuerierOnMessage
  \/ FollowUpQuery
  \/ \E k \in Classes : Refresh(k) \/ Expire(k) \/ Evict(k)

Next ==
  \/ Publish /\ UNCHANGED querierVars
  \/ Query

\* Tasks that are posted run, messages that are not lost arrive, and time
\* passes, so that no alarm waits forever while the others go off.  (The alarms of
\* denials need not go off for what follows.)
Fairness ==
  /\ WF_vars(ProcessRecordQueue /\ UNCHANGED querierVars)
  /\ WF_vars(ResponderOnMessage /\ UNCHANGED querierVars)
  /\ WF_vars(QuerierOnMessage)
  /\ SF_vars(FollowUpQuery)
  /\ SF_vars(Refresh(kIN) \/ Expire(kIN))

Spec == Init /\ [][Next]_vars /\ Fairness

-----------------------------------------------------------------------------
\* What the client of a querier was told exists is tracked, so that the client
\* will be told of its end too: no service stays on a list for ever because a
\* callback was missed, in whatever order records are announced, updated,
\* withdrawn, refreshed, evicted and expire (OnRecordExpired(),
\* ProcessSinglyTrackedUniqueRecord()).
ViewBacked ==
  cache.up /\ cache.view # none =>
    question /\ cache.tracker[kIN] # none /\ cache.tracker[kIN].rdata = cache.view

\* A record that is still registered, and was asked for when it was due for a
\* refresh, is refreshed unless a message was lost for each of the queries: the
\* known answers of a refresh query do not keep the publisher from answering.
RefreshAnswered ==
  LET tracker == cache.tracker[kIN] IN
  cache.up /\ Quiet /\ tracker # none /\ tracker.ttl = "full"
    /\ tracker.asked > lost => tracker.rdata # Registered

\* A record that is registered no more vanishes from the client's view, even if
\* the goodbye was lost, because it expires (MdnsRecordTracker::SendQuery()).  Or
\* the querier's process ends: a query for the record is answered by a denial,
\* and unless it ignores denials, the querier fails a check on it.
StaleVanishes ==
  \A rdata \in Rdata :
    <>[](Registered # rdata) => <>[](cache.up => cache.view # rdata)

\* The client of a query that goes on sees the registered record again and
\* again, whatever was lost, denied before, evicted or has expired.
RegisteredSeen ==
  \A rdata \in Rdata :
    <>[](cache.up /\ question /\ Registered = rdata) => []<>(cache.view = rdata)

\* Refresh queries are sent for the records that answer an open question.
RefreshesLinked ==
  cache.up /\ question /\ cache.tracker[kIN] # none => cache.tracker[kIN].linked

=============================================================================
