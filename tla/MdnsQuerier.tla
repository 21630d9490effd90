----------------------------- MODULE MdnsQuerier ----------------------------
(***************************************************************************)
(* MdnsQuerier with its trackers, for the records of one domain name and type, *)
(* and the client that queries them: with questions for any type and class, as *)
(* all of DNS-SD's are.                                                        *)
(***************************************************************************)
EXTENDS MdnsPublisher

CONSTANTS
  kRefreshAttempts,  \* of kTtlFractions, all but the last: refreshes of a record
  MaxEvictions       \* bound: evictions from the cache

ASSUME QuerierAssumption == {kRefreshAttempts, MaxEvictions} \subseteq Nat

VARIABLES
  ignore_nsec_responses,  \* of the config
  question,   \* whether questions_ and callbacks_ hold the client's question
  cache,      \* up: no OSP_CHECK has failed; tracker: the MdnsRecordTracker in
              \* records_ of each class, or none; view: the record the client
              \* was told of, or none
  evictions

querierVars == <<ignore_nsec_responses, question, cache, evictions>>

\* Records are of class IN, their denials (NSEC) of class ANY.
Classes == {kIN, kANY}

EmptyCache(up) == [up |-> up, tracker |-> [k \in Classes |-> none], view |-> none]

QuerierInit ==
  /\ ignore_nsec_responses \in BOOLEAN
  /\ question = FALSE
  /\ cache = EmptyCache(TRUE)
  /\ evictions = 0

\* ProcessCallbacks(): the client is told, if it has its callback here.
Told(c, rdata) == IF question THEN [c EXCEPT !.view = rdata] ELSE c

\* RecordTrackerLruCache::Find(): any class stands for all of them.
Find(c, class) == {k \in Classes : class \in {k, kANY} /\ c.tracker[k] # none}

\* An OSP_CHECK that fails ends the process, with all it holds.
FailsCheck == EmptyCache(FALSE)

-----------------------------------------------------------------------------
\* A tracker with its record's TTL: that of the record ("full"), the second that
\* a goodbye leaves, or zero.  asked is for the properties: the refresh queries
\* for a record since its last update.
Tracked(record, linked, ttl) ==
  [rdata |-> record.rdata, linked |-> linked, ttl |-> ttl,
   attempt_count |-> 0, asked |-> 0]

\* AddRecord() links a new tracker to the questions for its very type and class,
\* that is not to a question for any type.  The goodbye of an unknown record is
\* tracked as it is, and expires at once.
AddRecord(c, record) ==
  [c EXCEPT !.tracker[record.class] =
     Tracked(record, FALSE, IF record.goodbye THEN "zero" ELSE "full")]

\* MdnsRecordTracker::Update() refuses a record of another class, and a goodbye
\* for another rdata than its own.
Refuses(c, k, record) ==
  \/ record.class # k
  \/ record.goodbye /\ record.rdata # c.tracker[k].rdata

Update(c, k, record) ==
  LET updated == [c EXCEPT !.tracker[k] =
        Tracked(record, @.linked, IF record.goodbye THEN "second" ELSE "full")]
  IN  IF record.rdata = c.tracker[k].rdata THEN updated
      ELSE Told(updated, record.rdata)

\* OSP_CHECK_EQ(updated_count, 1)
ProcessSinglyTrackedUniqueRecord(c, k, record) ==
  IF Refuses(c, k, record) THEN FailsCheck ELSE Update(c, k, record)

\* Only a denial finds trackers of both classes.  It updates that of the denial
\* before it, and no other is of its class: OSP_CHECK_GE(expire_count, 1) fails.
ProcessMultiTrackedUniqueRecord == FailsCheck

ShouldAnswerRecordBeProcessed(record) == question \/ Find(cache, record.class) # {}

\* The client is not told of a first denial.
ProcessUniqueRecord(c, record) ==
  LET trackers == Find(c, record.class) IN
  CASE trackers = {} ->
         IF record.rdata = kNSEC THEN AddRecord(c, record)
         ELSE Told(AddRecord(c, record), record.rdata)
    [] trackers = Classes -> ProcessMultiTrackedUniqueRecord
    [] OTHER ->
         ProcessSinglyTrackedUniqueRecord(c, CHOOSE k \in trackers : TRUE, record)

ProcessRecord(c, record) ==
  IF ~c.up \/ (ignore_nsec_responses /\ record.rdata = kNSEC) THEN c
  ELSE ProcessUniqueRecord(c, record)

\* OnMessageReceived() processes the records of a message in the order of their
\* rdata, not in that in which they were queued.
QuerierOnMessage ==
  /\ cache.up /\ responses # <<>>
  /\ LET relevant == {r \in Head(responses) : ShouldAnswerRecordBeProcessed(r)}
         records == SetToSortSeq(relevant, LAMBDA r, s : r.rdata < s.rdata)
     IN  cache' = FoldLeft(ProcessRecord, cache, records)
  /\ responses' = Tail(responses)
  /\ UNCHANGED <<publisherVars, queries, lost, ignore_nsec_responses, question, evictions>>

-----------------------------------------------------------------------------
\* The known answers of a query: the linked record, unless half its TTL is over
\* (IsNearingExpiry()), which it may be before the first refresh and is then.  A
\* record that a goodbye has left a second is none, its TTL is not the record's;
\* nor is a denial, which the responder compares with no record.  (The limit of
\* one query a second is left out: it is far below 5% of a TTL.)

\* Mutant: a record is a known answer to the end.
KnownAnswersAlways(tracker) ==
  {IF tracker # none /\ tracker.linked THEN {tracker.rdata} ELSE {}}

KnownAnswers(tracker) ==
  IF tracker # none /\ tracker.linked /\ tracker.ttl = "full"
       /\ tracker.attempt_count = 0
  THEN {{}, {tracker.rdata}}
  ELSE {{}}

\* MdnsQuestionTracker::SendQuery() with the given trackers
SendQuery(tracker) ==
  \E known \in KnownAnswers(tracker[kIN]) : queries' = Append(queries, known)

\* The trackers, all linked to the question, or none of them
Linked(linked) ==
  [k \in Classes |-> IF cache.tracker[k] = none THEN none
                     ELSE [cache.tracker[k] EXCEPT !.linked = linked]]

\* Mutant: the client of a new question is not told what is in the cache.
StartQueryUntold ==
  /\ cache.up /\ ~question
  /\ question' = TRUE
  /\ cache' = [cache EXCEPT !.tracker = Linked(TRUE)]
  /\ UNCHANGED <<publisherVars, networkVars, ignore_nsec_responses, evictions>>

\* StartQuery() tells the client what is in the cache, but for denials.
\* AddQuestion() links the new question to the trackers.
StartQuery ==
  /\ cache.up /\ ~question
  /\ question' = TRUE
  /\ cache' = [cache EXCEPT !.tracker = Linked(TRUE),
                            !.view = IF cache.tracker[kIN] = none THEN none
                                     ELSE cache.tracker[kIN].rdata]
  /\ UNCHANGED <<publisherVars, networkVars, ignore_nsec_responses, evictions>>

\* A client that stops its query forgets what it was told.
StopQuery ==
  /\ cache.up /\ question
  /\ question' = FALSE
  /\ cache' = [cache EXCEPT !.tracker = Linked(FALSE), !.view = none]
  /\ UNCHANGED <<publisherVars, networkVars, ignore_nsec_responses, evictions>>

\* ReinitializeQueries() discards the records without a word to the client, and
\* starts the question anew; its client starts anew as well.
ReinitializeQueries ==
  /\ cache.up
  /\ cache' = EmptyCache(TRUE)
  /\ UNCHANGED <<publisherVars, networkVars, ignore_nsec_responses, question, evictions>>

\* The alarm of MdnsQuestionTracker: the first query and, without end, others.
FollowUpQuery ==
  /\ cache.up /\ question /\ Quiet
  /\ SendQuery(cache.tracker)
  /\ UNCHANGED <<publisherVars, responses, lost, querierVars>>

-----------------------------------------------------------------------------
\* The alarm of MdnsRecordTracker before the record's end: SendQuery() of the
\* question, if the tracker is linked to it.
Refresh(k) ==
  /\ cache.up /\ Quiet
  /\ cache.tracker[k] # none
  /\ cache.tracker[k].ttl = "full" /\ cache.tracker[k].attempt_count < kRefreshAttempts
  /\ IF cache.tracker[k].linked
     THEN /\ cache' = [cache EXCEPT !.tracker[k].attempt_count = @ + 1,
                                    !.tracker[k].asked = IF k = kIN THEN @ + 1 ELSE @]
          /\ SendQuery(cache'.tracker)
     ELSE /\ cache' = [cache EXCEPT !.tracker[k].attempt_count = @ + 1]
          /\ UNCHANGED queries
  /\ UNCHANGED <<publisherVars, responses, lost, ignore_nsec_responses, question, evictions>>

\* Mutant: the tracker is erased, and the client not told.
OnRecordExpiredQuietly(k) == cache' = [cache EXCEPT !.tracker[k] = none]

\* The client is told of the end of a record that it was told of.
OnRecordExpired(k) ==
  cache' = [IF cache.tracker[k].rdata = kNSEC THEN cache ELSE Told(cache, none)
              EXCEPT !.tracker[k] = none]

\* Mutant: a record that was not refreshed starts a new life.
ExpireNever(k) ==
  /\ cache.up /\ Quiet
  /\ cache.tracker[k] # none /\ cache.tracker[k].attempt_count = kRefreshAttempts
  /\ cache' = [cache EXCEPT !.tracker[k].attempt_count = 0]
  /\ UNCHANGED <<publisherVars, networkVars, ignore_nsec_responses, question, evictions>>

\* The last alarm of MdnsRecordTracker.  With a TTL of zero it is due at once.
Expire(k) ==
  /\ cache.up
  /\ cache.tracker[k] # none
  /\ \/ cache.tracker[k].ttl = "zero"
     \/ Quiet /\ \/ cache.tracker[k].ttl = "second"
                 \/ cache.tracker[k].attempt_count = kRefreshAttempts
  /\ OnRecordExpired(k)
  /\ UNCHANGED <<publisherVars, networkVars, ignore_nsec_responses, question, evictions>>

\* lru_order_.back(): of two trackers the denial is the older one, but an update
\* with a goodbye moves the record to the end.
LeastRecentlyUsed(k) ==
  /\ cache.tracker[k] # none
  /\ Find(cache, kANY) = Classes => (k = kIN <=> cache.tracker[kIN].ttl = "second")

\* StartTracking() of another record, with querier_max_records_cached of them in
\* the cache, this one the least recently used: ExpireNow()
Evict(k) ==
  /\ cache.up /\ evictions < MaxEvictions
  /\ LeastRecentlyUsed(k)
  /\ OnRecordExpired(k)
  /\ evictions' = evictions + 1
  /\ UNCHANGED <<publisherVars, networkVars, ignore_nsec_responses, question>>

=============================================================================
