---------------------------- MODULE MdnsPublisher ---------------------------
(***************************************************************************)
(* MdnsPublisher and MdnsResponder of a host that owns a domain name, and      *)
(* publishes at most one unique record (say, of type TXT) under it.            *)
(*                                                                             *)
(* A record is its rdata, a number (rdata are compared when a message is       *)
(* processed), its class, and whether it is a goodbye, a record with a TTL of  *)
(* zero.                                                                       *)
(***************************************************************************)
EXTENDS Optional, Sequences, SequencesExt

CONSTANTS
  Rdata,        \* a set of numbers
  MaxAttempts,  \* new_record_announcement_count of the config
  MaxChanges,   \* bound: changes of what is registered
  MaxLost       \* bound: messages lost

ASSUME PublisherAssumption ==
  /\ Rdata \subseteq Int /\ none \notin Int
  /\ {MaxAttempts, MaxChanges, MaxLost} \subseteq Nat

VARIABLES
  announcer,  \* the RecordAnnouncer in records_: its record_ and attempts_; or none
  to_send,    \* records_to_send_
  queries,    \* queries under way to the publisher: their known answers
  responses,  \* responses under way to the querier: their records
  changes,
  lost

publisherVars == <<announcer, to_send, changes>>
networkVars == <<queries, responses, lost>>

PublisherInit ==
  /\ announcer = none
  /\ to_send = <<>>
  /\ queries = <<>> /\ responses = <<>>
  /\ changes = 0 /\ lost = 0

\* DnsClass
kIN == "IN"
kANY == "ANY"

Record(rdata) == [rdata |-> rdata, class |-> kIN, goodbye |-> FALSE]
CreateGoodbyeRecord(rdata) == [rdata |-> rdata, class |-> kIN, goodbye |-> TRUE]

\* The rdata of the record that says there is no record
kNSEC == none

\* It is made with the class of the question, not that of a record, and all
\* questions of DNS-SD are for any class.
CreateNsecRecord == [rdata |-> kNSEC, class |-> kANY, goodbye |-> FALSE]

Registered == IF announcer = none THEN none ELSE announcer.rdata

\* The network, the batch of records and the processing of messages are all
\* done in less time than any alarm that is modelled here takes: a second.
Quiet == queries = <<>> /\ responses = <<>> /\ to_send = <<>>

-----------------------------------------------------------------------------
\* QueueRecord(): a goodbye replaces the announcement that is queued, and keeps
\* later ones out.
QueueRecord(record) ==
  LET same == {i \in DOMAIN to_send : to_send[i].rdata = record.rdata} IN
  IF same = {} THEN Append(to_send, record)
  ELSE [i \in DOMAIN to_send |->
          IF i \in same /\ record.goodbye THEN record ELSE to_send[i]]

Change == changes < MaxChanges /\ changes' = changes + 1

\* QueueAnnouncement() as the announcer's constructor calls it
NewAnnouncer(rdata) ==
  /\ announcer' = [rdata |-> rdata, attempts |-> 1]
  /\ to_send' = QueueRecord(Record(rdata))

RegisterRecord(rdata) ==
  /\ announcer = none
  /\ NewAnnouncer(rdata)
  /\ Change
  /\ UNCHANGED networkVars

UnregisterRecord ==
  /\ announcer # none
  /\ announcer' = none
  /\ to_send' = QueueRecord(CreateGoodbyeRecord(announcer.rdata))
  /\ Change
  /\ UNCHANGED networkVars

\* There is no goodbye for the old record: the new one is to replace it.
UpdateRegisteredRecord(rdata) ==
  /\ announcer \notin {none} /\ announcer.rdata # rdata
  /\ NewAnnouncer(rdata)
  /\ Change
  /\ UNCHANGED networkVars

\* QueueAnnouncement() as the announcer's alarm calls it
QueueAnnouncement ==
  /\ Quiet
  /\ announcer # none /\ announcer.attempts < MaxAttempts
  /\ announcer' = [announcer EXCEPT !.attempts = @ + 1]
  /\ to_send' = QueueRecord(Record(announcer.rdata))
  /\ UNCHANGED <<changes, networkVars>>

ProcessRecordQueue ==
  /\ to_send # <<>>
  /\ responses' = Append(responses, ToSet(to_send))
  /\ to_send' = <<>>
  /\ UNCHANGED <<announcer, changes, queries, lost>>

\* ApplyQueryResults() for the owner of the name: the record, unless the querier
\* knows it, or else an NSEC record.
ResponseTo(known_answers) ==
  IF announcer = none THEN <<{CreateNsecRecord}>>
  ELSE IF announcer.rdata \in known_answers THEN <<>>
  ELSE <<{Record(announcer.rdata)}>>

ResponderOnMessage ==
  /\ queries # <<>>
  /\ queries' = Tail(queries)
  /\ responses' = responses \o ResponseTo(Head(queries))
  /\ UNCHANGED <<publisherVars, lost>>

\* The network drops a query or a response.
Lose ==
  /\ lost < MaxLost
  /\ lost' = lost + 1
  /\ \/ queries # <<>> /\ queries' = Tail(queries) /\ UNCHANGED responses
     \/ responses # <<>> /\ responses' = Tail(responses) /\ UNCHANGED queries
  /\ UNCHANGED publisherVars

=============================================================================
