# Verification of the Open Screen library

This directory is a TLA+ verification project for the code under `src/`: the
Open Screen library with its Cast protocols (streaming, channel, application
control), mDNS / DNS-SD discovery, the Open Screen Protocol, a platform layer,
and the ControlCast application built on top. The models cover the parts in
which several parties, threads or messages meet: the **Cast Streaming
transport**, the **negotiation** of a streaming session, **launching and using
an application** over a Cast channel, **mDNS** from the claim of a name to the
cache of a querier, and the **alarms and tasks** all of them run on.

## The system and what is modelled

| part | code | modules | state |
| --- | --- | --- | --- |
| truncated identifiers | `cast/streaming/impl/expanded_value_base.h`, `frame_id.h` | `FrameIds`, `StreamingSenderProofs` | modelled, proved |
| RTCP feedback codec | `compound_rtcp_builder.cc`, `compound_rtcp_parser.cc` | `RtcpFeedback`, `FeedbackExchange`, `StreamingSenderProofs` | feedback messages; that they are read as meant is proved |
| Receiver | `receiver.cc`, `frame_collector.cc`, `rtp_packet_parser.cc` | `CastReceiver`, `ReceiverAlone`, `CastReceiverProofs` | modelled, proved |
| Sender | `sender.cc`, `rtp_packetizer.cc` | `CastSender`, `StreamingSenderProofs` | modelled, safety proved |
| the two over a network | `receiver_packet_router.cc`, `sender_packet_router.cc` | `CastStreaming`, `StreamingSenderProofs`, `CastStreamingProofs` | modelled, safety proved |
| packet router of the Sender | `sender_packet_router.cc` | `SenderPacketRouter`, `SenderPacketRouterProofs` | bursts, priorities; safety proved |
| alarms | `util/alarm.cc` | `Alarm`, `OneShotTimer`, `SchedulingProofs` | modelled, proved |
| task runner | `platform/impl/task_runner.cc` | `TaskRunner`, `SchedulingProofs` | modelled, safety proved |
| session negotiation | `sender_session.cc`, `receiver_session.cc`, `session_messenger.cc`, `environment.cc` | `SessionMessages`, `SenderSession`, `ReceiverSession`, `Negotiation`, `NegotiationSenderProofs`, `NegotiationProofs` | modelled without JSON and constraints, proved |
| Cast channel | `virtual_connection_router.cc`, `connection_namespace_handler.cc`, `cast_socket_message_port.cc` | `VirtualConnections` | modelled without framing |
| application agent of the receiver | `application_agent.cc`, `mirroring_application.cc` | `ApplicationAgent`, `CastServiceProofs` | modelled without availability requests, proved |
| a sender of the channel | `looping_file_cast_agent.cc`, `sender_socket_factory.cc` | `CastAgent`, `CastApps` | control only |
| mDNS probing | `mdns_probe.cc`, `mdns_probe_manager.cc` | `MdnsProbeManager`, `CastServiceProofs` | modelled, safety proved |
| DNS-SD publisher | `publisher_impl.cc` | `DnsSdPublisher`, `CastServiceProofs` | one instance, no updates; safety proved |
| mDNS publisher and responder | `mdns_publisher.cc`, `mdns_responder.cc` | `MdnsPublisher` | one unique record |
| mDNS querier | `mdns_querier.cc`, `mdns_trackers.cc` | `MdnsQuerier`, `MdnsRecords` | one name and type |
| all others | see [What the models leave out](#what-the-models-leave-out) | - | not modelled |

`PROJECT.json` has the full inventory ("components"), the correspondence of
each definition with source lines ("map"), and the hazards the properties
answer ("hazards").

### How the transport works

A *Sender* is handed encoded frames (`EnqueueFrame`). It keeps up to
`kMaxUnackedFrames` of them in a circular array, cuts them into RTP packets and
sends a packet whenever the packet router asks for one. A *Receiver* collects
packets into frames in a circular queue of the same size. It reports back in
RTCP packets: a *checkpoint* (everything up to that frame is received), an
acknowledgement bit per later frame, and NACKs for missing packets, all with
frame IDs cut to 8 bits. The Sender releases acknowledged frames, re-sends what
is missing, and sends the last packet of the last frame ("Kickstart") when the
Receiver may not know of that frame at all. The consumer of the Receiver takes
frames in order. When a frame is late, it may skip to a later frame that can
be decoded without it. A frame may change the *target playout delay*, and a
Receiver of video may ask for a key frame (picture loss indication, PLI).

## The modules

**`FrameIds`** has `FrameId`'s truncation and the three expansions of
`ExpandedValueBase`. `Width` is 256 in the code.

**`RtcpFeedback`** has the Cast Feedback message as `CompoundRtcpBuilder` writes it
and `CompoundRtcpParser` reads it. It is written as operators: which packets start a loss
field, which fields and ACK bits fit into the room that is left, and how they
are expanded. The buffer itself is abstracted to a number of 32-bit words.

**`FeedbackExchange`** runs one builder against one parser for any queue
state and any room.

**`CastCommon`** has what both ends share: queue slots, RTP packets, and the network's
RTCP direction.

**`CastReceiver`** is the Receiver. Its variables are the members of `class Receiver` and the ones of
`CompoundRtcpBuilder` and `RtpPacketParser` that belong to it; each handler is
an action:

| action | code |
| --- | --- |
| `OnReceivedRtpPacket` (`IgnorePacket`, `DropPacket`, `CollectPacket`) | `Receiver::OnReceivedRtpPacket`, by early return |
| `OnReceivedSenderReport` | `Receiver::OnReceivedRtcpPacket` |
| `SendScheduledRtcp`, `SendRtcp` | `Receiver::SendRtcp` and its alarm |
| `RequestKeyFrame`, `SetConsumer` | the methods of that name |
| `AdvanceToNextFrame`, `PollNextFrame`, `DropAllFramesBefore` | the scan for the next frame, and the skip |
| `CheckFrameReady`, `CheckWithoutConsumer` | the task of `ScheduleFrameReadyCheck` |
| `ConsumeNextFrame` | `Receiver::ConsumeNextFrame` |

Time is reduced to what the code compares: a capture time is the frame it
belongs to (or `null`), and whether a frame is late is decided by `playHead`,
an arbitrary frame chosen at each scan.

**`ReceiverAlone`** closes the Receiver with a network that delivers any
well-formed packet at any time. `CastReceiverProofs` is about this specification.

**`CastSender`** is the Sender: `EnqueueFrame`, `SendFlaggedPacket`,
`SendKickstartPacket`, `SuspendRtp` (what the packet router gets when it asks),
`OnReceivedRtcpPacket` with the three handlers of feedback in the order the
parser calls them. `CancelInFlightData` is left out, because nothing but a unit
test calls it. Whether a NACKed packet was sent
too recently to be sent again is a choice (`resend`).

**`CastStreaming`** composes the two. The RTP network is the set of packets
ever sent: it may deliver any of them any number of times in any order, or
never. An RTCP packet is kept in order of sending, may be delivered in any
order, and gets lost when `RtcpInTransit` later ones were sent. Since frame IDs
on the wire are short, a packet can only be delivered while fewer than
`PacketLifetime` frames have been sent since; that bound on the life time of a
packet is the assumption the protocol itself makes.

**`Clock`** declares the time the three modules below share, and **`Optional`** the value
that stands for an empty optional or pointer in those after them.

**`SenderPacketRouter`** is the router that asks the Senders of a session for
packets: `OnSenderCreated`, `OnSenderDestroyed`, `RequestRtpSend`,
`RequestRtcpSend`, `OnReceivedPacket` and `SendBurstOfPackets`, each with the
`ScheduleNextBurst` it ends with. Times are numbers, `kImmediately` the least and
`kNever` the greatest. A Sender is reduced to how many packets it has flagged,
whether it has a report, and when it wants to kickstart. The alarm is two
times: that of its task, and that of the functor it has in the task runner's queue,
which is run late by at most `MaxLateness`. That the functor would find its task not
yet due, and post itself again, never happens here: `FunctorNotEarly`, a part of `SendersServed`,
says so.

**`Alarm`** is `util/alarm.cc` with the functors it has in the task runner's queue:
`posted` says of each whether it is queued, whether it points to the Alarm, and
when it is due. The actions are `ScheduleWithTask`, `Cancel`, `Destroy` and
`RunFunctor` (the functor's call operator with `TryInvoke` and `InvokeLater`). What the
client's task does to the Alarm is done by the other actions afterwards, because
`TryInvoke` does nothing after it has called the task. **`OneShotTimer`** is what
an Alarm promises; `ImplementsTimer` maps `scheduled_task_` to its task and
`alarm_time_` to its time.

**`TaskRunner`** is `TaskRunnerImpl`. `pc` is where the thread is in
`RunUntilStopped`; every critical section is one step, and sleeping is a state
that posting ends. With a waiter the runner gives the mutex up before it
sleeps, as the code does. A task may be plain, post another task, or be the one
`RequestStopSoon` posts. Spurious wake-ups happen, but nothing relies on them.

**`SessionMessages`**, **`SenderSession`**, **`ReceiverSession`** and
**`Negotiation`** are one receiver session and the sender sessions that send it
OFFERs. The message ports keep messages in order and lose none, as TLS does; a
reply may come after its time-out. A stream is its index, codec, codec parameter,
SSRC and DSCP suggestion. `session[s]` has the members of `SenderSession` and its
messenger, the receiver's variables those of `ReceiverSession` and the state of
the Environment's socket. The actions are `Negotiate`, `NegotiateRemoting`,
`RequestCapabilities`, `SenderOnMessage` (an ANSWER with `SelectSenders`, or
capabilities), `ReplyIfTimedOut`, `ReceiverOnMessage` (`OnOffer` with
`InitializeSession` and its ANSWER, the refusals, capabilities, RPC),
`OnSocketReady`, `OnSocketInvalid` and `DestroyReceiverSession`.

**`VirtualConnections`** has a router's table of virtual connections, with the
order of ids that `AddConnection` depends on, and one TLS connection per sender.
**`ApplicationAgent`** is the receiver: `RegisterApplication`,
`UnregisterApplication`, `StopApplicationIfRunning`, `AgentOnSocketError` and one
action per message. `SwitchToApplication` is an operator on the agent's record with
its steps in the order of the code, `LaunchOrFallBack` its last part: `Launch` of an
application may fail, and the idle screen takes over. **`CastAgent`** is
a `LoopingFileCastAgent` with its socket factory: it connects, authenticates, opens
the platform connection, launches, opens the connection to the application and
offers. **`CastApps`** composes them. Where an `OSP_CHECK` of the code fails, the
process ends (`AbortAgent`, `FailsCheck`).

**`MdnsProbeManager`** has `MdnsProbe` and `MdnsProbeManagerImpl` of all hosts of a
link that want the same name, and a multicast network that delays, loses and
repeats. Time is counted in ticks, an alarm is the number of ticks left.
**`DnsSdPublisher`** adds `PublisherImpl`: `Register`, `DeregisterAll` and
`OnDomainFound`.

**`MdnsPublisher`** announces, updates, withdraws and answers for one unique
record, **`MdnsQuerier`** caches it for a client with a question, refreshes it,
lets it expire and evicts it, and **`MdnsRecords`** composes them. A record is its
rdata, its class and whether it is a goodbye. Published records have class IN. A
denial (NSEC) has the class of the question it answers, ANY for all of DNS-SD's, so
that the querier has at most one tracker for each of the two classes, and `Find`
for class ANY finds both. The TTL is reduced to the alarms that divide it (`full`),
the second a goodbye leaves (`second`), and that of a goodbye for a record that is
not tracked (`zero`): the client is told of such a record, and at once of its end.
`Quiet` says that network and batches are done: they take
less time than any of these alarms.

## What TLC checks

Every run is in `PROJECT.json`; the configurations are the `.cfg` files.

| run | specification | what it shows |
| --- | --- | --- |
| `receiver` | `ReceiverAlone` | queue, checkpoint, capture times and delay changes stay consistent (`QueueConsistent`); no consumer is left asleep; nothing is forgotten |
| `streaming` | `CastStreaming` | the Sender's accounts are right and it can always kickstart (`SenderConsistent`), it never releases what was not received (`NeverAhead`), frames are not mixed up although IDs wrap, both ends agree on delays, skipped frames are not needed, a late PLI never forces a key frame nobody waits for |
| `streaming_live` | lossy network, fair | every accepted frame is consumed and acknowledged in the end, a picture loss is noticed or repaired |
| `feedback` | `FeedbackExchange` | the parser reads what the builder had to say (`FeedbackExact`), the oldest losses first |
| `router` | `SenderPacketRouter` | no Sender is forgotten (`SendersServed`), no report is late, bursts keep their distance and size, importance decides |
| `alarm` | `Alarm`, fair | the Alarm and its functors agree (`FunctorsAgree`), it is a one-shot timer, scheduled tasks run |
| `task_runner` | `TaskRunner` with and without a waiter, fair | every task runs once, in order, not early (`TasksOnceInTurn`); nothing that is due at once is left behind by a stop; no task and no stop request is missed by a runner about to sleep, or, with a waiter, for longer than its time-out |
| `negotiation` | `Negotiation` | every OFFER gets one ANSWER, every request one reply or time-out; Senders and Receivers pair up after late ANSWERs, interruptions and competing senders; the RpcMessenger is that of the current negotiation |
| `cast_apps` | `CastApps` | no virtual connection outlives its socket or its application, no application outlives the socket it was launched for, senders that have read everything know the session that runs |
| `dns_sd_publisher` | `DnsSdPublisher`, fair | a name has one owner if nothing was lost, names are passed over only if owned, the publisher hears of the name it waits for, every probe concludes |
| `mdns_records` | `MdnsRecords`, fair | what the client was told is tracked, refresh queries are answered, stale records vanish although the goodbye was lost, a registered record is seen |
| `refreshes_linked` | `MdnsRecords` | expected to fail, see [Findings](#findings) |

Where a property has several parts (`QueueConsistent` and the like), each part is
a definition of its own with its own comment.

*Bounds.* The queue has 2 entries in the composition and 3 for the Receiver
alone. Streams end with frame 6 for the Receiver, with frame 5 in the composition and
with frame 2 in its liveness run, so that in the safety runs every slot is used at least twice and
the window is full and empty in turn. `Width` is 8 for the Receiver and 5 in the
composition, where `kMaxUnackedFrames` = 2 is to `MaxDistanceForExpansion` = 2 what 120
is to 127 in the code, and frame IDs wrap within a run; it is 256 for the feedback codec. Frames have 1 or 2
packets: one is the case in which first and last packet coincide, two the
smallest in which a frame can be incomplete; the liveness run has frames of one
packet. `FeedbackExchange` uses packet
numbers around the reach of a loss field and room from nothing to
the point where everything fits. `RtcpInTransit` is 1 or 2; with 2 a newer
packet can overtake an older one. `PacketLifetime` is 3 frames, the most for which
an old packet cannot be taken for a new one.
The router has two Senders, a limit of two packets per burst, and time (`MaxTime` = 7) for three
bursts; a report is repeated after one burst interval, so that a repeated one
competes with the RTP packets of another Sender. An Alarm is scheduled up to four times within five
ticks with three functors in the queue, which is one more than it takes to have
one cancelled, one queued and one being posted. The task runner gets three tasks; the last time of its clock stands for
all later ones, so that no liveness property holds because time ends.

In `negotiation` one sender makes two requests and another interferes with one;
the configurations include codecs that are preferred, accepted, unknown or
refused, none at all, and invalid arguments. In `cast_apps` there are two senders, a
mirroring application with two ids, an idle screen, and two application sessions:
one that ends and one that replaces it. A sender has at most one unread message
before the receiver does something of its own accord; messages are handled
however many are unread. In `dns_sd_publisher` two hosts register up to
twice, with one message lost and one repeated. A tick is a third of the 250 ms between
queries. A message takes at most one tick: `ProbeAssumption` has a
query and its response fit between two queries, without which no order of queries
could keep two hosts from claiming one name. Three hosts without loss were explored too,
with the same results. In `mdns_records` one record is registered,
changed and withdrawn up to three times with two values, and one message is lost and
one record evicted. A record is refreshed twice before it expires; the four times of
the code (`kTtlFractions`) were explored too, with the same results. `MCMdnsRecords` lets value 1 come first; both orders of
the two values in a batch occur, and without this restriction the results are
the same.

*Fairness* (`FairSpec`, `FairAlarmSpec`, `FairRunnerSpec`) is used by the runs with liveness properties. In `CastStreaming` it is weak
fairness of the alarms (the RTCP alarm, the frame-ready check), of the router
asking a Sender that is not suspended, of the arrival of a Sender Report that was sent,
and of the application setting a consumer that takes the frames it is told of: tasks
on a task runner that is never starved. The application need not offer any frame. It is strong fairness of the delivery of
each packet that is sent again and again, which is what "the network loses
packets, but not all of them" means. Nothing is assumed of any single
transmission. In `Alarm` it is weak fairness of time and of the task runner for every
functor that is due, which `task_runner` shows of the task runner itself. In
`TaskRunner` it is weak fairness of the runner's thread and of time: no thread
has to post anything, and spurious wake-ups need not happen. In `DnsSdPublisher` it is
weak fairness of the hosts, the network and the clock together: no client has to
register anything, and nothing has to get lost. In `MdnsRecords` posted tasks run and
messages that were not lost arrive (weak fairness), and the alarms of the question
and of the tracked record, which wait for the network to be quiet, are not put off
forever (strong fairness, because `Quiet` comes and goes). Nothing is assumed of the
alarms of a tracked denial.
`negotiation` and `cast_apps` check safety only: nothing in the
code bounds the wait of a sender for its application.

### Findings

`refreshes_linked` is expected to end in a violation. `MdnsRecordTracker` refreshes a
record only if it is associated with a question, and `MdnsQuerier::AddRecord` associates
it with the questions *of the type of the record* or, when the *record* has type
ANY, with all of them. Questions of type ANY, the only ones DNS-SD asks, get the records that
are in the cache when the question starts, and none that arrive later.

Other comments of the code that the models do not bear out:

| where | what happens |
| --- | --- |
| `receiver.cc:453` | `SendRtcp` asks `packet_nacks.empty()` after the vector was moved away, so feedback with NACKs is repeated every 500 ms, not every 30 ms (`MovedFrom`) |
| `receiver.cc:502` | the debug check in `ResolveTargetPlayoutDelay` looks at slots of frames that were consumed and may belong to new, untimed frames |
| `receiver.h:289` | an old key frame that completes late overwrites `last_key_frame_received_`; the next `RequestKeyFrame` sets the PLI with a newer key frame in the queue |
| `sender.cc:594` | after `CancelInFlightData` the frame `ChooseKickstartPacket` checks for may be gone (not modelled) |
| `task_runner.cc:84` | a signal does not wake a task runner that sleeps on its condition variable with no delayed task |
| `sender_session.h`, `current_negotiation_` | the answer is lined up with the latest configuration, not the one it answers: `AnswersLinedUp` holds because all clients here wait for the outcome of a negotiation before they start another |
| `mdns_service.h:81` | the ownership of a name is never released: an instance registered again after `DeregisterAll` stays pending |
| `mdns_probe_manager.h:40` | no message is sent to a host that probes for the name of an ongoing probe: `RespondToProbeQuery` compares the records, and postpones the own probe or does nothing |
| `virtual_connection_router.cc:220` | `IsTransportNamespace` asks `find_first_of`, so that every namespace longer than the prefix that begins with a letter of it, those of applications included, passes without a virtual connection |

Steps of the models that end a process because an `OSP_CHECK` of the code fails:
a second sender offers to the application another sender launched
(`cast_socket_message_port.cc:86`); a sender shuts down while its platform connection
is pending (`looping_file_cast_agent.cc:262`); a goodbye arrives for another value than
the one that is tracked (`mdns_querier.cc:750`); a denial arrives while the record is
tracked, and `Update` refuses it because its class is not the record's
(`mdns_responder.cc:83`, `mdns_trackers.cc:165`, `mdns_querier.cc:750`); a denial
arrives while the record and an earlier denial are tracked, and no tracker is left to
expire (`mdns_querier.cc:772`). The last two need a querier that does not ignore NSEC
records, which is the default: it is enough that a goodbye is lost, and
the next query is answered. The properties are about processes that are up:
`StaleVanishes` says that a withdrawn record vanishes from the client's view or that
the querier's process has ended.

Other limits of the code met while modelling: a single lost message is enough for two hosts to claim
one name (`OneOwner` is stated for runs without loss); a `RECEIVER_STATUS` that
overtakes the authentication reply fails the authentication
(`sender_socket_factory.cc:175`); a sender that launches a running application under
another of its ids waits forever (`looping_file_cast_agent.cc:181`); the loop of `MdnsProbeImpl::OnMessageReceived`
goes on with a probe that `OnProbeFailure` has destroyed when a response has several
answers for the name (`mdns_probe.cc:96`; responses have one answer in the model).

## What is proved

TLAPS checks the proofs in eight modules, for all values of the constants: queues
of 120 entries, 8-bit IDs and streams of any length, any number of hosts, senders,
requests, tasks and applications.

* `CastReceiverProofs`: of `ReceiverAlone`,
  `AloneSpec => []TypeOK` and `AloneSpec => []QueueConsistent`, where
  `QueueConsistent` is the conjunction of
  `FrameOrder`, `QueueOwnership`, `CheckpointExact`, `PlayoutReportable`,
  `ReadyConsumable` and `DelayResolvable` (there is a theorem for each of them), and
  `NoLostWakeup` and `NothingForgotten`, the latter a property of every step.
* `StreamingSenderProofs`: `ExpandLessThanOrEqual`, `ExpandGreaterThan` and `Expand`
  invert `LowerBits` for every original within their window. Of the feedback codec, `FeedbackReadAsMeant`:
  the Sender reads the checkpoint that was written, and no ACK or NACK that was not. The rest of
  the module are the steps of the Sender, for the next one.
* `CastStreamingProofs`: all safety properties of `CastStreaming`, for a network that loses, repeats and
  reorders: the invariants `SenderConsistent`, `NeverAhead`, `FramesGenuine`, `DelaysAgree` and
  `KeyFrameOnlyIfPictureLost`, the Receiver's `QueueConsistent` for packets from a real Sender, and
  `SkipsAreDecodable` of every step.
* `SenderPacketRouterProofs`: all four properties of the router, the invariants `SendersServed` and
  `ReportsOnTime` and the step properties `BurstsSpaced` and `BurstsShared`.
* `SchedulingProofs`: `FunctorsAgree` (`PointersPaired` and `FiringQueued`) is an invariant of `Alarm`,
  and `AlarmSpec => ImplementsTimer`: the Alarm implements `OneShotTimer`. Of `TaskRunner`,
  `TasksOnceInTurn`, and `FlushedOnReturn` of every step.
* `NegotiationProofs`: all five invariants of `Negotiation`: `RequestsSettledOnce`,
  `OffersAnsweredOnce`, `AnswersLinedUp`, `EndsAgree` and `RemotingCurrent`. The steps of a sender
  session are in `NegotiationSenderProofs`.
* `CastServiceProofs`, about the two parts that `CastService` of the standalone receiver puts together:
  `PassedNamesOwned` and `PublisherServed` of `DnsSdPublisher`, whatever messages
  are lost, delayed or repeated, and `OneOwner`, whatever is delayed or repeated; and all three
  invariants of `CastApps`: `ConnectionsLive`, `NoAppOrphaned` and `SendersKnowSession`.

### The arguments

**Receiver.** The seven properties come from one inductive invariant, `IInv` of `CastReceiver`, their conjunction:
none is inductive alone. The order of the pointers makes slots of
frames in the window distinct, and without that neither extending nor releasing part of the
queue keeps its entries apart. That unused entries are reset is what makes a
newly expected frame incomplete, hence the checkpoint exact. That the
first packet brings the capture time makes a complete frame one whose playout
can be reported after it is consumed. The argument has one lemma for the
three ways the queue changes (`ExpectedEntry` and `PacketStep` when it is
extended and a packet collected, `ReleaseStep` when frames are consumed or
skipped), one for the scan (`ScanFacts`: when a frame is skipped, the
checkpoint is where the consumer is), one for the checkpoint
(`CheckpointAfterFacts`), and then one per action.
`NoLostWakeup` is proved in the form `Awake`, which names the frame (one that is ready, with only
timed frames that are not ready before it) instead of computing where the scan stops; a packet
that does not set the alarm makes no such frame (`PacketEffect`).
`NothingForgotten` needs nothing but `IInv`: within the window a slot has one owner, so
what a step writes for one frame cannot be another's.

**Streaming.** The invariant is `SInv`. It contains that of the Receiver, because what the
network delivers are packets the Receiver's own proof allows. To it `SInv` adds what is under way.
The packets of RTP belong to recent frames (`RtpInv`) and the reference they are expanded with is not far behind
(`HighestInv`), so that truncated IDs come out right and what is collected is genuine.
An RTCP packet that the Sender would still accept speaks the truth about the Receiver, and
its checkpoint is right before a frame that is in flight (`MessageInv`). The latter is what makes the Sender
consistent (`SenderInv`: the oldest frame of its window is always in flight, which `EnqueueFrame` and the Kickstart
packet rely on), and it is not inductive by itself: ACKs from one packet cancel frames that another
packet may name. It needs `OrderInv`, that a later packet never acknowledges less than an earlier one,
and that the Sender drops packets that come out of order (`stale`). A change of the playout delay is recorded
at the Receiver as soon as the first packet of its frame is collected, or superseded by one that was recorded
(`Recorded`); hence both sides agree on the delay of each frame up to the checkpoint. For key frames, an
indication of a picture loss under way is either older than the last key frame sent or still true
(the last part of `MessageInv`). There is one lemma per action and per part of `SInv` it can disturb.
The steps of the Sender need nothing of the Receiver's proof but that its variables stay as they are; the steps of the
Receiver, in `CastStreamingProofs`, use both.

**Router.** `RouterInv` says of every entry, among other things, that the Alarm is early enough for it,
or as early as the burst interval allows, or due (`Timely`). That is not enough for `ReportsOnTime`: the functor
in the task runner's queue may be queued for a later time than the Alarm, so the
invariant keeps the two apart (`FunctorInv`), and says that a report which is not due at once was not
due in the last burst. `ScheduleNextBurst` restores all of it from any entries
(`NextBurstFacts`). How much of a burst each Sender gets is a
running sum over a list in order of priority; it is characterised step by step
with `Accumulate` and `BoundedInduction`, which follow from the well-foundedness of the
natural numbers (`NatMinimum`).

**Task runner.** `RunnerInv` has the tasks that have run, run now or wait to, in this order,
as one sequence that only grows at its end, and the map of delayed tasks beside it
(`InTurn`). Why the order survives: whatever stays in the map is due
later than everything ever taken from it, because the runner takes all that is due,
and a new delayed task is due later than now.

**Negotiation.** `NegotiationInv` starts with the numbers (`RequestsInv`): a request's number
is that of one entry that is awaited or one callback that ran, never both, and messages under way have numbers
of requests that were made, in their order. With that each OFFER is in exactly
one place (under way, waiting for the socket, or answered: `Count`), an ANSWER under way to a
sender that still awaits it was made from the offer that sender has kept
(`Current`), hence its Senders fit the streams the receiver
selected (`Fits`), and a sender that was told `OnNegotiated`, or is about to be,
has no newer OFFER anywhere, so that the Receivers, if they are still for it, are those
of its offer (`Agreed`). The proof is one lemma for the steps of a sender and one for those
of the receiver (`SenderKeeps`, `ReceiverKeeps`); inside them, each action is reduced to what it does to one
channel, and then each part of the invariant is shown for it.

**Applications.** The invariant is `AtHome` of the agent's record: all connections are on open
sockets and lead to the platform or to the client of the port, an agent without
application has no client, the idle screen is registered, and an application that is not
the idle screen has an open socket. Messages matter too (`MailTyped`): an OFFER is
never addressed to nobody, because it answers a CONNECTED, which comes from an id
that was allowed; otherwise the port would add a connection that no
`ResetClient` removes. Switching has a lemma per operator (`StopLaunchedFacts`, `LaunchFacts`,
`LaunchOrFallBackFacts`, `SwitchFacts`); `GoIdleFacts` holds of an agent whose application has
just lost its socket or its registration, which is when the code goes idle.
`SendersKnowSession` adds what is under way (`Informed`): the last `RECEIVER_STATUS` among a
sender's unread messages names the running session, and if there is none, what the sender knows is current.

**DNS-SD.** The invariant (`PublisherInv`) says where responses come from
(`ResponsesGenuine`: only the owner of a name answers for it, and nobody answers
itself), because a probe is given up for a response that may have been under way for a while, and that
names a host has passed over are owned *by others* (`PassedOver`). Claimed names are
never released, so these facts stay true; loss and repetition of messages cannot
disturb them. `OneOwner` needs to look ahead. Of two hosts that probe for a name, the one that has to defer has yet to hear a query
of the other, if that was sent after its own first query
(`TieBreak`), and a host that has sent its last query for a name that has an owner has its query or the response to it
under way, due before its alarm (`Conflict`). How long ago a query was sent can be read
off the alarm of its probe. Two queries would not be enough: two hosts whose queries
coincide could both claim the name before either has heard the other.

**Alarm.** The invariant (`AlarmInv`) adds that only the task of the latest call is
scheduled and has not run (`LatestTaskOnly`), which is what the timer needs to run
a task only once. A functor is posted in one way only (`InvokeLaterPairs`), into a queue
where no other functor points to the Alarm, either because none was queued
(`NonePointsBack`) or because it was cancelled (`CancelFireUnpairs`).

### The assumptions

All of them are named, stand in the module that declares the constants, and are evaluated by
the runs.

* Receiver (`FrameIds`, `CastCommon`, `CastReceiver`, `ReceiverAlone`): the queue has at least one entry, `Width` is
  positive, `null` is not an integer, and packets are as the parser accepts them.
  `Packets` is otherwise arbitrary, so the theorems hold for a faulty peer too.
* Streaming (`CastCommon`, `CastStreaming`): frames have at least one packet (`FrameChoicesAssumption`); the Sender's window is no larger than
  half of `Width`, and a packet is delivered before so many frames were sent that its ID could be taken for
  another (`ExpansionAssumption`; the code has 120 and 256). The bounds `RtcpInTransit` and `MaxFrame` are any numbers.
* `RouterAssumption`: SSRCs are numbers; limits and intervals are positive.
* `TaskRunnerAssumption`, `AlarmAssumption`: delays are positive, bounds are numbers.
* `SendersAssumption`, `ConfigsAssumption`, `RemotingAssumption`, `NoneAssumption`: configurations are sequences of records,
  and `none` is none of the values it is compared with. That a client waits for the outcome of a
  negotiation is no assumption but a guard (`Patient`) of the model.
* `AppsAssumption`: every application has an id, no id belongs to two
  applications, which `RegisterApplication` checks, and `none` is none of the values.
* `ProbeAssumption`: hosts are numbers (their addresses, which the tie-break compares), `none` is
  neither a number nor a probe, delays are natural numbers; for `OneOwner` also that a host sends at least three
  queries, as the code does, and that a query and its response together take less time than
  there is between two queries.

### What is only model-checked

The completeness of feedback (`FeedbackExact`, `OldestNacksFirst`), mDNS records (`ViewBacked`, `RefreshAnswered`), and all
liveness properties. Liveness under fairness and `ENABLED` are outside of what the
installed provers can do. The other properties have no proof yet: that feedback is complete when there is room
compares a greedy choice of loss fields, a fold over a sorted sequence, with the smallest one, and the records keep alarms
whose relation to what is under way has not been put into an inductive invariant.
Induction is available only for sets of
numbers that are written out (`BoundedInduction`), not for a predicate that is
passed to a theorem; it is enough for the sums and the sorted lists here.

## What the models leave out

Payloads, encryption, real time, statistics and event logs; round trip
time and bandwidth, which only decide *when* something is sent; the media duration limit
of `EnqueueFrame`, which rejects more frames than the model does; observers of the
Sender, which are application code. The router's burst parameters are constants. An Alarm
is assumed to be used on its task runner's thread and not to outlive the runner. Overflow of the 64-bit frame counter is not
reachable in practice and not modelled.

In the models of sessions: JSON, constraints, bit rates and display descriptions of
OFFER and ANSWER, and `RpcMessenger` beyond its existence. In those of the
channel: framing, protobuf, certificates (the handshake is there, and may fail),
availability requests, and the sender's media. In those of mDNS: shared records and
several records of one type and class, responses with several answers to a probe, announcements as answers to a probe, truncated queries, service enumeration, the
wire format, TTLs as times; `UpdateRegistration` of the DNS-SD publisher, its
querier and its graph of records.

*Not modelled* at all, in the order in which a model would be worth having:

* The Open Screen Protocol (`osp/`): message demuxer, request matching, presentation
  start and termination, service listener and publisher. They have control of
  their own, and are the next candidates. QUICHE itself is third-party code.
* Platform: socket waiter, TLS data router and write buffer, which are shared by threads.
* ControlCast: pause, seek and end of file across threads, on top of FFmpeg and Android's libraries.
* The DNS-SD graph of PTR, SRV, TXT and address records.
* Clock, bandwidth and statistics estimators: floating point filters, which TLC has no numbers for.
* Cryptography, certificates, the CDDL compiler, the Go example, JSON and other
  byte formats: pure functions or generated code, which
  unit tests and fuzzers reach better than a model checker.
