---------------------------- MODULE CastReceiver ----------------------------
(***************************************************************************)
(* The Cast Streaming Receiver: it collects RTP packets into frames in a    *)
(* circular queue, acknowledges and requests packets through RTCP feedback, *)
(* and hands frames to its consumer in order, skipping frames that are late *)
(* when a later frame can be decoded without them.                          *)
(*                                                                          *)
(* Abstractions.  A point in time is replaced by what the code compares it  *)
(* with: an estimated capture time by the frame it belongs to, and "late    *)
(* for playout" by a choice, made when the queue is scanned, of the frames  *)
(* whose playout time has passed.  Payload bytes, encryption, statistics    *)
(* and event logs are left out.                                             *)
(***************************************************************************)
EXTENDS CastCommon

CONSTANT is_pli_enabled  \* picture loss indication is used (for video)

ASSUME PliAssumption == is_pli_enabled \in BOOLEAN

VARIABLES
  lastConsumed,      \* last_frame_consumed_
  checkpoint,        \* CompoundRtcpBuilder::checkpoint_frame_id_
  latestExpected,    \* latest_frame_expected_
  lastKeyReceived,   \* last_key_frame_received_
  queue,             \* pending_frames_
  delayChanges,      \* playout_delay_changes_
  senderReport,      \* whether last_sender_report_ is set
  highestRtp,        \* RtpPacketParser::highest_rtp_frame_id_
  pli,               \* CompoundRtcpBuilder::picture_loss_indicator_
  playoutDelay,      \* CompoundRtcpBuilder::playout_delay_
  consumer,          \* whether consumer_ is set
  consumptionAlarm,  \* whether consumption_alarm_ is scheduled
  rtcpAlarm,         \* the interval rtcp_alarm_ was last scheduled with
  ready              \* AdvanceToNextFrame() reported a frame to the client

receiverVars ==
  <<lastConsumed, checkpoint, latestExpected, lastKeyReceived, queue,
    delayChanges, senderReport, highestRtp, pli, playoutDelay, consumer,
    consumptionAlarm, rtcpAlarm, ready, rtcpNet>>

\* The two intervals rtcp_alarm_ is scheduled with, in milliseconds.
kNever == 0
kRtcpReportInterval == 500
kNackFeedbackInterval == 30

-----------------------------------------------------------------------------
(* FrameCollector, together with the capture time kept beside it *)

\* num_missing_packets_ = kUnknownNumberOfPackets is count = 0.
IdleEntry ==
  [id |-> null, count |-> 0, chunks |-> {}, dependency |-> kDependent,
   capture |-> null]

IsComplete(entry) ==
  entry.count > 0 /\ entry.chunks = 0 .. (entry.count - 1)

\* A slip: the chunks stay.
ResetKeepsChunks(entry) == [entry EXCEPT !.id = null, !.count = 0]
\* FrameCollector::Reset(): everything but the metadata of the old frame.
Reset(entry) == [entry EXCEPT !.id = null, !.count = 0, !.chunks = {}]

\* The first checks of CollectRtpPacket().
Accepts(entry, f, packet) ==
  /\ entry.id = f
  /\ entry.count \in {0, packet.max_packet_id + 1}

\* CollectRtpPacket() once the packet passed the checks: metadata is taken
\* from packet 0 only, and only once.
Collect(entry, packet) ==
  [entry EXCEPT
     !.count = packet.max_packet_id + 1,
     !.chunks = @ \cup {packet.packet_id},
     !.dependency = IF packet.packet_id = 0 /\ 0 \notin entry.chunks
                    THEN packet.dependency ELSE @]

\* GetMissingPackets(): kAllPacketsLost as long as nothing was collected.
MissingPackets(entry) ==
  IF entry.chunks = {}
  THEN {kAllPacketsLost}
  ELSE (0 .. (entry.count - 1)) \ entry.chunks

-----------------------------------------------------------------------------
(* The circular queue *)

\* GetQueueEntry().
Entry(q, f) == q[Slot(f)]

\* The loop that prepares the queue for all frames up to f.  "The collector
\* was already reset, so just reset the capture time."
Expect(q, f) ==
  LET new(s) == {g \in (latestExpected + 1) .. f : Slot(g) = s}
  IN  [s \in Slots |->
         IF new(s) = {}
         THEN q[s]
         ELSE [q[s] EXCEPT !.id = CHOOSE g \in new(s) : TRUE,
                           !.capture = null]]

\* A slip: the complete frames that follow are not looked at.
CheckpointAtOnly(q, from, last) == from

\* The frame AdvanceCheckpoint(from) stops at: the last one of the contiguous
\* run of complete frames that follows `from`.
CheckpointAfter(q, from, last) ==
  LET gaps == {g \in (from + 1) .. last : ~IsComplete(Entry(q, g))}
  IN  IF gaps = {} THEN last ELSE Min(gaps) - 1

-----------------------------------------------------------------------------
(* Target playout delay changes: a set of <<first frame, delay>> *)

\* RecordNewTargetPlayoutDelay(): entries that a later entry has superseded for
\* every frame the queue can still ask about are pruned.
RecordDelay(f, delay) ==
  LET next == lastConsumed - kMaxUnackedFrames + 1
  IN  {c \in delayChanges :
         ~\E d \in delayChanges : c[1] < d[1] /\ d[1] <= next}
        \cup {<<f, delay>>}

\* A slip: a change is taken to begin one frame later.
ResolveDelayLate(changes, f) ==
  LET known == {c \in changes : c[1] < f}
  IN  (CHOOSE c \in known : \A d \in known : d[1] <= c[1])[2]

\* ResolveTargetPlayoutDelay(): the latest change at or before frame f.
ResolveDelay(changes, f) ==
  LET known == {c \in changes : c[1] <= f}
  IN  (CHOOSE c \in known : \A d \in known : d[1] <= c[1])[2]

-----------------------------------------------------------------------------
(* Feedback to the Sender *)

\* The vector of NACKs after std::move() into IncludeFeedbackInNextPacket().
MovedFrom(packet_nacks) == {}

RtcpInterval(packet_nacks) ==
  IF packet_nacks = {} THEN kRtcpReportInterval ELSE kNackFeedbackInterval

\* The ACK/NACK feedback for all active frames in the queue.
FrameAcks ==
  {f \in (checkpoint + 1) .. latestExpected : IsComplete(Entry(queue, f))}
PacketNacks ==
  UNION {{f} \X MissingPackets(Entry(queue, f)) :
           f \in ((checkpoint + 1) .. latestExpected) \ FrameAcks}

RtcpPacket(packet_nacks, frame_acks) ==
  [feedback |-> BuildFeedback(checkpoint, packet_nacks, frame_acks, RtcpRoom),
   playoutDelay |-> playoutDelay,
   pli |-> pli,
   stale |-> FALSE]

\* SendRtcp(), called when the members it reads have their new values.
SendRtcp ==
  \E packet_nacks \in {PacketNacks'}, frame_acks \in {FrameAcks'} :
    /\ rtcpNet' = Transmit(rtcpNet, RtcpPacket(packet_nacks, frame_acks)')
    /\ rtcpAlarm' = RtcpInterval(MovedFrom(packet_nacks))

\* AdvanceCheckpoint(), likewise.
AdvanceCheckpoint(newCheckpoint) ==
  /\ checkpoint' = CheckpointAfter(queue', newCheckpoint, latestExpected')
  /\ playoutDelay' = ResolveDelay(delayChanges', checkpoint')
  /\ SendRtcp

-----------------------------------------------------------------------------
(* OnReceivedRtpPacket() *)

\* Whether the Receiver has no (more) interest in frame f.
IsIgnored(f) ==
  \/ f <= checkpoint
  \/ f > latestExpected /\ f > lastConsumed + kMaxUnackedFrames

\* Packet 0 cannot be timed before the first Sender Report.
IsTooEarly(packet) == ~senderReport /\ packet.packet_id = 0

LastExpected(f) == IF f > latestExpected THEN f ELSE latestExpected

IgnorePacket(f) ==
  /\ IsIgnored(f)
  /\ UNCHANGED <<checkpoint, latestExpected, lastKeyReceived, queue,
                 delayChanges, pli, playoutDelay, consumptionAlarm, rtcpAlarm,
                 rtcpNet>>

\* The queue has been extended, but the packet itself is not used.
DropPacket(f, packet) ==
  /\ ~IsIgnored(f)
  /\ LET entry == Entry(Expect(queue, f), f)
     IN  \/ IsTooEarly(packet)
         \/ IsComplete(entry)
         \/ ~Accepts(entry, f, packet)
  /\ latestExpected' = LastExpected(f)
  /\ queue' = Expect(queue, f)
  /\ UNCHANGED <<checkpoint, lastKeyReceived, delayChanges, pli,
                 playoutDelay, consumptionAlarm, rtcpAlarm, rtcpNet>>

WaitForMorePackets(f) ==
  /\ ~IsComplete(Entry(queue', f))
  /\ UNCHANGED <<checkpoint, lastKeyReceived, pli, playoutDelay, rtcpAlarm,
                 rtcpNet>>

\* A key frame clears the picture loss condition, and the frame right after
\* the checkpoint moves the checkpoint.
FrameCompleted(f) ==
  LET isKey == Entry(queue', f).dependency = kKeyFrame
  IN  /\ IsComplete(Entry(queue', f))
      /\ lastKeyReceived' = IF isKey THEN f ELSE lastKeyReceived
      /\ pli' = (pli /\ ~isKey)
      /\ \/ /\ f = checkpoint + 1
            /\ AdvanceCheckpoint(f)
         \/ /\ f # checkpoint + 1
            /\ UNCHANGED <<checkpoint, playoutDelay, rtcpAlarm, rtcpNet>>

CollectPacket(f, packet) ==
  LET before == Entry(Expect(queue, f), f)
      timed == packet.packet_id = 0 /\ before.capture = null
  IN  /\ ~IsIgnored(f)
      /\ ~IsTooEarly(packet)
      /\ ~IsComplete(before)
      /\ Accepts(before, f, packet)
      /\ latestExpected' = LastExpected(f)
      /\ queue' = [Expect(queue, f) EXCEPT ![Slot(f)] =
                     [Collect(before, packet) EXCEPT
                        !.capture = IF timed THEN f ELSE @]]
      /\ delayChanges' = IF timed /\ packet.new_playout_delay > 0
                         THEN RecordDelay(f, packet.new_playout_delay)
                         ELSE delayChanges
      /\ consumptionAlarm' = (\/ consumptionAlarm
                              \/ timed
                              \/ IsComplete(Entry(queue', f)))
      /\ \/ WaitForMorePackets(f)
         \/ FrameCompleted(f)

OnReceivedRtpPacket(packet) ==
  \E f \in {Expand(highestRtp, packet.frame_id)} :
    /\ highestRtp' = IF f > highestRtp THEN f ELSE highestRtp
    /\ UNCHANGED <<lastConsumed, senderReport, consumer, ready>>
    /\ \/ IgnorePacket(f)
       \/ DropPacket(f, packet)
       \/ CollectPacket(f, packet)

-----------------------------------------------------------------------------
(* The other events the Receiver handles *)

\* OnReceivedRtcpPacket() with a Sender Report.
OnReceivedSenderReport ==
  /\ senderReport' = TRUE
  /\ UNCHANGED <<lastConsumed, checkpoint, latestExpected, lastKeyReceived,
                 queue, delayChanges, highestRtp, pli, playoutDelay, consumer,
                 consumptionAlarm, ready>>
  /\ SendRtcp

\* rtcp_alarm_ fires.
SendScheduledRtcp ==
  /\ rtcpAlarm # kNever
  /\ UNCHANGED <<lastConsumed, checkpoint, latestExpected, lastKeyReceived,
                 queue, delayChanges, senderReport, highestRtp, pli,
                 playoutDelay, consumer, consumptionAlarm, ready>>
  /\ SendRtcp

RequestKeyFrame ==
  /\ is_pli_enabled
  /\ lastKeyReceived # null
  /\ lastConsumed >= lastKeyReceived
  /\ ~pli
  /\ pli' = TRUE
  /\ UNCHANGED <<lastConsumed, checkpoint, latestExpected, lastKeyReceived,
                 queue, delayChanges, senderReport, highestRtp, playoutDelay,
                 consumer, consumptionAlarm, ready>>
  /\ SendRtcp

SetConsumer(isSet) ==
  /\ consumer' = isSet
  /\ consumptionAlarm' = TRUE
  /\ UNCHANGED <<lastConsumed, checkpoint, latestExpected, lastKeyReceived,
                 queue, delayChanges, senderReport, highestRtp, pli,
                 playoutDelay, rtcpAlarm, ready, rtcpNet>>

-----------------------------------------------------------------------------
(* Consumption *)

\* A slip: a frame is skipped to although it depends on what is skipped.
IsReadyIfComplete(f) == IsComplete(Entry(queue, f))

\* Frame f can be consumed next, if necessary by skipping those before it.
IsReady(f) ==
  /\ IsComplete(Entry(queue, f))
  /\ \/ f = lastConsumed + 1
     \/ Entry(queue, f).dependency # kDependent

\* The scan goes on past f: f is not ready, and known to be late.  Frames up
\* to playHead are the ones whose time to be processed has come.
IsSkippable(f, playHead) ==
  /\ ~IsReady(f)
  /\ Entry(queue, f).capture # null
  /\ f <= playHead

\* The frames at which the scan of AdvanceToNextFrame() ends, the first one
\* being where it does end.
ScanStops(playHead) ==
  {f \in (lastConsumed + 1) .. latestExpected : ~IsSkippable(f, playHead)}

\* A slip: the frame to be consumed next is dropped as well.
DropAllFramesThrough(f) ==
  LET dropped == {Slot(g) : g \in (lastConsumed + 1) .. f}
  IN  /\ queue' = [s \in Slots |->
                     IF s \in dropped THEN Reset(queue[s]) ELSE queue[s]]
      /\ lastConsumed' = f - 1
      /\ AdvanceCheckpoint(f)

DropAllFramesBefore(f) ==
  LET dropped == {Slot(g) : g \in (lastConsumed + 1) .. (f - 1)}
  IN  /\ queue' = [s \in Slots |->
                     IF s \in dropped THEN Reset(queue[s]) ELSE queue[s]]
      /\ lastConsumed' = f - 1
      /\ AdvanceCheckpoint(f)

\* AdvanceToNextFrame(); `armed` tells whether consumption_alarm_ is scheduled
\* when it is called.
AdvanceToNextFrame(armed, playHead) ==
  LET stops == ScanStops(playHead)
      f == Min(stops)
      nothing == UNCHANGED <<lastConsumed, checkpoint, queue, playoutDelay,
                             rtcpAlarm, rtcpNet>>
  IN  /\ UNCHANGED <<latestExpected, lastKeyReceived, delayChanges,
                     senderReport, highestRtp, pli, consumer>>
      /\ \/ /\ stops = {}
            /\ nothing
            /\ ready' = FALSE
            /\ consumptionAlarm' = armed
         \/ /\ stops # {} /\ ~IsReady(f)
            /\ nothing
            /\ ready' = FALSE
            /\ consumptionAlarm' = (armed \/ Entry(queue, f).capture # null)
         \/ /\ stops # {} /\ IsReady(f)
            /\ IF f = lastConsumed + 1 THEN nothing ELSE DropAllFramesBefore(f)
            /\ ready' = TRUE
            /\ consumptionAlarm' = armed

\* The client calls AdvanceToNextFrame() on its own account.
PollNextFrame(playHead) == AdvanceToNextFrame(consumptionAlarm, playHead)

\* consumption_alarm_ fires with a consumer to notify, and without.
CheckFrameReady(playHead) ==
  /\ consumptionAlarm
  /\ consumer
  /\ AdvanceToNextFrame(FALSE, playHead)

CheckWithoutConsumer ==
  /\ consumptionAlarm
  /\ ~consumer
  /\ consumptionAlarm' = FALSE
  /\ UNCHANGED <<lastConsumed, checkpoint, latestExpected, lastKeyReceived,
                 queue, delayChanges, senderReport, highestRtp, pli,
                 playoutDelay, consumer, rtcpAlarm, ready, rtcpNet>>

\* A slip: no check for a frame that is ready already.
ConsumeWithoutCheck ==
  /\ ready
  /\ queue' = [queue EXCEPT ![Slot(lastConsumed + 1)] = Reset(@)]
  /\ lastConsumed' = lastConsumed + 1
  /\ ready' = FALSE
  /\ UNCHANGED <<checkpoint, latestExpected, lastKeyReceived, delayChanges,
                 senderReport, highestRtp, pli, playoutDelay, consumer,
                 consumptionAlarm, rtcpAlarm, rtcpNet>>

\* ConsumeNextFrame(), which the client calls once a frame is reported ready.
ConsumeNextFrame ==
  /\ ready
  /\ queue' = [queue EXCEPT ![Slot(lastConsumed + 1)] = Reset(@)]
  /\ lastConsumed' = lastConsumed + 1
  /\ consumptionAlarm' = TRUE
  /\ ready' = FALSE
  /\ UNCHANGED <<checkpoint, latestExpected, lastKeyReceived, delayChanges,
                 senderReport, highestRtp, pli, playoutDelay, consumer,
                 rtcpAlarm, rtcpNet>>

-----------------------------------------------------------------------------

ReceiverInit ==
  /\ lastConsumed = leader
  /\ checkpoint = leader
  /\ latestExpected = leader
  /\ lastKeyReceived = null
  /\ queue = [s \in Slots |-> IdleEntry]
  /\ delayChanges = {<<leader, InitialDelay>>}
  /\ senderReport = FALSE
  /\ highestRtp = first
  /\ pli = FALSE
  /\ playoutDelay = InitialDelay
  /\ consumer = FALSE
  /\ consumptionAlarm = FALSE
  /\ rtcpAlarm = kNever
  /\ ready = FALSE

-----------------------------------------------------------------------------
(* Properties *)

PendingFrame ==
  [id : Int \cup {null}, count : Nat, chunks : SUBSET Nat,
   dependency : Dependencies, capture : Int \cup {null}]

RtcpMessage ==
  [feedback : [checkpoint : Int, acks : SUBSET Int,
               loss : SUBSET [frame : Int, packet : Nat, bits : SUBSET Int]],
   playoutDelay : Nat, pli : BOOLEAN, stale : BOOLEAN]

\* Types of the Receiver's members and of the RTCP packets it sends.
TypeOK ==
  /\ lastConsumed \in Int /\ checkpoint \in Int /\ latestExpected \in Int
  /\ lastKeyReceived \in Int \cup {null}
  /\ queue \in [Slots -> PendingFrame]
  /\ delayChanges \in SUBSET (Int \X Nat)
  /\ senderReport \in BOOLEAN
  /\ highestRtp \in Int
  /\ pli \in BOOLEAN
  /\ playoutDelay \in Nat
  /\ consumer \in BOOLEAN
  /\ consumptionAlarm \in BOOLEAN
  /\ rtcpAlarm \in {kNever, kRtcpReportInterval, kNackFeedbackInterval}
  /\ ready \in BOOLEAN
  /\ rtcpNet \in Seq(RtcpMessage) /\ Len(rtcpNet) <= RtcpInTransit

\* receiver.h: latest_frame_expected_ is at least the checkpoint, which is at
\* least last_frame_consumed_; and what is expected fits in the queue.
FrameOrder ==
  /\ leader <= lastConsumed
  /\ lastConsumed <= checkpoint
  /\ checkpoint <= latestExpected
  /\ latestExpected <= lastConsumed + kMaxUnackedFrames

Active == (lastConsumed + 1) .. latestExpected

\* The active slots of the circular queue are those of the frames after
\* last_frame_consumed_ and up to latest_frame_expected_: each belongs to its
\* own frame, and every other collector is reset, which is what the loop that
\* extends the queue relies on ("The collector was already reset").
QueueOwnership ==
  /\ \A f \in Active : Entry(queue, f).id = f
  /\ \A s \in Slots \ {Slot(f) : f \in Active} :
       queue[s].id = null /\ queue[s].count = 0 /\ queue[s].chunks = {}

\* The checkpoint is exact: all frames up to it that were not consumed are
\* complete, and the frame that follows it is not.
CheckpointExact ==
  /\ \A f \in (lastConsumed + 1) .. checkpoint : IsComplete(Entry(queue, f))
  /\ checkpoint < latestExpected => ~IsComplete(Entry(queue, checkpoint + 1))

\* ReportPlayoutEvent() accepts every frame later than latest_frame_expected_ -
\* kMaxUnackedFrames; for each of those that was consumed the slot still has
\* the capture time of that very frame.
PlayoutReportable ==
  \A f \in (latestExpected - kMaxUnackedFrames + 1) .. lastConsumed :
    f >= first => Entry(queue, f).capture = f

\* What ConsumeNextFrame() and DropAllFramesBefore() check: a frame reported
\* ready is at or before the checkpoint and timed, and so are complete frames.
ReadyConsumable ==
  /\ ready => lastConsumed < checkpoint
  /\ \A f \in Active : /\ Entry(queue, f).capture \in {null, f}
                       /\ 0 \in Entry(queue, f).chunks
                            => Entry(queue, f).capture = f

\* ResolveTargetPlayoutDelay() finds one entry, and only one, for every frame
\* it may be asked about, however the list has been pruned; and a change is on
\* record only if packet 0 of its frame has been seen.
DelayResolvable ==
  /\ \E c \in delayChanges :
       c[1] <= leader \/ c[1] <= lastConsumed - kMaxUnackedFrames + 1
  /\ \A c, d \in delayChanges : c[1] = d[1] => c = d
  /\ \A c \in delayChanges :
       \/ c[1] <= lastConsumed
       \/ c[1] \in Active /\ Entry(queue, c[1]).capture = c[1]

\* All of these at once, after every step: what the operations of the Receiver
\* take for granted of its circular queue, its frame pointers and its list of
\* playout delay changes.
QueueConsistent ==
  /\ FrameOrder
  /\ QueueOwnership
  /\ CheckpointExact
  /\ PlayoutReportable
  /\ ReadyConsumable
  /\ DelayResolvable

\* The inductive invariant.  The order of the frame pointers makes the slots of
\* the frames in the queue distinct; that other slots are reset is needed when
\* the queue is extended; that complete frames are timed when one is consumed.
IInv ==
  /\ TypeOK
  /\ FrameOrder
  /\ QueueOwnership
  /\ CheckpointExact
  /\ PlayoutReportable
  /\ ReadyConsumable
  /\ DelayResolvable

\* A consumer that was not told of a frame it could consume now, or could once
\* the timed frames before it are late, will be: consumption_alarm_ is set.
NoLostWakeup ==
  LET stops == ScanStops(latestExpected)
  IN  consumer /\ ~ready /\ stops # {} /\ IsReady(Min(stops))
        => consumptionAlarm

\* No step of the Receiver moves its frame pointers backwards or forgets a
\* packet it collected for a frame that is still in the queue.
NothingForgotten ==
  [][/\ lastConsumed' >= lastConsumed
     /\ checkpoint' >= checkpoint
     /\ latestExpected' >= latestExpected
     /\ \A f \in (lastConsumed' + 1) .. latestExpected :
          Entry(queue, f).chunks \subseteq Entry(queue', f).chunks]_receiverVars
=============================================================================
