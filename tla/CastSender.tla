----------------------------- MODULE CastSender -----------------------------
(***************************************************************************)
(* The Cast Streaming Sender: it keeps the frames that are in flight in a   *)
(* circular queue, sends and re-sends their packets when the packet router  *)
(* asks for one, and learns from the Receiver's feedback which frames are   *)
(* acknowledged and which packets are missing.                              *)
(*                                                                          *)
(* Abstractions.  Times are replaced by what is compared: a packet has been *)
(* sent or not, and whether it was sent too recently for a NACK to count is *)
(* a choice of the step that handles the NACK, because that depends on      *)
(* round trip time.  The media duration in flight limits when EnqueueFrame  *)
(* accepts a frame; a refused frame changes nothing, so refusal is the step *)
(* not being taken.  Payloads, statistics and bandwidth are left out.       *)
(***************************************************************************)
EXTENDS CastCommon

VARIABLES
  senderCheckpoint,      \* checkpoint_frame_id_
  lastEnqueued,          \* last_enqueued_frame_id_
  senderLatestExpected,  \* latest_expected_frame_id_
  lastEnqueuedKey,       \* last_enqueued_key_frame_id_
  pictureLostAt,         \* picture_lost_at_frame_id_
  pendingFrames,         \* pending_frames_
  framesInFlight,        \* num_frames_in_flight_
  nextRtpSend            \* SenderEntry::next_rtp_send_time in the router

senderVars ==
  <<senderCheckpoint, lastEnqueued, senderLatestExpected, lastEnqueuedKey,
    pictureLostAt, pendingFrames, framesInFlight, nextRtpSend>>

\* When the router will ask for the next RTP packet: not before it is requested
\* to, at once, or when it is time for a Kickstart packet.
kSuspended == "suspended"
kImmediately == "immediately"
kKickstart == "kickstart"

\* PendingFrameSlot.  The flags of a slot that is not in use are never read.
IdleSlot == [id |-> null, frame |-> null, send_flags |-> {}, sent |-> {}]

\* get_slot_for(f).is_active_for_frame(f), in the slots of the queue q.
IsActive(q, f) == q[Slot(f)].id = f

PacketIds(frame) == 0 .. (frame.packets - 1)

\* SenderPacketRouter::OnSenderCreated() and the members of a new Sender.
SenderInit ==
  /\ senderCheckpoint = leader
  /\ lastEnqueued = leader
  /\ senderLatestExpected = leader
  /\ lastEnqueuedKey = leader
  /\ pictureLostAt = leader
  /\ pendingFrames = [s \in Slots |-> IdleSlot]
  /\ framesInFlight = 0
  /\ nextRtpSend = kSuspended

\* A slip: the key frame that repairs the loss does not count.
NeedsAnotherKeyFrame == lastEnqueuedKey <= pictureLostAt + 1

NeedsKeyFrame == lastEnqueuedKey <= pictureLostAt

\* EnqueueFrame(), when it returns OK; RequestRtpSend() wakes up the router.
EnqueueFrame(frame) ==
  LET f == lastEnqueued + 1
  IN  /\ f - senderCheckpoint <= kMaxUnackedFrames
      /\ frame.packets \in 1 .. kMaxAllowedFramePacketId
      /\ pendingFrames' = [pendingFrames EXCEPT ![Slot(f)] =
                             [id |-> f, frame |-> frame,
                              send_flags |-> PacketIds(frame), sent |-> {}]]
      /\ framesInFlight' = framesInFlight + 1
      /\ lastEnqueued' = f
      /\ lastEnqueuedKey' = IF frame.dependency = kKeyFrame
                            THEN f ELSE lastEnqueuedKey
      /\ nextRtpSend' = kImmediately
      /\ UNCHANGED <<senderCheckpoint, senderLatestExpected, pictureLostAt>>

-----------------------------------------------------------------------------
(* Sending RTP packets *)

\* The frames of which a packet needs to be sent (or re-sent).
FramesToSend(q) ==
  {f \in (senderCheckpoint + 1) .. lastEnqueued :
     IsActive(q, f) /\ q[Slot(f)].send_flags # {}}

\* A slip: the Receiver is believed to know of the last frame.
NeverKickstart == FALSE

NeedsKickstart == senderLatestExpected < lastEnqueued

\* GetRtpResumeTime().
ResumeTime(q) ==
  IF FramesToSend(q) # {} THEN kImmediately
  ELSE IF NeedsKickstart THEN kKickstart
  ELSE kSuspended

\* GetRtpPacketForImmediateSend() with a chosen packet.
SendPacket(f, p) ==
  LET q == [pendingFrames EXCEPT ![Slot(f)].send_flags = @ \ {p},
                                 ![Slot(f)].sent = @ \cup {p}]
  IN  /\ pendingFrames' = q
      /\ nextRtpSend' = ResumeTime(q)

\* ChooseNextRtpPacketNeedingSend(): the oldest packet that needs sending.
SendFlaggedPacket(f, p) ==
  /\ nextRtpSend # kSuspended
  /\ FramesToSend(pendingFrames) # {}
  /\ f = Min(FramesToSend(pendingFrames))
  /\ p = Min(pendingFrames[Slot(f)].send_flags)
  /\ SendPacket(f, p)
  /\ UNCHANGED <<senderCheckpoint, lastEnqueued, senderLatestExpected,
                 lastEnqueuedKey, pictureLostAt, framesInFlight>>

\* ChooseKickstartPacket(): the last packet of the last frame, when it is time.
SendKickstartPacket(f, p) ==
  /\ nextRtpSend # kSuspended
  /\ FramesToSend(pendingFrames) = {}
  /\ NeedsKickstart
  /\ f = lastEnqueued
  /\ IsActive(pendingFrames, f)
  /\ p = pendingFrames[Slot(f)].frame.packets - 1
  /\ SendPacket(f, p)
  /\ UNCHANGED <<senderCheckpoint, lastEnqueued, senderLatestExpected,
                 lastEnqueuedKey, pictureLostAt, framesInFlight>>

\* The router asks for a packet and there is none to send (yet): an empty
\* result suspends RTP sending until GetRtpResumeTime().
SuspendRtp ==
  /\ nextRtpSend # kSuspended
  /\ FramesToSend(pendingFrames) = {}
  /\ NeedsKickstart => IsActive(pendingFrames, lastEnqueued)
  /\ nextRtpSend' = ResumeTime(pendingFrames)
  /\ UNCHANGED <<senderCheckpoint, lastEnqueued, senderLatestExpected,
                 lastEnqueuedKey, pictureLostAt, pendingFrames,
                 framesInFlight>>

-----------------------------------------------------------------------------
(* Receiving feedback *)

\* OnReceiverCheckpoint(): a checkpoint beyond what was enqueued is ignored.
CheckpointsFrom(frame) == IF frame > lastEnqueued THEN {} ELSE {frame}

\* OnReceiverHasFrames(): all ACKs are ignored if one of them is invalid.
AcksFrom(acks) == IF \E f \in acks : f > lastEnqueued THEN {} ELSE acks

\* CancelPendingFrame() for each of the frames.
CancelFrames(frames) ==
  [s \in Slots |->
     IF pendingFrames[s].id \in frames THEN IdleSlot ELSE pendingFrames[s]]

\* The frames that are enqueued and not canceled.
InFlight == {f \in (senderCheckpoint + 1) .. lastEnqueued :
               IsActive(pendingFrames, f)}

\* The frames that OnReceiverCheckpoint() and OnReceiverHasFrames() cancel.
CanceledBy(feedback) ==
  LET acked == CheckpointsFrom(feedback.checkpoint)
  IN  {f \in (UNION {(senderCheckpoint + 1) .. c : c \in acked})
              \cup AcksFrom(feedback.acks) : IsActive(pendingFrames, f)}

\* OnReceiverIsMissingPackets(): the packets of active frames that the NACKs ask
\* for.  One that was never sent is flagged for sending already.
MissingBy(feedback) ==
  LET active == InFlight \ CanceledBy(feedback)
      missing(f) == {n[2] : n \in {m \in feedback.nacks : m[1] = f}}
  IN  UNION {{f} \X {p \in pendingFrames[Slot(f)].sent :
                       {p, kAllPacketsLost} \cap missing(f) # {}} : f \in active}

\* A slip: ACKs are not taken for a sign that the Receiver knows of the frame.
KnownByCheckpoint(feedback) ==
  Max({leader} \cup CheckpointsFrom(feedback.checkpoint))

\* The last frame that feedback shows the Receiver to know of.
KnownBy(feedback) ==
  LET active == InFlight \ CanceledBy(feedback)
  IN  Max({leader} \cup CheckpointsFrom(feedback.checkpoint)
            \cup AcksFrom(feedback.acks)
            \cup {f \in active : \E n \in feedback.nacks : n[1] = f})

\* A slip: no key frame is asked for if the last one is also the last frame that
\* the Receiver has.
PictureLostLate(checkpoint_frame_id) ==
  IF checkpoint_frame_id <= lastEnqueuedKey THEN pictureLostAt
  ELSE checkpoint_frame_id

\* OnReceiverIndicatesPictureLoss(): ignored while a key frame is in flight.
OnReceiverIndicatesPictureLoss(checkpoint_frame_id) ==
  IF checkpoint_frame_id < lastEnqueuedKey THEN pictureLostAt
  ELSE checkpoint_frame_id

\* OnReceiverCheckpoint(): the checkpoint never moves back.
CheckpointAdvancedBy(feedback) ==
  Max({senderCheckpoint} \cup CheckpointsFrom(feedback.checkpoint))

\* CompoundRtcpParser calls the Sender with the checkpoint, the ACKs, the NACKs
\* and the picture loss, in this order.  The packets in `resend` are those that
\* are missing and were not sent within the last round trip.
OnFeedback(feedback, pictureLoss, resend) ==
  LET canceled == CanceledBy(feedback)
  IN  /\ senderCheckpoint' = CheckpointAdvancedBy(feedback)
      /\ senderLatestExpected' = Max({senderLatestExpected, KnownBy(feedback)})
      /\ pendingFrames' =
           [s \in Slots |->
              [CancelFrames(canceled)[s] EXCEPT !.send_flags =
                 @ \cup {n[2] : n \in {m \in resend :
                                        m[1] = pendingFrames[s].id}}]]
      /\ framesInFlight' = framesInFlight - Cardinality(canceled)
      /\ nextRtpSend' = IF resend # {} THEN kImmediately ELSE nextRtpSend
      /\ pictureLostAt' = IF pictureLoss
                          THEN OnReceiverIndicatesPictureLoss(senderCheckpoint')
                          ELSE pictureLostAt
      /\ UNCHANGED <<lastEnqueued, lastEnqueuedKey>>

ReceivedFeedback(i) == ParseFeedback(rtcpNet[i].feedback, lastEnqueued)

\* A packet of rtcpNet is delivered and not removed: the network may deliver it
\* again.  Those sent before it are stale from now on and will be dropped
\* (latest_receiver_timestamp_).
OnReceivedRtcpPacket(i, resend) ==
  /\ ~rtcpNet[i].stale
  /\ rtcpNet' = [j \in DOMAIN rtcpNet |->
                   [rtcpNet[j] EXCEPT !.stale = @ \/ j < i]]
  /\ \E feedback \in {ReceivedFeedback(i)} :
       OnFeedback(feedback, rtcpNet[i].pli, resend)

-----------------------------------------------------------------------------
(* Properties *)

\* Types of the Sender's members, and the order of its frame pointers.
SenderTypeOK ==
  /\ leader <= senderCheckpoint
  /\ senderCheckpoint <= lastEnqueued
  /\ lastEnqueued <= senderCheckpoint + kMaxUnackedFrames
  /\ senderLatestExpected \in leader .. lastEnqueued
  /\ lastEnqueuedKey \in leader .. lastEnqueued
  /\ pictureLostAt \in leader .. senderCheckpoint
  /\ DOMAIN pendingFrames = Slots
  /\ framesInFlight \in Nat
  /\ nextRtpSend \in {kSuspended, kImmediately, kKickstart}

\* "The oldest slot's frame cannot have been canceled": what
\* GetInFlightMediaDuration() and DispatchCancellations() check.
OldestInFlight ==
  framesInFlight > 0 => IsActive(pendingFrames, senderCheckpoint + 1)

\* num_frames_in_flight_ counts the active slots, and all slots outside the
\* window are free, as EnqueueFrame() checks.
FlightAccounting ==
  /\ framesInFlight = Cardinality(InFlight)
  /\ \A s \in Slots : pendingFrames[s].id # null
                        => pendingFrames[s].id \in InFlight

\* ChooseKickstartPacket() finds the last frame in flight, all of its packets
\* sent: "This frame cannot have been canceled", "This method should not be
\* called to choose a packet while there are still unsent packets".
KickstartPossible ==
  NeedsKickstart =>
    /\ IsActive(pendingFrames, lastEnqueued)
    /\ FramesToSend(pendingFrames) = {} =>
         LET slot == pendingFrames[Slot(lastEnqueued)]
         IN  slot.sent = PacketIds(slot.frame)

\* The router never forgets a Sender that has something to send.
NoLostSend ==
  /\ FramesToSend(pendingFrames) # {} => nextRtpSend = kImmediately
  /\ NeedsKickstart => nextRtpSend # kSuspended

\* All of these at once, whatever feedback comes in: what the OSP_CHECKs of the
\* Sender rely on, and what lets the packet router forget a suspended Sender.
SenderConsistent ==
  /\ SenderTypeOK
  /\ OldestInFlight
  /\ FlightAccounting
  /\ KickstartPossible
  /\ NoLostSend
=============================================================================
