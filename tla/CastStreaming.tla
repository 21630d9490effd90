--------------------------- MODULE CastStreaming ----------------------------
(***************************************************************************)
(* A Sender and a Receiver connected by a network (UDP) that may lose,      *)
(* duplicate, delay and reorder RTP and RTCP packets.                       *)
(***************************************************************************)
EXTENDS CastSender, CastReceiver

CONSTANTS
  FrameChoices,    \* for each frame ID, the frames the application may enqueue
  PacketLifetime   \* an RTP packet is gone when that many frames were enqueued
                   \* after its own

Frame == [packets : Nat \ {0}, dependency : Dependencies,
          new_playout_delay : Nat]

ASSUME FrameChoicesAssumption ==
  FrameChoices \in [0 .. MaxFrame -> SUBSET Frame]

\* Truncated frame IDs are expanded relative to the highest one seen: frames in
\* flight must be near enough, and packets must not live too long.
ASSUME ExpansionAssumption ==
  /\ kMaxUnackedFrames <= MaxDistanceForExpansion
  /\ PacketLifetime \in 1 .. (Width - MaxDistanceForExpansion)

VARIABLES
  stream,   \* the frames enqueued so far
  rtpNet    \* RTP packets sent, as pairs <<frame, packet>>

vars == <<senderVars, receiverVars, stream, rtpNet>>

Init ==
  /\ SenderInit
  /\ ReceiverInit
  /\ rtcpNet = <<>>
  /\ stream = <<>>
  /\ rtpNet = {}

-----------------------------------------------------------------------------

\* The application enqueues a frame, a key frame if the Sender says so.
Enqueue(choice) ==
  /\ \E frame \in {IF NeedsKeyFrame THEN [choice EXCEPT !.dependency = kKeyFrame]
                   ELSE choice} :
       /\ EnqueueFrame(frame)
       /\ stream' = Append(stream, frame)
  /\ rtpNet' = {n \in rtpNet : n[1] + PacketLifetime > lastEnqueued'}
  /\ UNCHANGED receiverVars

\* The router's burst: the packet is on its way.
SendRtp ==
  /\ \E f \in (senderCheckpoint + 1) .. lastEnqueued :
       \E p \in PacketIds(stream[f + 1]) :
         /\ SendFlaggedPacket(f, p) \/ SendKickstartPacket(f, p)
         /\ rtpNet' = rtpNet \cup {<<f, p>>}
  /\ UNCHANGED <<stream, receiverVars>>

Suspend ==
  /\ SuspendRtp
  /\ UNCHANGED <<stream, rtpNet, receiverVars>>

\* A packet arrives and stays in the network, from which it may arrive again.
DeliverRtp(f, p) ==
  /\ <<f, p>> \in rtpNet
  /\ \E packet \in {GeneratePacket(f, stream[f + 1], p)} :
       OnReceivedRtpPacket(packet)
  /\ UNCHANGED <<senderVars, stream, rtpNet>>

\* Sender Reports go out regularly once there is something to report on.
DeliverSenderReport ==
  /\ lastEnqueued >= first
  /\ OnReceivedSenderReport
  /\ UNCHANGED <<senderVars, stream, rtpNet>>

DeliverRtcp(i, resend) ==
  /\ OnReceivedRtcpPacket(i, resend)
  /\ UNCHANGED <<stream, rtpNet, lastConsumed, checkpoint, latestExpected,
                 lastKeyReceived, queue, delayChanges, senderReport,
                 highestRtp, pli, playoutDelay, consumer, consumptionAlarm,
                 rtcpAlarm, ready>>

ReceiverStep ==
  /\ \/ SendScheduledRtcp
     \/ RequestKeyFrame
     \/ ~consumer /\ SetConsumer(TRUE)
     \/ \E playHead \in lastConsumed .. latestExpected : CheckFrameReady(playHead)
     \/ CheckWithoutConsumer
     \/ ConsumeNextFrame
  /\ UNCHANGED <<senderVars, stream, rtpNet>>

Next ==
  \/ lastEnqueued < MaxFrame
     /\ \E choice \in FrameChoices[lastEnqueued + 1] : Enqueue(choice)
  \/ SendRtp
  \/ Suspend
  \/ \E n \in rtpNet : DeliverRtp(n[1], n[2])
  \/ DeliverSenderReport
  \/ \E i \in DOMAIN rtcpNet :
       \E resend \in SUBSET MissingBy(ReceivedFeedback(i)) : DeliverRtcp(i, resend)
  \/ ReceiverStep

\* For safety, a packet that is never delivered is a lost packet.
Spec == Init /\ [][Next]_vars

-----------------------------------------------------------------------------
(* Progress *)

\* A packet is lost for good, unless it is sent again.
LoseRtp(f, p) ==
  /\ <<f, p>> \in rtpNet
  /\ rtpNet' = rtpNet \ {<<f, p>>}
  /\ UNCHANGED <<senderVars, receiverVars, stream>>

LossyNext == Next \/ \E n \in rtpNet : LoseRtp(n[1], n[2])

\* The latest feedback arrives when none of the packets it asks for has been
\* sent within the last round trip.
DeliverLatestRtcp ==
  \E last \in {Len(rtcpNet)} \ {0} :
    \E resend \in {MissingBy(ReceivedFeedback(last))} : DeliverRtcp(last, resend)

\* Time passes, so alarms fire (the task runner runs every posted task) and
\* frames become late; a packet that is sent again and again arrives at some
\* time, and so does the latest feedback.  The consumer consumes what is ready.
\* Nothing makes the application enqueue frames or ask for key frames.
Fairness ==
  /\ WF_vars(SendRtp)
  /\ WF_vars(Suspend)
  /\ \A f \in first .. MaxFrame :
       \A p \in {frame.packets - 1 : frame \in FrameChoices[f]} :
         \A i \in 0 .. p : SF_vars(DeliverRtp(f, i))
  /\ WF_vars(DeliverSenderReport)
  /\ SF_vars(DeliverLatestRtcp)
  /\ WF_vars(SendScheduledRtcp /\ UNCHANGED <<senderVars, stream, rtpNet>>)
  /\ WF_vars(SetConsumer(TRUE) /\ ~consumer
               /\ UNCHANGED <<senderVars, stream, rtpNet>>)
  /\ WF_vars(CheckFrameReady(latestExpected)
               /\ UNCHANGED <<senderVars, stream, rtpNet>>)
  /\ WF_vars(ConsumeNextFrame /\ UNCHANGED <<senderVars, stream, rtpNet>>)

FairSpec == Init /\ [][LossyNext]_vars /\ Fairness

-----------------------------------------------------------------------------
(* Properties *)

\* A frame is complete at the Receiver, or the Receiver is done with it.
Received(f) ==
  \/ f <= checkpoint
  \/ f <= latestExpected /\ IsComplete(Entry(queue, f))

\* The Sender discards only frames that the Receiver does not need any more,
\* whatever feedback is lost, delayed, repeated or reordered.
CanceledOnlyIfReceived ==
  \A f \in first .. lastEnqueued :
    f \in InFlight \/ Received(f)

\* Neither side is ahead of what the other one has told it.
PointersAgree ==
  /\ senderCheckpoint <= checkpoint
  /\ latestExpected <= lastEnqueued
  /\ senderLatestExpected <= latestExpected

\* The Sender never runs ahead of the Receiver: neither in its pointers nor in
\* the frames it gives up.
NeverAhead == PointersAgree /\ CanceledOnlyIfReceived

\* What was collected for a frame is what the Sender sent for that frame: no
\* packet is taken for one of another frame with the same truncated ID.
FramesGenuine ==
  \A f \in Active :
    LET entry == Entry(queue, f)
    IN  /\ entry.chunks # {} => entry.count = stream[f + 1].packets
        /\ 0 \in entry.chunks => entry.dependency = stream[f + 1].dependency

\* The target playout delay the Sender has in mind for frame f.
SenderDelay(f) ==
  LET changes == {g \in first .. f : stream[g + 1].new_playout_delay > 0}
  IN  IF changes = {} THEN InitialDelay
      ELSE stream[Max(changes) + 1].new_playout_delay

\* Each frame is played out with the delay the Sender meant for it, however
\* its packets and those of other frames came in and whichever were skipped;
\* and that is what the Receiver reports for the checkpoint.
DelaysAgree ==
  /\ \A f \in (lastConsumed + 1) .. checkpoint :
       ResolveDelay(delayChanges, f) = SenderDelay(f)
  /\ playoutDelay = SenderDelay(checkpoint)

\* Frames are skipped only for a frame that the Sender encoded to be decodable
\* without them.
SkipsAreDecodable ==
  [][lastConsumed' > lastConsumed /\ ~ready
       => ready' /\ stream[lastConsumed' + 2].dependency # kDependent]_vars

\* After the first frame, the Sender asks for a key frame only while the Receiver
\* waits for one: late and repeated indications of a picture loss that a key
\* frame has repaired do not force another expensive key frame.
KeyFrameOnlyIfPictureLost == NeedsKeyFrame /\ lastEnqueued >= first => pli

\* Every frame the Sender accepts is some day consumed (or skipped) at the
\* Receiver and acknowledged: packets are re-sent until they arrive, Kickstart
\* packets announce frames of which everything was lost, nobody waits for
\* something the other side does not know to send.  (The stream ends with
\* MaxFrame at the latest, so that there is a last frame to be done.)
EveryFrameDone ==
  []<>(senderCheckpoint = lastEnqueued /\ lastConsumed = lastEnqueued)

\* A picture loss is not forgotten: a key frame arrives, or the Sender comes to
\* ask its application for one.
PictureLossNoticed == []<>(~pli \/ NeedsKeyFrame)
=============================================================================
