--------------------------- MODULE ReceiverAlone ----------------------------
(***************************************************************************)
(* A Receiver in a network that delivers well-formed RTP packets in any     *)
(* order and any number of times, whatever their Sender had in mind: the    *)
(* packets of a frame may disagree, and an old packet may be taken for one  *)
(* of a frame to come.                                                      *)
(***************************************************************************)
EXTENDS CastReceiver

CONSTANT Packets      \* the RTP packets that may arrive

ASSUME PacketsAssumption == Packets \subseteq RtpPacket

AloneInit == ReceiverInit /\ rtcpNet = <<>>

AloneNext ==
  \/ \E packet \in Packets :
       /\ Expand(highestRtp, packet.frame_id) <= MaxFrame
       /\ OnReceivedRtpPacket(packet)
  \/ OnReceivedSenderReport
  \/ SendScheduledRtcp
  \/ RequestKeyFrame
  \/ \E isSet \in BOOLEAN : SetConsumer(isSet)
  \/ \E playHead \in leader .. MaxFrame : PollNextFrame(playHead)
  \/ \E playHead \in leader .. MaxFrame : CheckFrameReady(playHead)
  \/ CheckWithoutConsumer
  \/ ConsumeNextFrame

AloneSpec == AloneInit /\ [][AloneNext]_receiverVars
=============================================================================
