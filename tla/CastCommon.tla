----------------------------- MODULE CastCommon -----------------------------
(***************************************************************************)
(* What the Cast Streaming Sender and Receiver share: the protocol's        *)
(* constants, the circular indexing of frames, the RTP packets one sends to *)
(* the other and the network that carries RTCP packets back.                *)
(***************************************************************************)
EXTENDS RtcpFeedback, Sequences

CONSTANTS
  kMaxUnackedFrames,  \* frames in flight at most, and the size of both queues
  null,               \* the value of an unset FrameId, frame or time
  InitialDelay,       \* SessionConfig::target_playout_delay
  RtcpRoom,           \* 32-bit words for feedback in an RTCP packet
  RtcpInTransit,      \* bound: RTCP packets the network holds at once
  MaxFrame            \* bound: the last frame of a stream

ASSUME QueueSizeAssumption == kMaxUnackedFrames \in Nat \ {0}
ASSUME NullAssumption == null \notin Int
ASSUME InitialDelayAssumption == InitialDelay \in Nat \ {0}
ASSUME RtcpRoomAssumption == RtcpRoom \in Nat
ASSUME RtcpInTransitAssumption == RtcpInTransit \in Nat
ASSUME MaxFrameAssumption == MaxFrame \in Nat

\* Feedback on its way to the Sender, in the order it was sent.
VARIABLE rtcpNet

\* The circular queues: frame f is at position f % size.
Slots == 0 .. (kMaxUnackedFrames - 1)
Slot(f) == f % kMaxUnackedFrames

kKeyFrame == "key"
kIndependent == "independent"
kDependent == "dependent"
Dependencies == {kKeyFrame, kIndependent, kDependent}

\* An RTP packet as RtpPacketParser::Parse() accepts it, its frame ID being
\* truncated: a packet ID beyond the maximum packet ID is rejected, and so is
\* the maximum that stands for kAllPacketsLost.
RtpPacket ==
  {p \in [frame_id : 0 .. (Width - 1), packet_id : Nat, max_packet_id : Nat,
          dependency : Dependencies, new_playout_delay : Nat] :
     p.packet_id <= p.max_packet_id /\ p.max_packet_id # kAllPacketsLost}

\* RtpPacketizer::GeneratePacket(): the frame ID is truncated, and a change of
\* the playout delay is put into the first packet only.
GeneratePacket(f, frame, p) ==
  [frame_id |-> LowerBits(f),
   packet_id |-> p,
   max_packet_id |-> frame.packets - 1,
   dependency |-> frame.dependency,
   new_playout_delay |-> IF p = 0 THEN frame.new_playout_delay ELSE 0]

\* The network holds RtcpInTransit packets; the oldest one is lost first.
Transmit(net, message) ==
  IF Len(net) < RtcpInTransit THEN Append(net, message)
  ELSE IF net = <<>> THEN net
  ELSE Append(Tail(net), message)
=============================================================================
