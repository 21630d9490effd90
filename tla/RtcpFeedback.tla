---------------------------- MODULE RtcpFeedback ----------------------------
(***************************************************************************)
(* The Cast Feedback message a Receiver puts into its compound RTCP packet  *)
(* (CompoundRtcpBuilder) and what a Sender reads from it                    *)
(* (CompoundRtcpParser): the checkpoint, the packet-level NACKs ("loss      *)
(* fields") and the frame-level ACKs of the CST2 bit vector.                *)
(*                                                                          *)
(* A NACK is a pair <<frame, packet>>; AllPacketsLost in place of the       *)
(* packet says that nothing of the frame has arrived.  Room is the space    *)
(* left for feedback in the packet buffer, in 32-bit words.                 *)
(***************************************************************************)
EXTENDS FrameIds, FiniteSets, FiniteSetsExt

kAllPacketsLost == 65535

\* ComputeNumberOfPackets() refuses a frame of more packets than that.
kMaxAllowedFramePacketId == kAllPacketsLost - 1

\* A loss field names one lost packet and, in a bit vector, which of the
\* kPidBits packets after it are lost as well.
kPidBits == 8

\* The 8-bit count of loss fields, and the octets an ACK bit vector may have.
kMaxLossFields == 255
kRtcpMinAckBitVectorOctets == 2
kRtcpMaxAckBitVectorOctets == 254

-----------------------------------------------------------------------------
(* CompoundRtcpBuilder *)

\* A slip: a field is taken to reach one packet further than its bits do.
FieldStartsTooFar(missing) ==
  LET starts[p \in missing] ==
        \A q \in missing : q < p /\ p - q <= kPidBits + 1 => ~starts[q]
  IN  {p \in missing : starts[p]}

\* The packets of `missing` that start a loss field: the first one, and then
\* each first one that the bit vector of the field before it cannot reach.
FieldStarts(missing) ==
  LET starts[p \in missing] ==
        \A q \in missing : q < p /\ p - q <= kPidBits => ~starts[q]
  IN  {p \in missing : starts[p]}

\* One loss field for frame f that starts with lost packet p.
LossField(f, p, missing) ==
  [frame  |-> LowerBits(f),
   packet |-> p,
   bits   |-> {q - p - 1 : q \in {r \in missing : p < r /\ r <= p + kPidBits}}]

\* AppendCastFeedbackLossFields(): NACKs up to the checkpoint are omitted, and
\* of the fields only as many as fit are kept, the oldest first.
LossFields(checkpoint, nacks, room) ==
  LET live       == {n \in nacks : n[1] > checkpoint}
      missing(f) == {n[2] : n \in {m \in live : m[1] = f}}
      starts     == UNION {{<<f, p>> : p \in FieldStarts(missing(f))} :
                             f \in {n[1] : n \in live}}
      before(s)  == {r \in starts : r[1] < s[1] \/ (r[1] = s[1] /\ r[2] < s[2])}
      limit      == Min({room, kMaxLossFields})
  IN  {LossField(s[1], s[2], missing(s[1])) :
         s \in {r \in starts : Cardinality(before(r)) < limit}}

\* The number of ACK bits that fit into `room` words: a CST2 header with two
\* octets takes two words, and the vector grows by whole words of four octets.
AckBits(room) ==
  IF room < 2
  THEN 0
  ELSE 8 * Min({kRtcpMinAckBitVectorOctets + 4 * (room - 2),
                kRtcpMaxAckBitVectorOctets})

\* A slip: bit 0 stands for the frame right after the checkpoint.
AckFieldsFromNext(checkpoint, acks, room) ==
  {f - (checkpoint + 1) : f \in {g \in acks : g >= checkpoint + 1
                                    /\ g - (checkpoint + 1) < AckBits(room)}}

\* AppendCastFeedbackAckFields(): bit i stands for frame checkpoint + 2 + i.
\* The frame right after the checkpoint has no bit: ACKing it moves the
\* checkpoint instead.
AckFields(checkpoint, acks, room) ==
  {f - (checkpoint + 2) : f \in {g \in acks : g >= checkpoint + 2
                                    /\ g - (checkpoint + 2) < AckBits(room)}}

\* AppendCastFeedbackPacket(): ACKs get the room the loss fields leave.
BuildFeedback(checkpoint, nacks, acks, room) ==
  LET loss == LossFields(checkpoint, nacks, room)
  IN  [checkpoint |-> LowerBits(checkpoint),
       loss       |-> loss,
       acks       |-> AckFields(checkpoint, acks, room - Cardinality(loss))]

-----------------------------------------------------------------------------
(* CompoundRtcpParser *)

\* CanonicalizePacketNackVector(): kAllPacketsLost makes the other NACKs of the
\* same frame redundant.
Canonicalize(nacks) ==
  {n \in nacks : n[2] = kAllPacketsLost \/ <<n[1], kAllPacketsLost>> \notin nacks}

\* The NACKs of one loss field, given the expanded checkpoint.
FieldNacks(checkpoint, field) ==
  LET f == ExpandGreaterThan(checkpoint, field.frame)
  IN  {<<f, field.packet>>} \cup
      IF field.packet = kAllPacketsLost
      THEN {}
      ELSE {<<f, field.packet + 1 + i>> : i \in field.bits}

\* A slip: bit 0 is read as the frame right after the checkpoint.
ParseFeedbackFromNext(wire, maxFeedbackFrameId) ==
  LET checkpoint == ExpandLessThanOrEqual(maxFeedbackFrameId, wire.checkpoint)
  IN  [checkpoint |-> checkpoint,
       nacks |-> Canonicalize(UNION {FieldNacks(checkpoint, field) :
                                       field \in wire.loss}),
       acks  |-> {checkpoint + 1 + i : i \in wire.acks}]

\* ParseFeedback(): the checkpoint is at most the last frame the Sender
\* enqueued; everything else is relative to it.
ParseFeedback(wire, maxFeedbackFrameId) ==
  LET checkpoint == ExpandLessThanOrEqual(maxFeedbackFrameId, wire.checkpoint)
  IN  [checkpoint |-> checkpoint,
       nacks |-> Canonicalize(UNION {FieldNacks(checkpoint, field) :
                                       field \in wire.loss}),
       acks  |-> {checkpoint + 2 + i : i \in wire.acks}]
=============================================================================
