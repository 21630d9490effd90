------------------------ MODULE StreamingSenderProofs -----------------------
(***************************************************************************)
(* The inductive invariant of CastStreaming, for queues, streams and frames *)
(* of every size, and that the steps of the Sender keep it, whatever RTCP   *)
(* packets were lost, delayed or reordered on their way to it; so does any  *)
(* step of the Receiver that moves on in the way ReceiverMoves says.  It    *)
(* rests on what a Sender reads from feedback being what the Receiver has   *)
(* meant, although the frame IDs in it are truncated.                       *)
(***************************************************************************)
EXTENDS CastStreaming, FiniteSetTheorems, TLAPS

-----------------------------------------------------------------------------
(* Integers: greatest elements, remainders *)

\* A non-empty set of naturals has a least element.
LEMMA Least ==
  ASSUME NEW T, T \subseteq Nat, T # {}
  PROVE  \E x \in T : \A y \in T : x <= y
<1>1. PICK x \in T : \A y \in T : ~(<<y, x>> \in OpToRel(<, Nat))
  BY NatLessThanWellFounded, WFMin, Zenon
<1>2. ASSUME NEW y \in T
      PROVE  x <= y
  <2>1. x \in Nat /\ y \in Nat
    BY Zenon
  <2>2. y < x => <<y, x>> \in OpToRel(<, Nat)
    BY <2>1, Zenon DEF OpToRel
  <2>3. ~(y < x)
    BY <1>1, <2>2, Zenon
  <2>. QED
    BY <2>1, <2>3
<1>. QED
  BY <1>2, Zenon

\* A non-empty set of integers with an upper bound has a greatest element.
LEMMA Greatest ==
  ASSUME NEW S, S \subseteq Int, S # {},
         NEW upper \in Int, \A x \in S : x <= upper
  PROVE  \E x \in S : \A y \in S : y <= x
<1>. DEFINE T == {upper - x : x \in S}
<1>1. T \subseteq Nat
  OBVIOUS
<1>2. T # {}
  BY Zenon
<1>3. PICK t \in T : \A u \in T : t <= u
  BY <1>1, <1>2, Least, Zenon
<1>4. PICK x \in S : t = upper - x
  BY Zenon
<1>5. ASSUME NEW y \in S
      PROVE  y <= x
  <2>1. upper - y \in T
    BY Zenon
  <2>2. t <= upper - y
    BY <1>3, <2>1, Zenon
  <2>. HIDE DEF T
  <2>. QED
    BY <1>4, <2>2
<1>. QED
  BY <1>5, Zenon

\* Multiplication by a positive integer is monotonic.
LEMMA Multiples ==
  ASSUME NEW n \in Nat \ {0}, NEW a \in Int, NEW b \in Int, a < b
  PROVE  n * a + n <= n * b
<1>1. /\ a + 1 <= b
      /\ b - a - 1 \in Nat
  OBVIOUS
<1>2. n * (b - a - 1) >= 0
  BY <1>1
<1>3. n * (b - a - 1) = n * b - n * a - n
  OBVIOUS
<1>4. n * a \in Int /\ n * b \in Int
  OBVIOUS
<1> QED BY <1>2, <1>3, <1>4

\* Integer division with remainder, in the form the other proofs use it.
LEMMA Division ==
  ASSUME NEW n \in Nat \ {0}, NEW a \in Int
  PROVE  /\ a \div n \in Int
         /\ a % n \in 0 .. (n - 1)
         /\ a = n * (a \div n) + (a % n)
  OBVIOUS

\* Two integers less than n apart with the same remainder are equal: distinct
\* frames of a window of n frames never share a slot of an n-element ring.
LEMMA SameRemainder ==
  ASSUME NEW n \in Nat \ {0}, NEW a \in Int, NEW b \in Int,
         a % n = b % n, a - b < n, b - a < n
  PROVE  a = b
<1> DEFINE qa == a \div n
           qb == b \div n
<1>1. /\ qa \in Int
      /\ a % n \in 0 .. (n - 1)
      /\ a = n * qa + (a % n)
  BY Division, Zenon
<1>2. /\ qb \in Int
      /\ b % n \in 0 .. (n - 1)
      /\ b = n * qb + (b % n)
  BY Division, Zenon
<1> HIDE DEF qa, qb
<1>3. ~(qa < qb)
  <2> SUFFICES ASSUME qa < qb PROVE FALSE
    BY Zenon
  <2>1. n * qa + n <= n * qb
    BY <1>1, <1>2, Multiples, Zenon
  <2>2. n * qa \in Int /\ n * qb \in Int
    BY <1>1, <1>2
  <2> QED BY <1>1, <1>2, <2>1, <2>2
<1>4. ~(qb < qa)
  <2> SUFFICES ASSUME qb < qa PROVE FALSE
    BY Zenon
  <2>1. n * qb + n <= n * qa
    BY <1>1, <1>2, Multiples, Zenon
  <2>2. n * qa \in Int /\ n * qb \in Int
    BY <1>1, <1>2
  <2> QED BY <1>1, <1>2, <2>1, <2>2
<1>5. qa = qb
  BY <1>1, <1>2, <1>3, <1>4
<1> QED BY <1>1, <1>2, <1>5, Zenon

-----------------------------------------------------------------------------
(* Truncated identifiers *)

\* ExpandLessThanOrEqual(): "the greatest value less than or equal to `this`
\* value whose lower bits are those of `x`".  A value truncated by the peer is
\* recovered whenever it lies at most Width - 1 below the reference.
THEOREM ExpandLessThanOrEqualInverts ==
  ASSUME NEW value \in Int, NEW original \in Int,
         original <= value, value - original < Width
  PROVE  ExpandLessThanOrEqual(value, LowerBits(original)) = original
<1> DEFINE qv == value \div Width
           qo == original \div Width
<1>0. Width \in Nat \ {0}
  BY WidthAssumption, Zenon
<1>1. /\ qv \in Int
      /\ value % Width \in 0 .. (Width - 1)
      /\ value = Width * qv + (value % Width)
  BY <1>0, Division, Zenon
<1>2. /\ qo \in Int
      /\ original % Width \in 0 .. (Width - 1)
      /\ original = Width * qo + (original % Width)
  BY <1>0, Division, Zenon
<1> HIDE DEF qv, qo
<1>3. Width * qv \in Int /\ Width * qo \in Int
  BY <1>0, <1>1, <1>2
<1>4. CASE qo = qv
  BY <1>0, <1>1, <1>2, <1>3, <1>4 DEF ExpandLessThanOrEqual, LowerBits
<1>5. CASE qo < qv
  <2>1. Width * qo + Width <= Width * qv
    BY <1>0, <1>1, <1>2, <1>5, Multiples, Zenon
  <2>2. qo + 1 = qv
    <3> SUFFICES ASSUME qo + 1 < qv PROVE FALSE
      BY <1>1, <1>2, <1>5
    <3>1. Width * (qo + 1) + Width <= Width * qv
      BY <1>0, <1>1, <1>2, Multiples
    <3>2. Width * (qo + 1) = Width * qo + Width
      BY <1>0, <1>2
    <3> QED BY <1>0, <1>1, <1>2, <1>3, <3>1, <3>2
  <2>3. Width * qv = Width * qo + Width
    BY <1>0, <1>2, <2>2
  <2> QED
    BY <1>0, <1>1, <1>2, <1>3, <2>3 DEF ExpandLessThanOrEqual, LowerBits
<1>6. CASE qv < qo
  <2>1. Width * qv + Width <= Width * qo
    BY <1>0, <1>1, <1>2, <1>6, Multiples, Zenon
  <2> QED BY <1>0, <1>1, <1>2, <1>3, <2>1
<1> QED BY <1>1, <1>2, <1>4, <1>5, <1>6

\* ExpandGreaterThan() recovers a value from 1 to Width above the reference:
\* the frames a Receiver may NACK, all of them after its checkpoint.
THEOREM ExpandGreaterThanInverts ==
  ASSUME NEW value \in Int, NEW original \in Int,
         value < original, original - value <= Width
  PROVE  ExpandGreaterThan(value, LowerBits(original)) = original
<1>1. Width \in Nat \ {0}
  BY WidthAssumption, Zenon
<1>2. /\ value + Width \in Int
      /\ original <= value + Width
      /\ (value + Width) - original < Width
  BY <1>1
<1> QED BY <1>2, ExpandLessThanOrEqualInverts, Zenon DEF ExpandGreaterThan

\* Expand() recovers a value at most max_distance_for_expansion() away: "Values
\* that are truncated [...] must be no more than this maximum distance from each
\* other in order to ensure the original value can be determined correctly".
THEOREM ExpandInverts ==
  ASSUME NEW value \in Int, NEW original \in Int,
         original - value <= MaxDistanceForExpansion,
         value - original <= MaxDistanceForExpansion
  PROVE  Expand(value, LowerBits(original)) = original
<1>1. /\ Width \in Nat \ {0}
      /\ MaxDistanceForExpansion \in Int
      /\ MaxDistanceForExpansion + MaxDistanceForExpansion < Width
  BY WidthAssumption DEF MaxDistanceForExpansion
<1>2. /\ value + MaxDistanceForExpansion \in Int
      /\ original <= value + MaxDistanceForExpansion
      /\ (value + MaxDistanceForExpansion) - original < Width
  BY <1>1
<1> QED BY <1>2, ExpandLessThanOrEqualInverts, Zenon DEF Expand

-----------------------------------------------------------------------------
(* Slots *)

\* Every frame has a slot.
LEMMA SlotExists ==
  ASSUME NEW f \in Int
  PROVE  Slot(f) \in Slots
BY Division, QueueSizeAssumption, Zenon DEF Slot, Slots

\* Frames less than kMaxUnackedFrames apart have different slots.
LEMMA SlotsDiffer ==
  ASSUME NEW f \in Int, NEW g \in Int,
         f - g < kMaxUnackedFrames, g - f < kMaxUnackedFrames,
         Slot(f) = Slot(g)
  PROVE  f = g
BY SameRemainder, QueueSizeAssumption, Zenon DEF Slot

-----------------------------------------------------------------------------
(* The inductive invariant *)

\* What the Sender would read from the RTCP packet m now.
Meaning(m) == ParseFeedback(m.feedback, lastEnqueued)

\* The stream has the frames up to last_enqueued_frame_id_.
StreamInv ==
  /\ lastEnqueued \in Int /\ leader <= lastEnqueued
  /\ stream \in Seq(Frame)
  /\ Len(stream) = lastEnqueued + 1
  /\ \A f \in first .. lastEnqueued :
       stream[f + 1].packets <= kMaxAllowedFramePacketId

\* An RTP packet on its way is one of the stream and of a recent frame.
RtpInv ==
  \A n \in rtpNet :
    /\ n[1] \in first .. lastEnqueued
    /\ \/ n[1] + PacketLifetime > lastEnqueued
       \/ n[1] + kMaxUnackedFrames > lastEnqueued
    /\ n[2] \in PacketIds(stream[n[1] + 1])

\* The reference the Receiver expands frame IDs with.
HighestInv ==
  /\ latestExpected <= highestRtp
  /\ highestRtp <= lastEnqueued \/ highestRtp = first

PendingSlot ==
  [id : Int \cup {null}, frame : Frame \cup {null}, send_flags : SUBSET Nat,
   sent : SUBSET Nat]

\* A slot of the Sender in use is that of a frame in its window, and each
\* packet of the frame was sent or is to be sent.
SlotInv(s) ==
  LET slot == pendingFrames[s]
  IN  slot.id # null =>
        /\ slot.id \in (senderCheckpoint + 1) .. lastEnqueued
        /\ Slot(slot.id) = s
        /\ slot.frame = stream[slot.id + 1]
        /\ slot.send_flags \cup slot.sent = PacketIds(slot.frame)

\* The Sender's own invariant: the oldest frame in its window is in flight, and
\* a frame that is not was known to the Receiver.
SenderInv ==
  /\ senderCheckpoint \in Int
  /\ SenderTypeOK
  /\ senderCheckpoint <= senderLatestExpected
  /\ pendingFrames \in [Slots -> PendingSlot]
  /\ \A s \in Slots : SlotInv(s)
  /\ senderCheckpoint < lastEnqueued
       => IsActive(pendingFrames, senderCheckpoint + 1)
  /\ \A f \in (senderCheckpoint + 1) .. lastEnqueued :
       IsActive(pendingFrames, f) \/ f <= senderLatestExpected
  /\ framesInFlight = Cardinality(InFlight)
  /\ NoLostSend

\* What an RTCP packet that the Sender would still accept tells it is true, and
\* leaves the frame after its checkpoint in flight.
MessageInv(m) ==
  LET read == Meaning(m)
  IN  /\ m.feedback.checkpoint = LowerBits(read.checkpoint)
      /\ senderCheckpoint <= read.checkpoint
      /\ read.checkpoint <= checkpoint
      /\ read.checkpoint < lastEnqueued
           => IsActive(pendingFrames, read.checkpoint + 1)
      /\ \A f \in read.acks : read.checkpoint + 2 <= f /\ Received(f)
      /\ \A n \in read.nacks : n[1] <= latestExpected
      /\ m.pli /\ lastEnqueuedKey <= read.checkpoint => pli

\* A later packet does not take back what an earlier one says: it would let the
\* Sender move its checkpoint to right before a frame it has canceled.
OrderInv(m, n) ==
  /\ ~n.stale
  /\ Meaning(m).checkpoint <= Meaning(n).checkpoint
  /\ Meaning(n).checkpoint + 1 \notin Meaning(m).acks

RtcpInv ==
  /\ \A i \in DOMAIN rtcpNet :
       \A m \in {rtcpNet[i]} : ~m.stale => MessageInv(m)
  /\ \A i, j \in DOMAIN rtcpNet :
       \A m \in {rtcpNet[i]}, n \in {rtcpNet[j]} :
         i < j /\ ~m.stale => OrderInv(m, n)

\* The delay that frame g changes to, if it is positive.
DelayOf(g) == stream[g + 1].new_playout_delay

\* A change at a frame that the queue cannot be asked about any more.
Superseded(g) ==
  \E d \in delayChanges :
    g < d[1] /\ d[1] <= lastConsumed - kMaxUnackedFrames + 1

\* The Receiver's record of delay changes: they are the Sender's, and none is
\* missing of the frames whose first packet has been seen.
Recorded ==
  /\ \A c \in delayChanges :
       \/ c = <<leader, InitialDelay>>
       \/ c[1] \in first .. latestExpected /\ c[2] = DelayOf(c[1]) /\ c[2] > 0
  /\ \A g \in first .. latestExpected :
       DelayOf(g) > 0 /\ (g <= lastConsumed \/ Entry(queue, g).capture = g)
         => <<g, DelayOf(g)>> \in delayChanges \/ Superseded(g)
  /\ <<leader, InitialDelay>> \in delayChanges \/ Superseded(leader)

DelayInv == Recorded /\ playoutDelay = SenderDelay(checkpoint)

\* last_enqueued_key_frame_id_ is that of the last key frame.
KeyInv ==
  \A f \in first .. lastEnqueued :
    stream[f + 1].dependency = kKeyFrame => f <= lastEnqueuedKey

SInv ==
  /\ IInv
  /\ StreamInv
  /\ RtpInv
  /\ HighestInv
  /\ SenderInv
  /\ NeverAhead
  /\ RtcpInv
  /\ FramesGenuine
  /\ DelayInv
  /\ KeyInv
  /\ KeyFrameOnlyIfPictureLost

-----------------------------------------------------------------------------
(* Feedback on the wire *)

\* What AppendCastFeedbackLossFields() writes, ParseFeedback() reads back as
\* NACKs the Receiver meant.
LEMMA LossFieldsSound ==
  ASSUME NEW c \in Int, NEW nacks \in SUBSET (Int \X Nat), NEW room,
         \A n \in nacks : n[1] - c <= Width,
         NEW field \in LossFields(c, nacks, room)
  PROVE  FieldNacks(c, field) \subseteq nacks
<1>. DEFINE live == {n \in nacks : n[1] > c}
            missing(f) == {n[2] : n \in {m \in live : m[1] = f}}
            starts == UNION {{<<f, p>> : p \in FieldStarts(missing(f))} :
                               f \in {n[1] : n \in live}}
<1>1. PICK s \in starts : field = LossField(s[1], s[2], missing(s[1]))
  BY Zenon DEF LossFields
<1>2. PICK f \in {n[1] : n \in live} :
        s \in {<<f, p>> : p \in FieldStarts(missing(f))}
  BY Zenon
<1>3. PICK p \in FieldStarts(missing(f)) : s = <<f, p>>
  BY <1>2, Zenon
<1>4. p \in missing(f)
  BY Zenon DEF FieldStarts
<1>5. \A q \in missing(f) : <<f, q>> \in nacks /\ q \in Nat
  <2>1. SUFFICES ASSUME NEW n \in nacks, n[1] = f
                 PROVE  <<f, n[2]>> \in nacks /\ n[2] \in Nat
    BY Zenon
  <2>. QED
    BY <2>1
<1>6. f \in Int /\ c < f /\ f - c <= Width
  BY Zenon
<1>. DEFINE M == missing(f)
<1>7. field = LossField(f, p, M)
  BY <1>1, <1>3, Zenon
<1>8. p \in M /\ \A q \in M : <<f, q>> \in nacks /\ q \in Nat
  BY <1>4, <1>5, Zenon
<1>. HIDE DEF M, live, missing, starts
<1>9. /\ field.frame = LowerBits(f)
      /\ field.packet = p
      /\ field.bits = {q - p - 1 : q \in {r \in M : p < r /\ r <= p + kPidBits}}
  BY <1>7, Zenon DEF LossField
<1>10. ExpandGreaterThan(c, field.frame) = f
  BY <1>6, <1>9, ExpandGreaterThanInverts, Zenon
<1>11. ASSUME NEW i \in field.bits
       PROVE  field.packet + 1 + i \in M
  <2>1. PICK q \in M : i = q - p - 1
    BY <1>9, Zenon
  <2>2. field.packet = p /\ p \in Nat /\ q \in Nat
    BY <1>8, <1>9, Zenon
  <2>3. field.packet + 1 + i = q
    BY <2>1, <2>2
  <2>. QED
    BY <2>3, Zenon
<1>12. <<f, field.packet>> \in nacks
  BY <1>8, <1>9, Zenon
<1>13. \A i \in field.bits : <<f, field.packet + 1 + i>> \in nacks
  BY <1>8, <1>11, Zenon
<1>. QED
  BY <1>10, <1>12, <1>13, Zenon DEF FieldNacks

\* Feedback is read as it was meant, although frame IDs are truncated: the
\* Sender gets the checkpoint the Receiver put in, and it reads no NACK and no
\* ACK that was not there.
THEOREM FeedbackReadAsMeant ==
  ASSUME NEW c \in Int, NEW last \in Int, c <= last, last - c < Width,
         NEW nacks \in SUBSET (Int \X Nat), NEW acks \in SUBSET Int, NEW room,
         \A n \in nacks : n[1] - c <= Width
  PROVE  LET read == ParseFeedback(BuildFeedback(c, nacks, acks, room), last)
         IN  /\ read.checkpoint = c
             /\ read.nacks \subseteq nacks
             /\ read.acks \subseteq acks
             /\ \A f \in read.acks : c + 2 <= f
<1>. DEFINE wire == BuildFeedback(c, nacks, acks, room)
            read == ParseFeedback(wire, last)
            left == room - Cardinality(LossFields(c, nacks, room))
<1>1. /\ wire.checkpoint = LowerBits(c)
      /\ wire.loss = LossFields(c, nacks, room)
      /\ wire.acks = AckFields(c, acks, left)
  BY Zenon DEF BuildFeedback
<1>. HIDE DEF wire, left
<1>2. ExpandLessThanOrEqual(last, wire.checkpoint) = c
  BY <1>1, ExpandLessThanOrEqualInverts, Zenon
<1>3. /\ read.checkpoint = c
      /\ read.nacks = Canonicalize(UNION {FieldNacks(c, field) :
                                            field \in wire.loss})
      /\ read.acks = {c + 2 + i : i \in wire.acks}
  BY <1>2, Zenon DEF ParseFeedback
<1>. HIDE DEF read
<1>4. read.nacks \subseteq nacks
  <2>1. \A field \in wire.loss : FieldNacks(c, field) \subseteq nacks
    BY <1>1, LossFieldsSound, Zenon
  <2>. QED
    BY <1>3, <2>1, Zenon DEF Canonicalize
<1>5. \A i \in wire.acks : \E f \in acks : f >= c + 2 /\ i = f - (c + 2)
  BY <1>1, Zenon DEF AckFields
<1>6. ASSUME NEW f \in read.acks
      PROVE  f \in acks /\ c + 2 <= f
  <2>1. PICK i \in wire.acks : f = c + 2 + i
    BY <1>3, Zenon
  <2>2. PICK g \in acks : g >= c + 2 /\ i = g - (c + 2)
    BY <1>5, Zenon
  <2>3. f = g
    BY <2>1, <2>2
  <2>. QED
    BY <2>2, <2>3
<1>. QED
  BY <1>3, <1>4, <1>6, Zenon DEF read, wire

-----------------------------------------------------------------------------
(* Preliminaries *)

\* The sizes of the queues, of truncated frame IDs and of a packet's life.
LEMMA Sizes ==
  /\ kMaxUnackedFrames \in Nat /\ 0 < kMaxUnackedFrames
  /\ Width \in Nat /\ 0 < Width
  /\ PacketLifetime \in Nat
  /\ MaxDistanceForExpansion \in Nat
  /\ kMaxUnackedFrames <= MaxDistanceForExpansion
  /\ MaxDistanceForExpansion + MaxDistanceForExpansion < Width
  /\ PacketLifetime + MaxDistanceForExpansion <= Width
  /\ kMaxUnackedFrames < Width
<1>1. /\ MaxDistanceForExpansion \in Nat
      /\ MaxDistanceForExpansion + MaxDistanceForExpansion < Width
  BY WidthAssumption DEF MaxDistanceForExpansion
<1>. QED
  BY <1>1, WidthAssumption, QueueSizeAssumption, ExpansionAssumption

\* The types of the frame pointers.
LEMMA Pointers ==
  ASSUME SInv
  PROVE  /\ lastEnqueued \in Int /\ senderCheckpoint \in Int
         /\ senderLatestExpected \in Int /\ lastEnqueuedKey \in Int
         /\ pictureLostAt \in Int
         /\ lastConsumed \in Int /\ checkpoint \in Int /\ latestExpected \in Int
         /\ highestRtp \in Int
         /\ leader \in Int /\ leader <= senderCheckpoint
         /\ senderCheckpoint <= checkpoint
         /\ lastConsumed <= checkpoint /\ checkpoint <= latestExpected
         /\ latestExpected <= lastEnqueued
         /\ latestExpected <= lastConsumed + kMaxUnackedFrames
         /\ lastEnqueued <= senderCheckpoint + kMaxUnackedFrames
<1>1. /\ lastConsumed \in Int /\ checkpoint \in Int /\ latestExpected \in Int
      /\ highestRtp \in Int
      /\ lastConsumed <= checkpoint /\ checkpoint <= latestExpected
      /\ latestExpected <= lastConsumed + kMaxUnackedFrames
  BY Zenon DEF SInv, IInv, TypeOK, FrameOrder
<1>2. lastEnqueued \in Int /\ senderCheckpoint \in Int /\ SenderTypeOK
  BY Zenon DEF SInv, StreamInv, SenderInv
<1>3. leader \in Int
  BY DEF leader
<1>4. /\ senderLatestExpected \in Int /\ lastEnqueuedKey \in Int
      /\ pictureLostAt \in Int
  BY <1>2, <1>3 DEF SenderTypeOK
<1>5. /\ leader <= senderCheckpoint
      /\ lastEnqueued <= senderCheckpoint + kMaxUnackedFrames
  BY <1>2, Zenon DEF SenderTypeOK
<1>6. senderCheckpoint <= checkpoint /\ latestExpected <= lastEnqueued
  BY Zenon DEF SInv, NeverAhead, PointersAgree
<1>. QED
  BY <1>1, <1>2, <1>3, <1>4, <1>5, <1>6, Zenon

\* The same in the next state.
LEMMA ReceivedNext ==
  ASSUME NEW f
  PROVE  Received(f)' <=> \/ f <= checkpoint'
                          \/ f <= latestExpected' /\ IsComplete(Entry(queue', f))
BY Zenon DEF Received, IsComplete, Entry, Slot

LEMMA ActiveNext ==
  ASSUME NEW f
  PROVE  IsActive(pendingFrames, f)' <=> IsActive(pendingFrames', f)
BY Zenon DEF IsActive, Slot

LEMMA MeaningKept ==
  ASSUME NEW m, lastEnqueued' = lastEnqueued
  PROVE  Meaning(m)' = Meaning(m)
BY Zenon DEF Meaning

\* What the Sender reads is well-formed.
LEMMA MeaningType ==
  ASSUME NEW m \in RtcpMessage, lastEnqueued \in Int
  PROVE  LET read == Meaning(m)
         IN  /\ read.checkpoint \in Int
             /\ read.acks \subseteq Int
             /\ \A n \in read.nacks : n[1] \in Int
<1>. DEFINE c == ExpandLessThanOrEqual(lastEnqueued, m.feedback.checkpoint)
            read == Meaning(m)
<1>1. /\ m.feedback.checkpoint \in Int /\ m.feedback.acks \subseteq Int
      /\ \A field \in m.feedback.loss : field.frame \in Int
  BY Zenon DEF RtcpMessage
<1>2. Width \in Nat /\ 0 < Width
  BY Sizes, Zenon
<1>3. \A v, x \in Int : ExpandLessThanOrEqual(v, x) \in Int
  <2>1. \A v \in Int : v % Width \in Int
    BY <1>2, Division
  <2>. QED
    BY <1>2, <2>1 DEF ExpandLessThanOrEqual
<1>4. c \in Int
  BY <1>1, <1>3, Zenon
<1>5. \A field \in m.feedback.loss : ExpandGreaterThan(c, field.frame) \in Int
  <2>1. c + Width \in Int
    BY <1>2, <1>4
  <2>. QED
    BY <1>1, <1>3, <2>1, Zenon DEF ExpandGreaterThan
<1>6. /\ read.checkpoint = c
      /\ read.nacks = Canonicalize(UNION {FieldNacks(c, field) :
                                            field \in m.feedback.loss})
      /\ read.acks = {c + 2 + i : i \in m.feedback.acks}
  BY Zenon DEF Meaning, ParseFeedback
<1>. HIDE DEF c, read
<1>7. \A i \in m.feedback.acks : c + 2 + i \in Int
  BY <1>1, <1>4
<1>8. ASSUME NEW n \in read.nacks
      PROVE  n[1] \in Int
  <2>1. PICK field \in m.feedback.loss : n \in FieldNacks(c, field)
    BY <1>6, Zenon DEF Canonicalize
  <2>2. PICK x : n = <<ExpandGreaterThan(c, field.frame), x>>
    BY <2>1, Zenon DEF FieldNacks
  <2>. QED
    BY <1>5, <2>2
<1>9. read.acks \subseteq Int
  BY <1>6, <1>7, Zenon
<1>. QED
  BY <1>4, <1>6, <1>8, <1>9, Zenon DEF read

LEMMA InFlightNext ==
  ASSUME UNCHANGED senderVars
  PROVE  InFlight' = InFlight
BY Zenon DEF InFlight, IsActive, Slot, senderVars

-----------------------------------------------------------------------------
(* What a step of the Receiver means for the Sender *)

\* The Receiver moves on: its pointers do not go back, frames it has received
\* stay received, it sends RTCP packets in order, and nothing but a key frame
\* clears the picture loss condition.
ReceiverMoves ==
  /\ checkpoint <= checkpoint'
  /\ latestExpected <= latestExpected'
  /\ latestExpected' <= lastEnqueued
  /\ \A f \in Int : Received(f) => Received(f)'
  /\ rtcpNet' = rtcpNet \/ SendRtcp
  /\ pli /\ ~pli' => \E f \in (checkpoint + 1) .. lastEnqueued :
                       stream[f + 1].dependency = kKeyFrame

\* The arithmetic of "the next frame".
LEMMA Successor ==
  \A c, l \in Int :
    /\ c + 1 \in Int
    /\ ~(c + 1 <= c)
    /\ c + 1 <= l <=> c < l
OBVIOUS

\* The packets of net, except the oldest k, are followed by m.
Follows(net, m, new, k) ==
  \A i \in DOMAIN new :
    /\ i \in 1 .. Len(new) /\ Len(new) \in Nat
    /\ i < Len(new) => i + k \in DOMAIN net /\ new[i] = net[i + k]
    /\ i = Len(new) => new[i] = m

\* What the Receiver does makes no difference to the Sender's own invariant.
LEMMA SenderUntouched ==
  ASSUME StreamInv, RtpInv, SenderInv, KeyInv,
         UNCHANGED <<senderVars, stream, rtpNet>>
  PROVE  StreamInv' /\ RtpInv' /\ SenderInv' /\ KeyInv'
<1>1. StreamInv' /\ KeyInv'
  BY Zenon DEF senderVars, StreamInv, KeyInv, first, leader
<1>2. RtpInv'
  BY Zenon DEF senderVars, RtpInv, PacketIds, first
<1>3. SenderTypeOK' /\ NoLostSend' /\ InFlight' = InFlight
  BY InFlightNext, Zenon
     DEF senderVars, SenderInv, SenderTypeOK, NoLostSend, FramesToSend,
         NeedsKickstart, IsActive, Slot, leader
<1>4. \A s \in Slots : SlotInv(s)'
  BY Zenon DEF senderVars, SenderInv, SlotInv, Slot, PacketIds
<1>5. \A f : IsActive(pendingFrames, f)' <=> IsActive(pendingFrames, f)
  BY Zenon DEF senderVars, IsActive, Slot
<1>6. SenderInv'
  BY <1>3, <1>4, <1>5, Zenon DEF senderVars, SenderInv, Slots, PendingSlot
<1>. QED
  BY <1>1, <1>2, <1>6, Zenon

\* A step of the Receiver keeps the invariant if it moves on, and if what it
\* has collected and recorded is what the Sender sent.
LEMMA ReceiverKeeps ==
  /\ SInv
  /\ IInv'
  /\ UNCHANGED <<senderVars, stream, rtpNet>>
  /\ ReceiverMoves
  /\ HighestInv'
  /\ FramesGenuine'
  /\ DelayInv'
  => SInv'

\* An RTCP packet that was sent before stays true.
<1>MessageKept.
  ASSUME SInv, IInv', UNCHANGED <<senderVars, stream>>, ReceiverMoves,
         NEW m \in RtcpMessage, MessageInv(m)
  PROVE  MessageInv(m)'
  <2>. USE <1>MessageKept
  <2>. DEFINE read == Meaning(m)
  <2>0. /\ lastEnqueued' = lastEnqueued /\ senderCheckpoint' = senderCheckpoint
        /\ lastEnqueuedKey' = lastEnqueuedKey /\ pendingFrames' = pendingFrames
    BY Zenon DEF senderVars
  <2>1. Meaning(m)' = read
    BY <2>0, MeaningKept, Zenon
  <2>2. /\ m.feedback.checkpoint = LowerBits(read.checkpoint)
        /\ senderCheckpoint <= read.checkpoint
        /\ read.checkpoint <= checkpoint
        /\ read.checkpoint < lastEnqueued
             => IsActive(pendingFrames, read.checkpoint + 1)
        /\ \A f \in read.acks : read.checkpoint + 2 <= f /\ Received(f)
        /\ \A n \in read.nacks : n[1] <= latestExpected
        /\ m.pli /\ lastEnqueuedKey <= read.checkpoint => pli
    BY Zenon DEF MessageInv
  <2>. HIDE DEF read
  <2>3. /\ read.checkpoint \in Int /\ read.acks \subseteq Int
        /\ \A n \in read.nacks : n[1] \in Int
        /\ checkpoint \in Int /\ checkpoint' \in Int /\ latestExpected \in Int
        /\ latestExpected' \in Int /\ lastEnqueued \in Int
        /\ lastEnqueuedKey \in Int
    BY Pointers, MeaningType, Zenon DEF read, IInv, TypeOK
  <2>4. read.checkpoint <= checkpoint'
    BY <2>2, <2>3 DEF ReceiverMoves
  <2>5. \A f \in read.acks : Received(f)'
    BY <2>2, <2>3, Zenon DEF ReceiverMoves
  <2>6. \A n \in read.nacks : n[1] <= latestExpected'
    <3>1. latestExpected <= latestExpected'
      BY Zenon DEF ReceiverMoves
    <3>. QED
      BY <2>2, <2>3, <3>1
  <2>7. m.pli /\ lastEnqueuedKey <= read.checkpoint => pli'
    <3>1. SUFFICES ASSUME m.pli, lastEnqueuedKey <= read.checkpoint, ~pli'
                   PROVE  FALSE
      BY Zenon
    <3>2. pli
      BY <2>2, <3>1, Zenon
    <3>3. PICK f \in (checkpoint + 1) .. lastEnqueued :
            stream[f + 1].dependency = kKeyFrame
      BY <3>1, <3>2, Zenon DEF ReceiverMoves
    <3>4. f \in first .. lastEnqueued /\ checkpoint < f /\ f \in Int
      BY <2>3, Pointers DEF leader, first
    <3>5. f <= lastEnqueuedKey
      BY <3>3, <3>4, Zenon DEF SInv, KeyInv
    <3>. QED
      BY <2>2, <2>3, <3>1, <3>4, <3>5
  <2>. QED
    BY <2>0, <2>1, <2>2, <2>4, <2>5, <2>6, <2>7, Zenon DEF MessageInv

\* What SendRtcp() sends: feedback on the frames after the checkpoint, of which
\* those it ACKs are complete.
<1>SentMessage.
  ASSUME IInv', SendRtcp
  PROVE  \E m :
           /\ rtcpNet' = Transmit(rtcpNet, m)
           /\ m.pli = pli'
           /\ m.stale = FALSE
           /\ \E nacks \in SUBSET (Int \X Nat), acks \in SUBSET Int :
                /\ m.feedback = BuildFeedback(checkpoint', nacks, acks, RtcpRoom)
                /\ \A n \in nacks : n[1] <= latestExpected'
                /\ \A f \in acks : Received(f)'
  <2>. USE <1>SentMessage
  <2>1. PICK packet_nacks \in {PacketNacks'}, frame_acks \in {FrameAcks'} :
          rtcpNet' = Transmit(rtcpNet, RtcpPacket(packet_nacks, frame_acks)')
    BY Zenon DEF SendRtcp
  <2>2. checkpoint' \in Int /\ latestExpected' \in Int
        /\ queue' \in [Slots -> PendingFrame]
    BY Zenon DEF IInv, TypeOK, Slots, PendingFrame
  <2>. DEFINE window == (checkpoint' + 1) .. latestExpected'
  <2>3. frame_acks \subseteq Int /\ \A f \in frame_acks : Received(f)'
    <3>1. frame_acks = {f \in window : IsComplete(Entry(queue', f))}
      BY <2>1, Zenon DEF FrameAcks, Entry, Slot, IsComplete
    <3>2. \A f \in window : f \in Int /\ f <= latestExpected'
      BY <2>2
    <3>. QED
      BY <3>1, <3>2, ReceivedNext, Zenon
  <2>4. packet_nacks = UNION {{f} \X MissingPackets(Entry(queue', f)) :
                                f \in window \ FrameAcks'}
    BY <2>1, Zenon DEF PacketNacks, Entry, MissingPackets, Slot
  <2>5. \A e \in PendingFrame : MissingPackets(e) \subseteq Nat
    BY DEF MissingPackets, PendingFrame, kAllPacketsLost
  <2>6. ASSUME NEW n \in packet_nacks
        PROVE  n \in Int \X Nat /\ n[1] <= latestExpected'
    <3>1. PICK f \in window : n \in {f} \X MissingPackets(Entry(queue', f))
      BY <2>4, Zenon
    <3>2. f \in Int /\ f <= latestExpected'
      BY <2>2
    <3>3. Entry(queue', f) \in PendingFrame
      BY <2>2, <3>2, SlotExists, Zenon DEF Entry
    <3>4. MissingPackets(Entry(queue', f)) \subseteq Nat
      BY <2>5, <3>3, Zenon
    <3>. QED
      BY <3>1, <3>2, <3>4
  <2>. DEFINE m == RtcpPacket(packet_nacks, frame_acks)'
  <2>7. /\ m.feedback = BuildFeedback(checkpoint', packet_nacks, frame_acks, RtcpRoom)
        /\ m.pli = pli'
        /\ m.stale = FALSE
    BY Zenon DEF RtcpPacket
  <2>8. packet_nacks \in SUBSET (Int \X Nat) /\ frame_acks \in SUBSET Int
    BY <2>3, <2>6, Zenon
  <2>. HIDE DEF m
  <2>9. rtcpNet' = Transmit(rtcpNet, m)
    BY <2>1, Zenon DEF m
  <2>. QED
    BY <2>3, <2>6, <2>7, <2>8, <2>9, Zenon
<1>NextNotReceivedNext.
  ASSUME IInv', NEW f, f = checkpoint' + 1
  PROVE  ~Received(f)'
  <2>. USE <1>NextNotReceivedNext
  <2>1. checkpoint' \in Int /\ latestExpected' \in Int
    BY Zenon DEF IInv, TypeOK
  <2>2. checkpoint' < latestExpected' => ~IsComplete(Entry(queue', f))
    BY Zenon DEF IInv, CheckpointExact, IsComplete, Entry, Slot
  <2>3. /\ ~(f <= checkpoint')
        /\ f <= latestExpected' => checkpoint' < latestExpected'
    BY <2>1, Successor, Zenon
  <2>. QED
    BY <2>2, <2>3, ReceivedNext, Zenon

\* What the Sender has given up, the Receiver still does not need.
<1>CanceledKept.
  ASSUME SInv, UNCHANGED senderVars, ReceiverMoves
  PROVE  CanceledOnlyIfReceived'
  <2>. USE <1>CanceledKept
  <2>1. lastEnqueued' = lastEnqueued /\ InFlight' = InFlight
    BY InFlightNext, Zenon DEF senderVars
  <2>2. \A f \in first .. lastEnqueued : f \in InFlight \/ Received(f)
    BY Zenon DEF SInv, NeverAhead, CanceledOnlyIfReceived
  <2>3. \A f \in first .. lastEnqueued : f \in Int
    BY Pointers DEF first
  <2>4. \A f \in first .. lastEnqueued : f \in InFlight' \/ Received(f)'
    BY <2>1, <2>2, <2>3, Zenon DEF ReceiverMoves
  <2>. QED
    BY <2>1, <2>4, Zenon DEF CanceledOnlyIfReceived, first

\* A new RTCP packet tells the truth, and is understood.
<1>NewMessage.
  ASSUME SInv, IInv', UNCHANGED <<senderVars, stream>>, ReceiverMoves,
         NEW c, c = checkpoint', NEW last, last = latestExpected',
         NEW m, m.pli = pli',
         NEW nacks \in SUBSET (Int \X Nat), NEW acks \in SUBSET Int,
         m.feedback = BuildFeedback(c, nacks, acks, RtcpRoom),
         \A n \in nacks : n[1] <= last,
         \A f \in acks : Received(f)'
  PROVE  MessageInv(m)' /\ Meaning(m)'.checkpoint = c
  <2>. USE <1>NewMessage
  <2>. DEFINE read == ParseFeedback(m.feedback, lastEnqueued)
  <2>0. /\ lastEnqueued' = lastEnqueued /\ senderCheckpoint' = senderCheckpoint
        /\ lastEnqueuedKey' = lastEnqueuedKey /\ pendingFrames' = pendingFrames
    BY Zenon DEF senderVars
  <2>1. /\ c \in Int /\ last \in Int /\ lastEnqueued \in Int
        /\ c <= last /\ last <= lastEnqueued
        /\ checkpoint <= c /\ checkpoint \in Int
        /\ senderCheckpoint \in Int /\ senderCheckpoint <= checkpoint
        /\ lastEnqueued <= senderCheckpoint + kMaxUnackedFrames
        /\ leader \in Int /\ leader <= senderCheckpoint
        /\ kMaxUnackedFrames \in Nat /\ Width \in Nat /\ kMaxUnackedFrames < Width
    BY Pointers, Sizes, Zenon DEF IInv, TypeOK, FrameOrder, ReceiverMoves
  <2>2. /\ c <= lastEnqueued /\ lastEnqueued - c < Width /\ senderCheckpoint <= c
        /\ \A n \in Int : n <= last => n - c <= Width
        /\ c < lastEnqueued => c + 1 \in first .. lastEnqueued
        /\ c <= c
    BY ONLY <2>1 DEF first, leader
  <2>3. \A n \in nacks : n[1] - c <= Width
    BY <2>2, Zenon
  <2>. DEFINE sent == BuildFeedback(c, nacks, acks, RtcpRoom)
  <2>4. /\ read.checkpoint = c
        /\ read.nacks \subseteq nacks
        /\ read.acks \subseteq acks
        /\ \A f \in read.acks : c + 2 <= f
    <3>1. /\ ParseFeedback(sent, lastEnqueued).checkpoint = c
          /\ ParseFeedback(sent, lastEnqueued).nacks \subseteq nacks
          /\ ParseFeedback(sent, lastEnqueued).acks \subseteq acks
          /\ \A f \in ParseFeedback(sent, lastEnqueued).acks : c + 2 <= f
      BY ONLY <2>1, <2>2, <2>3, nacks \in SUBSET (Int \X Nat), acks \in SUBSET Int,
         FeedbackReadAsMeant, Zenon
    <3>2. read = ParseFeedback(sent, lastEnqueued)
      BY Zenon
    <3>. HIDE DEF read, sent
    <3>. QED
      BY <3>1, <3>2, Zenon
  <2>5. Meaning(m)' = read
    BY <2>0, Zenon DEF Meaning
  <2>. HIDE DEF read
  <2>6. c < lastEnqueued => IsActive(pendingFrames', c + 1)
    <3>1. SUFFICES ASSUME c < lastEnqueued
                   PROVE  IsActive(pendingFrames, c + 1)
      BY <2>0, Zenon
    <3>2. c + 1 \in first .. lastEnqueued
      BY <2>2, <3>1, Zenon
    <3>3. ~Received(c + 1)'
      BY <1>NextNotReceivedNext, Zenon
    <3>4. c + 1 \in Int
      BY <2>1, Successor, Zenon
    <3>5. ~Received(c + 1)
      BY <3>3, <3>4, Zenon DEF ReceiverMoves
    <3>6. c + 1 \in InFlight
      BY <3>2, <3>5, Zenon DEF SInv, NeverAhead, CanceledOnlyIfReceived
    <3>. QED
      BY <3>6, Zenon DEF InFlight
  <2>7. \A f \in read.acks : Received(f)'
    BY <2>4, Zenon
  <2>8. \A n \in read.nacks : n[1] <= latestExpected'
    BY <2>4, Zenon
  <2>9. m.pli /\ lastEnqueuedKey <= c => pli'
    BY Zenon
  <2>10. c <= checkpoint'
    BY <2>2, Zenon
  <2>11. m.feedback.checkpoint = LowerBits(c)
    <3>1. sent.checkpoint = LowerBits(c)
      BY Zenon DEF BuildFeedback
    <3>2. m.feedback = sent
      BY Zenon
    <3>. HIDE DEF sent
    <3>. QED
      BY <3>1, <3>2, Zenon
  <2>12. MessageInv(m)'
    BY <2>0, <2>2, <2>4, <2>5, <2>6, <2>7, <2>8, <2>9, <2>10, <2>11, ActiveNext, Zenon
       DEF MessageInv
  <2>. QED
    BY <2>4, <2>5, <2>12, Zenon

\* The network keeps the order in which RTCP packets were sent.
<1>TransmitOrder.
  ASSUME NEW M, NEW net \in Seq(M), NEW m, NEW new, new = Transmit(net, m)
  PROVE  new = net \/ \E k \in {0, 1} : Follows(net, m, new, k)
  <2>. USE <1>TransmitOrder
  <2>1. CASE Len(net) < RtcpInTransit
    <3>1. new = Append(net, m)
      BY <2>1, Zenon DEF Transmit
    <3>2. \A i \in DOMAIN new :
            /\ i \in 1 .. Len(new) /\ Len(new) \in Nat
            /\ i < Len(new) => i + 0 \in DOMAIN net /\ new[i] = net[i + 0]
            /\ i = Len(new) => new[i] = m
      BY ONLY net \in Seq(M), <3>1
    <3>. QED
      BY <3>2, Zenon DEF Follows
  <2>2. CASE ~(Len(net) < RtcpInTransit) /\ net = <<>>
    BY <2>2, Zenon DEF Transmit
  <2>3. CASE ~(Len(net) < RtcpInTransit) /\ net # <<>>
    <3>. DEFINE tail == Tail(net)
    <3>1. new = Append(tail, m)
      BY <2>3, Zenon DEF Transmit
    <3>2. /\ tail \in Seq(M) /\ Len(tail) = Len(net) - 1 /\ Len(net) \in Nat
          /\ \A i \in 1 .. Len(tail) : i + 1 \in DOMAIN net /\ tail[i] = net[i + 1]
      BY <2>3
    <3>. HIDE DEF tail
    <3>3. /\ DOMAIN new = 1 .. Len(new) /\ Len(new) \in Nat
          /\ Len(new) = Len(tail) + 1
          /\ \A i \in 1 .. Len(tail) : new[i] = tail[i]
          /\ new[Len(tail) + 1] = m
      BY ONLY <3>1, <3>2
    <3>4. \A i \in DOMAIN new :
            /\ i \in 1 .. Len(new) /\ Len(new) \in Nat
            /\ i < Len(new) => i + 1 \in DOMAIN net /\ new[i] = net[i + 1]
            /\ i = Len(new) => new[i] = m
      BY ONLY <3>2, <3>3
    <3>. QED
      BY <3>4, Zenon DEF Follows
  <2>. QED
    BY <2>1, <2>2, <2>3, Zenon

\* A new packet does not take back what an earlier one says.
<1>NewOrder.
  ASSUME SInv, IInv', UNCHANGED <<senderVars, stream>>, ReceiverMoves,
         NEW c, c = checkpoint',
         NEW m \in RtcpMessage, MessageInv(m),
         NEW n, ~n.stale, Meaning(n)'.checkpoint = c
  PROVE  OrderInv(m, n)'
  <2>. USE <1>NewOrder
  <2>. DEFINE read == Meaning(m)
  <2>1. Meaning(m)' = read
    BY MeaningKept, Zenon DEF senderVars
  <2>2. /\ read.checkpoint <= checkpoint
        /\ \A f \in read.acks : f \in Int /\ Received(f)
        /\ read.checkpoint \in Int
    BY MeaningType, Pointers, Zenon DEF MessageInv
  <2>3. /\ checkpoint \in Int /\ c \in Int /\ checkpoint <= c
    BY Pointers, Zenon DEF IInv, TypeOK, ReceiverMoves
  <2>. HIDE DEF read
  <2>4. read.checkpoint <= c
    BY ONLY <2>2, <2>3
  <2>5. c + 1 \notin read.acks
    <3>1. ~Received(c + 1)'
      BY <1>NextNotReceivedNext, Zenon
    <3>. QED
      BY <2>2, <3>1, Zenon DEF ReceiverMoves
  <2>. QED
    BY <2>1, <2>4, <2>5, Zenon DEF OrderInv

\* A step of the Receiver leaves true packets in the network.
<1>ReceiverRtcp.
  ASSUME SInv, IInv', UNCHANGED <<senderVars, stream>>, ReceiverMoves
  PROVE  RtcpInv'
  <2>. USE <1>ReceiverRtcp
  <2>1. rtcpNet \in Seq(RtcpMessage)
    BY Zenon DEF SInv, IInv, TypeOK
  <2>2. ASSUME NEW i \in DOMAIN rtcpNet
        PROVE  /\ rtcpNet[i] \in RtcpMessage
               /\ \A m \in {rtcpNet[i]} : ~m.stale => MessageInv(m) /\ MessageInv(m)'
    <3>1. rtcpNet[i] \in RtcpMessage
      BY <2>1
    <3>. QED
      BY <3>1, <1>MessageKept, Zenon DEF SInv, RtcpInv
  <2>3. \A i, j \in DOMAIN rtcpNet :
          \A m \in {rtcpNet[i]}, n \in {rtcpNet[j]} :
            i < j /\ ~m.stale => OrderInv(m, n)'
    BY MeaningKept, Zenon DEF SInv, RtcpInv, OrderInv, senderVars
  <2>4. CASE rtcpNet' = rtcpNet
    BY <2>2, <2>3, <2>4, Zenon DEF RtcpInv
  <2>5. CASE SendRtcp
    <3>1. PICK m : /\ rtcpNet' = Transmit(rtcpNet, m)
                   /\ m.pli = pli'
                   /\ m.stale = FALSE
                   /\ \E nacks \in SUBSET (Int \X Nat), acks \in SUBSET Int :
                        /\ m.feedback =
                             BuildFeedback(checkpoint', nacks, acks, RtcpRoom)
                        /\ \A n \in nacks : n[1] <= latestExpected'
                        /\ \A f \in acks : Received(f)'
      BY <2>5, <1>SentMessage, Zenon
    <3>2. PICK c : c = checkpoint'
      BY Zenon
    <3>3. PICK last : last = latestExpected'
      BY Zenon
    <3>4. MessageInv(m)' /\ Meaning(m)'.checkpoint = c
      BY <3>1, <3>2, <3>3, <1>NewMessage, Zenon
    <3>. DEFINE new == rtcpNet'
    <3>5. new = rtcpNet \/ \E k \in {0, 1} : Follows(rtcpNet, m, new, k)
      BY <2>1, <3>1, <1>TransmitOrder, Zenon
    <3>6. CASE new = rtcpNet
      BY <2>4, <3>6, Zenon
    <3>7. ASSUME NEW k \in {0, 1}, Follows(rtcpNet, m, new, k)
          PROVE  RtcpInv'
      <4>1. ASSUME NEW i \in DOMAIN rtcpNet'
            PROVE  \A n \in {rtcpNet'[i]} : ~n.stale => MessageInv(n)'
        <5>1. i < Len(new) \/ i = Len(new)
          BY <3>7 DEF Follows
        <5>. QED
          BY <2>2, <3>4, <3>7, <5>1, Zenon DEF Follows
      <4>2. ASSUME NEW i \in DOMAIN rtcpNet', NEW j \in DOMAIN rtcpNet',
                   NEW p \in {rtcpNet'[i]}, NEW n \in {rtcpNet'[j]},
                   i < j, ~p.stale
            PROVE  OrderInv(p, n)'
        <5>1. /\ i < Len(new) /\ i + k < j + k
              /\ j < Len(new) \/ j = Len(new)
          BY <3>7, <4>2 DEF Follows
        <5>2. /\ i + k \in DOMAIN rtcpNet /\ p = rtcpNet[i + k]
              /\ p \in RtcpMessage /\ MessageInv(p)
          BY <2>2, <3>7, <4>2, <5>1, Zenon DEF Follows
        <5>3. CASE j < Len(new)
          BY <2>3, <3>7, <4>2, <5>1, <5>2, <5>3, Zenon DEF Follows
        <5>4. CASE j = Len(new)
          <6>1. n = m
            BY <3>7, <5>4, Zenon DEF Follows
          <6>. QED
            BY <3>1, <3>2, <3>4, <5>2, <6>1, <1>NewOrder, Zenon
        <5>. QED
          BY <5>1, <5>3, <5>4, Zenon
      <4>. QED
        BY <4>1, <4>2, Zenon DEF RtcpInv
    <3>. QED
      BY <3>5, <3>6, <3>7, Zenon
  <2>. QED
    BY <2>4, <2>5, Zenon DEF ReceiverMoves

<1>. SUFFICES ASSUME SInv, IInv', UNCHANGED <<senderVars, stream, rtpNet>>, ReceiverMoves,
                     HighestInv', FramesGenuine', DelayInv'
              PROVE  SInv'
  OBVIOUS
<1>1. StreamInv' /\ RtpInv' /\ SenderInv' /\ KeyInv'
  BY SenderUntouched, Zenon DEF SInv
<1>2. RtcpInv'
  BY <1>ReceiverRtcp, Zenon
<1>3. checkpoint' \in Int /\ latestExpected' \in Int
  BY Zenon DEF IInv, TypeOK
<1>4. PointersAgree'
  <2>1. /\ senderCheckpoint <= checkpoint /\ checkpoint <= checkpoint'
        /\ senderLatestExpected <= latestExpected
        /\ latestExpected <= latestExpected' /\ latestExpected' <= lastEnqueued
    BY Pointers, Zenon DEF ReceiverMoves, SInv, NeverAhead, PointersAgree
  <2>2. senderCheckpoint <= checkpoint' /\ senderLatestExpected <= latestExpected'
    BY <1>3, <2>1, Pointers
  <2>. QED
    BY <2>1, <2>2, Zenon DEF PointersAgree, senderVars
<1>5. NeverAhead'
  BY <1>4, <1>CanceledKept, Zenon DEF NeverAhead
<1>6. KeyFrameOnlyIfPictureLost'
  <2>1. SUFFICES ASSUME NeedsKeyFrame, lastEnqueued >= first, ~pli'
                 PROVE  FALSE
    BY Zenon DEF KeyFrameOnlyIfPictureLost, NeedsKeyFrame, senderVars, first
  <2>2. pli
    BY <2>1, Zenon DEF SInv, KeyFrameOnlyIfPictureLost
  <2>3. PICK f \in (checkpoint + 1) .. lastEnqueued :
          stream[f + 1].dependency = kKeyFrame
    BY <2>1, <2>2, Zenon DEF ReceiverMoves
  <2>4. f \in first .. lastEnqueued /\ checkpoint < f /\ f \in Int
    BY Pointers DEF leader, first
  <2>5. f <= lastEnqueuedKey
    BY <2>3, <2>4, Zenon DEF SInv, KeyInv
  <2>6. lastEnqueuedKey <= pictureLostAt /\ pictureLostAt <= senderCheckpoint
    BY <2>1, Pointers DEF NeedsKeyFrame, SInv, SenderInv, SenderTypeOK
  <2>. QED
    BY <2>4, <2>5, <2>6, Pointers
<1>. QED
  BY <1>1, <1>2, <1>5, <1>6, Zenon DEF SInv

-----------------------------------------------------------------------------
(* Playout delays *)

\* Every frame of the stream is a frame.
LEMMA StreamType ==
  ASSUME StreamInv, NEW g \in first .. lastEnqueued
  PROVE  /\ stream[g + 1] \in Frame
         /\ stream[g + 1].packets \in Nat \ {0}
         /\ stream[g + 1].packets <= kMaxAllowedFramePacketId
         /\ stream[g + 1].dependency \in Dependencies
         /\ stream[g + 1].new_playout_delay \in Nat
<1>1. g + 1 \in 1 .. Len(stream) /\ stream \in Seq(Frame)
  BY DEF StreamInv, first
<1>2. stream[g + 1] \in Frame
  BY <1>1
<1>. QED
  BY <1>2, Zenon DEF Frame, StreamInv

\* The Sender's delays depend on the stream only.
LEMMA DelayKept ==
  ASSUME stream' = stream
  PROVE  /\ \A f : SenderDelay(f)' = SenderDelay(f)
         /\ \A g : DelayOf(g)' = DelayOf(g)
<1>1. \A g : DelayOf(g)' = DelayOf(g)
  BY Zenon DEF DelayOf
<1>2. \A f : SenderDelay(f)' = SenderDelay(f)
  BY SMT DEF SenderDelay, Max, first
<1>. QED
  BY <1>1, <1>2, Zenon

\* In particular for the frames up to the checkpoint.
LEMMA CheckpointDelays ==
  IInv /\ StreamInv /\ latestExpected <= lastEnqueued /\ Recorded
  => \A f \in lastConsumed .. checkpoint :
       ResolveDelay(delayChanges, f) = SenderDelay(f)

\* The changes on record resolve to the delay the Sender has in mind, for each
\* frame such that the frames up to it have been seen.
<1>RecordedResolve.
  ASSUME IInv, StreamInv, latestExpected <= lastEnqueued, Recorded,
         NEW f \in lastConsumed .. latestExpected,
         \A g \in first .. f : g <= lastConsumed \/ Entry(queue, g).capture = g
  PROVE  ResolveDelay(delayChanges, f) = SenderDelay(f)
  <2>. USE <1>RecordedResolve
  <2>. DEFINE changes == {g \in first .. f : stream[g + 1].new_playout_delay > 0}
              known == {c \in delayChanges : c[1] <= f}
              chosen == CHOOSE c \in known : \A d \in known : d[1] <= c[1]
              next == lastConsumed - kMaxUnackedFrames + 1
  <2>1. /\ lastConsumed \in Int /\ latestExpected \in Int /\ f \in Int
        /\ lastEnqueued \in Int
        /\ leader <= lastConsumed /\ leader = first - 1
        /\ f <= latestExpected /\ lastConsumed <= f
        /\ next \in Int /\ next <= f
        /\ delayChanges \subseteq Int \X Nat
        /\ \A c \in known : c[1] \in Int /\ c[1] <= f
        /\ \A c \in delayChanges : c[1] \in Int
    <3>1. /\ lastConsumed \in Int /\ latestExpected \in Int
          /\ delayChanges \subseteq Int \X Nat
      BY DEF IInv, TypeOK
    <3>2. leader <= lastConsumed /\ lastEnqueued \in Int
      BY DEF IInv, FrameOrder, StreamInv
    <3>3. leader = first - 1 /\ f \in Int /\ f <= latestExpected /\ lastConsumed <= f
      BY <3>1 DEF leader, first
    <3>4. next \in Int /\ next <= f
      BY <3>1, <3>3, QueueSizeAssumption
    <3>5. \A c \in delayChanges : c[1] \in Int
      BY ONLY <3>1
    <3>6. \A c \in known : c[1] \in Int /\ c[1] <= f
      BY <3>5, Zenon
    <3>. QED
      BY <3>1, <3>2, <3>3, <3>4, <3>5, <3>6, Zenon
  <2>2. \A g \in first .. f : /\ g \in first .. lastEnqueued
                              /\ g \in first .. latestExpected
                              /\ g \in Int /\ first <= g /\ leader < g
    BY <2>1 DEF first, leader
  <2>3. ASSUME NEW c \in known, c # <<leader, InitialDelay>>
        PROVE  c[1] \in changes /\ c = <<c[1], DelayOf(c[1])>>
    <3>1. /\ c[1] \in first .. latestExpected /\ c[2] = DelayOf(c[1]) /\ c[2] > 0
      BY <2>3, Zenon DEF Recorded
    <3>2. c[1] \in first .. f
      BY <2>1, <3>1 DEF first
    <3>3. c = <<c[1], c[2]>>
      BY <2>1
    <3>. QED
      BY <3>1, <3>2, <3>3, Zenon DEF DelayOf
  <2>4. ASSUME NEW x \in Int, leader <= x, Superseded(x)
        PROVE  \E d \in known : x < d[1] /\ d[1] \in changes
    <3>1. PICK d \in delayChanges : x < d[1] /\ d[1] <= next
      BY <2>4, Zenon DEF Superseded
    <3>2. d \in known /\ d[1] # leader
      BY <2>1, <2>4, <3>1 DEF leader
    <3>3. d # <<leader, InitialDelay>>
      BY <3>2
    <3>. QED
      BY <2>3, <3>1, <3>2, <3>3, Zenon
  <2>5. CASE changes = {}
    <3>1. <<leader, InitialDelay>> \in delayChanges
      <4>1. leader \in Int /\ leader <= leader
        BY DEF leader
      <4>. QED
        BY <2>4, <2>5, <4>1, Zenon DEF Recorded
    <3>2. known = {<<leader, InitialDelay>>}
      <4>1. <<leader, InitialDelay>> \in known
        BY <2>1, <3>1 DEF leader
      <4>. QED
        BY <2>3, <2>5, <4>1, Zenon
    <3>3. chosen = <<leader, InitialDelay>>
      <4>1. <<leader, InitialDelay>>[1] <= <<leader, InitialDelay>>[1]
        BY DEF leader
      <4>2. \E c \in known : \A d \in known : d[1] <= c[1]
        BY <3>2, <4>1, Zenon
      <4>3. chosen \in known
        BY <4>2, Zenon
      <4>. HIDE DEF chosen
      <4>. QED
        BY <3>2, <4>3, Zenon
    <3>4. SenderDelay(f) = InitialDelay
      BY <2>5, Zenon DEF SenderDelay
    <3>5. ResolveDelay(delayChanges, f) = chosen[2]
      BY Zenon DEF ResolveDelay
    <3>. HIDE DEF chosen
    <3>. QED
      BY <3>3, <3>4, <3>5
  <2>6. CASE changes # {}
    <3>. DEFINE m == Max(changes)
    <3>1. m \in changes /\ \A g \in changes : g <= m
      <4>1. changes \subseteq Int /\ \A g \in changes : g <= f
        BY <2>1, <2>2
      <4>. QED
        BY <2>1, <2>6, <4>1, Greatest, ZenonT(60) DEF Max
    <3>2. SenderDelay(f) = DelayOf(m)
      BY <2>6, Zenon DEF SenderDelay, DelayOf
    <3>. HIDE DEF m
    <3>3. <<m, DelayOf(m)>> \in delayChanges
      <4>1. ASSUME Superseded(m)
            PROVE  FALSE
        <5>1. m \in Int /\ leader <= m
          BY <2>2, <3>1 DEF leader, first
        <5>2. PICK d \in known : m < d[1] /\ d[1] \in changes
          BY <2>4, <4>1, <5>1, Zenon
        <5>3. d[1] <= m /\ d[1] \in Int
          BY <2>1, <3>1, <5>2, Zenon
        <5>. QED
          BY <5>1, <5>2, <5>3
      <4>2. DelayOf(m) > 0 /\ m \in first .. f
        BY <3>1, Zenon DEF DelayOf
      <4>. QED
        BY <2>2, <4>1, <4>2, Zenon DEF Recorded
    <3>. DEFINE top == <<m, DelayOf(m)>>
    <3>4. top \in known /\ top[1] = m /\ top[2] = DelayOf(m)
      BY <2>1, <3>1, <3>3
    <3>5. \A d \in known : d[1] <= m
      <4>1. leader <= m
        BY <2>2, <3>1 DEF leader, first
      <4>. QED
        BY <2>3, <3>1, <4>1
    <3>6. chosen \in known /\ \A d \in known : d[1] <= chosen[1]
      BY <3>4, <3>5, Zenon
    <3>. HIDE DEF chosen, top, known
    <3>7. chosen[1] = m
      BY <2>1, <3>4, <3>5, <3>6
    <3>8. chosen = top
      BY <3>4, <3>6, <3>7, Zenon DEF IInv, DelayResolvable, known
    <3>. QED
      BY <3>2, <3>4, <3>8, Zenon DEF ResolveDelay, chosen, known
  <2>. QED
    BY <2>5, <2>6, Zenon
<1>. SUFFICES ASSUME IInv, StreamInv, latestExpected <= lastEnqueued, Recorded,
                     NEW f \in lastConsumed .. checkpoint
              PROVE  ResolveDelay(delayChanges, f) = SenderDelay(f)
  BY Zenon
<1>1. /\ lastConsumed \in Int /\ latestExpected \in Int /\ checkpoint \in Int
      /\ checkpoint <= latestExpected /\ queue \in [Slots -> PendingFrame]
  BY Zenon DEF IInv, TypeOK, FrameOrder
<1>2. f \in lastConsumed .. latestExpected
  BY <1>1
<1>3. ASSUME NEW g \in first .. f, ~(g <= lastConsumed)
      PROVE  Entry(queue, g).capture = g
  <2>1. g \in (lastConsumed + 1) .. checkpoint /\ g \in Active /\ g \in Int
    BY <1>1, <1>3 DEF Active, first
  <2>2. IsComplete(Entry(queue, g)) /\ Entry(queue, g) \in PendingFrame
    BY <1>1, <2>1, SlotExists, Zenon DEF IInv, CheckpointExact, Entry
  <2>3. 0 \in Entry(queue, g).chunks
    BY <2>2 DEF IsComplete, PendingFrame
  <2>. QED
    BY <2>1, <2>3, Zenon DEF IInv, ReadyConsumable
<1>. QED
  BY <1>2, <1>3, <1>RecordedResolve, Zenon

LEMMA CheckpointDelay ==
  IInv /\ StreamInv /\ latestExpected <= lastEnqueued /\ Recorded
  => ResolveDelay(delayChanges, checkpoint) = SenderDelay(checkpoint)
<1>1. IInv => checkpoint \in lastConsumed .. checkpoint
  BY DEF IInv, TypeOK, FrameOrder
<1>. QED
  BY <1>1, CheckpointDelays, Zenon

\* Where AdvanceCheckpoint() gets to, its playout delay is the Sender's.
LEMMA CheckpointDelayNext ==
  ASSUME IInv', StreamInv', (latestExpected <= lastEnqueued)', Recorded',
         playoutDelay' = ResolveDelay(delayChanges', checkpoint')
  PROVE  DelayInv'
<1>1. (ResolveDelay(delayChanges, checkpoint) = SenderDelay(checkpoint))'
  BY CheckpointDelay, PTL
<1>. QED
  BY <1>1, Zenon DEF DelayInv, ResolveDelay

\* A step that leaves the frames alone.
LEMMA QuietKeeps ==
  ASSUME SInv, IInv', UNCHANGED <<senderVars, stream, rtpNet>>, HighestInv',
         UNCHANGED <<lastConsumed, checkpoint, latestExpected, queue,
                     delayChanges, playoutDelay>>,
         pli => pli', rtcpNet' = rtcpNet \/ SendRtcp
  PROVE  SInv'
<1>1. \A f : Received(f)' <=> Received(f)
  BY Zenon DEF Received, IsComplete, Entry, Slot
<1>2. ReceiverMoves
  <2>1. checkpoint <= checkpoint' /\ latestExpected <= latestExpected'
    BY Pointers
  <2>. QED
    BY <1>1, <2>1, Pointers, Zenon DEF ReceiverMoves
<1>3. FramesGenuine'
  BY Zenon DEF SInv, FramesGenuine, Active, Entry, Slot
<1>4. DelayInv'
  <2>1. \A x : Superseded(x)' <=> Superseded(x)
    BY Zenon DEF Superseded
  <2>2. \A g : Entry(queue, g)' = Entry(queue, g)
    BY Zenon DEF Entry, Slot
  <2>3. Recorded'
    BY <2>1, <2>2, DelayKept, Zenon DEF SInv, DelayInv, Recorded, first, leader
  <2>. QED
    BY <2>3, DelayKept, Zenon DEF SInv, DelayInv
<1>. QED
  BY <1>2, <1>3, <1>4, ReceiverKeeps, Zenon

\* A step that gives frames to the consumer, or gives them up.
LEMMA ReleaseKeeps ==
  /\ SInv
  /\ IInv'
  /\ UNCHANGED <<senderVars, stream, rtpNet>>
  /\ UNCHANGED <<latestExpected, delayChanges, highestRtp, pli>>
  /\ lastConsumed <= lastConsumed'
  /\ checkpoint <= checkpoint'
  /\ \A g \in Active' : g \in Active /\ Entry(queue', g) = Entry(queue, g)
  /\ \A g \in (lastConsumed + 1) .. lastConsumed' :
       Entry(queue, g).capture = g
  /\ \/ UNCHANGED <<checkpoint, playoutDelay, rtcpNet>>
     \/ /\ playoutDelay' = ResolveDelay(delayChanges', checkpoint')
        /\ SendRtcp
  => SInv'

\* Superseded changes stay superseded while the record is kept.
<1>SupersededKept.
  ASSUME NEW x, Superseded(x), delayChanges' = delayChanges,
         lastConsumed \in Int, lastConsumed' \in Int,
         lastConsumed <= lastConsumed',
         \A d \in delayChanges : d[1] \in Int
  PROVE  Superseded(x)'
  <2>. USE <1>SupersededKept
  <2>1. PICK d \in delayChanges :
          x < d[1] /\ d[1] <= lastConsumed - kMaxUnackedFrames + 1
    BY Zenon DEF Superseded
  <2>2. PICK n \in Int : n = lastConsumed'
    BY Zenon
  <2>3. lastConsumed <= n /\ d[1] \in Int
    BY <2>2, Zenon
  <2>4. d[1] <= n - kMaxUnackedFrames + 1
    BY ONLY <2>1, <2>3, lastConsumed \in Int, n \in Int, QueueSizeAssumption
  <2>. QED
    BY <2>1, <2>2, <2>4, Zenon DEF Superseded

\* The frames the queue may hold.
<1>ActiveFrames.
  IInv => \A g \in Int : g <= latestExpected => g <= lastConsumed \/ g \in Active
  <2>. SUFFICES ASSUME IInv, NEW g \in Int, g <= latestExpected
                PROVE  g <= lastConsumed \/ g \in Active
    BY Zenon
  <2>1. lastConsumed \in Int /\ latestExpected \in Int
    BY Zenon DEF IInv, TypeOK
  <2>. QED
    BY <2>1 DEF Active

<1>. SUFFICES ASSUME SInv, IInv', UNCHANGED <<senderVars, stream, rtpNet>>,
                     UNCHANGED <<latestExpected, delayChanges, highestRtp, pli>>,
                     lastConsumed <= lastConsumed', checkpoint <= checkpoint',
                     \A g \in Active' : g \in Active /\ Entry(queue', g) = Entry(queue, g),
                     \A g \in (lastConsumed + 1) .. lastConsumed' :
                       Entry(queue, g).capture = g,
                     \/ UNCHANGED <<checkpoint, playoutDelay, rtcpNet>>
                     \/ /\ playoutDelay' = ResolveDelay(delayChanges', checkpoint')
                        /\ SendRtcp
              PROVE  SInv'
  OBVIOUS
<1>0. /\ lastConsumed \in Int /\ lastConsumed' \in Int /\ checkpoint \in Int
      /\ checkpoint' \in Int /\ latestExpected \in Int
      /\ lastConsumed' <= checkpoint'
      /\ delayChanges \in SUBSET (Int \X Nat)
  BY Pointers, Zenon DEF IInv, TypeOK, FrameOrder, SInv
<1>a. (\A g \in Int : g <= latestExpected => g <= lastConsumed \/ g \in Active)'
  BY <1>ActiveFrames, PTL
<1>1. ASSUME NEW g \in Int, g <= latestExpected, ~(g <= lastConsumed')
      PROVE  g \in Active'
  BY <1>a, <1>1, Zenon
<1>2. ASSUME NEW f \in Int, Received(f)
      PROVE  Received(f)'
  <2>1. CASE f <= checkpoint
    BY <1>0, <2>1, ReceivedNext
  <2>2. CASE f <= latestExpected /\ IsComplete(Entry(queue, f))
    <3>1. CASE f <= lastConsumed'
      BY <1>0, <3>1, ReceivedNext
    <3>2. CASE ~(f <= lastConsumed')
      BY <1>1, <2>2, <3>2, ReceivedNext, ZenonT(60)
    <3>. QED
      BY <3>1, <3>2, Zenon
  <2>. QED
    BY <1>2, <2>1, <2>2, Zenon DEF Received
<1>3. ReceiverMoves
  BY <1>2, Pointers DEF ReceiverMoves
<1>4. FramesGenuine'
  BY Zenon DEF SInv, FramesGenuine, Entry, Slot
<1>5. HighestInv'
  BY Zenon DEF SInv, HighestInv, senderVars, first
<1>6. Recorded'
  <2>1. \A x : Superseded(x) => Superseded(x)'
    BY <1>0, <1>SupersededKept, Zenon
  <2>2. ASSUME NEW g \in first .. latestExpected, DelayOf(g) > 0,
               g <= lastConsumed' \/ Entry(queue', g).capture = g
        PROVE  <<g, DelayOf(g)>> \in delayChanges \/ Superseded(g)
    <3>0. g \in Int /\ g <= latestExpected
      BY <1>0 DEF first
    <3>1. g <= lastConsumed \/ Entry(queue, g).capture = g
      <4>1. CASE g \in (lastConsumed + 1) .. lastConsumed'
        BY <4>1, Zenon
      <4>2. CASE ~(g <= lastConsumed')
        BY <1>1, <2>2, <3>0, <4>2, Zenon
      <4>. QED
        BY <1>0, <3>0, <4>1, <4>2
    <3>. QED
      BY <2>2, <3>1, Zenon DEF SInv, DelayInv, Recorded
  <2>3. \A g : Entry(queue, g)' = Entry(queue', g)
    BY Zenon DEF Entry, Slot
  <2>. QED
    BY <2>1, <2>2, <2>3, DelayKept, Zenon DEF SInv, DelayInv, Recorded, first, leader
<1>7. DelayInv'
  <2>1. CASE UNCHANGED <<checkpoint, playoutDelay>>
    BY <1>6, <2>1, DelayKept, Zenon DEF SInv, DelayInv
  <2>2. CASE playoutDelay' = ResolveDelay(delayChanges', checkpoint')
    <3>1. StreamInv' /\ (latestExpected <= lastEnqueued)'
      BY Pointers, SenderUntouched, Zenon DEF SInv, senderVars
    <3>. QED
      BY <1>6, <2>2, <3>1, CheckpointDelayNext, Zenon
  <2>. QED
    BY <2>1, <2>2, Zenon
<1>. QED
  BY <1>3, <1>4, <1>5, <1>7, ReceiverKeeps, Zenon

-----------------------------------------------------------------------------
(* The steps of the Sender *)

\* A step of the Sender leaves the Receiver alone.
ReceiverRests ==
  /\ UNCHANGED <<lastConsumed, checkpoint, latestExpected, lastKeyReceived, queue,
                 delayChanges, senderReport, highestRtp, pli, playoutDelay,
                 consumer, consumptionAlarm, rtcpAlarm, ready>>
  /\ rtcpNet' \in Seq(RtcpMessage) /\ Len(rtcpNet') <= RtcpInTransit

LEMMA RestFacts ==
  ASSUME SInv, ReceiverRests
  PROVE  /\ IInv' /\ Active' = Active
         /\ \A f : Received(f)' <=> Received(f)
         /\ \A f : Entry(queue, f)' = Entry(queue, f)
         /\ \A x : Superseded(x)' <=> Superseded(x)
<1>1. IInv /\ TypeOK
  BY Zenon DEF SInv, IInv
<1>2. TypeOK'
  BY <1>1, Zenon DEF TypeOK, ReceiverRests, Slots, PendingFrame
<1>3. ready' => lastConsumed < checkpoint
  BY <1>1, Zenon DEF IInv, ReadyConsumable, ReceiverRests
<1>4. IInv'
  <2>1. FrameOrder' /\ QueueOwnership'
    BY <1>1, Zenon DEF ReceiverRests, IInv, FrameOrder, QueueOwnership, Active, Entry
  <2>2. CheckpointExact' /\ PlayoutReportable'
    BY <1>1, Zenon DEF ReceiverRests, IInv, CheckpointExact, PlayoutReportable, Entry, IsComplete
  <2>3. ReadyConsumable' /\ DelayResolvable'
    BY <1>1, <1>3, Zenon DEF ReceiverRests, IInv, ReadyConsumable, DelayResolvable, Active, Entry
  <2>. QED
    BY <1>2, <2>1, <2>2, <2>3, Zenon DEF IInv
<1>5. /\ Active' = Active
      /\ \A f : Received(f)' <=> Received(f)
      /\ \A f : Entry(queue, f)' = Entry(queue, f)
      /\ \A x : Superseded(x)' <=> Superseded(x)
  BY Zenon DEF ReceiverRests, Active, Received, Entry, IsComplete, Slot, Superseded
<1>. QED
  BY <1>4, <1>5, Zenon

\* A step of the Sender that does not enqueue a frame.
LEMMA StreamRests ==
  ASSUME SInv, ReceiverRests, UNCHANGED <<stream, lastEnqueued, lastEnqueuedKey>>
  PROVE  IInv' /\ StreamInv' /\ HighestInv' /\ FramesGenuine' /\ DelayInv' /\ KeyInv'
<1>1. StreamInv' /\ KeyInv'
  BY Zenon DEF SInv, StreamInv, KeyInv, first, leader
<1>2. HighestInv'
  BY Zenon DEF SInv, HighestInv, ReceiverRests, first
<1>3. FramesGenuine'
  BY RestFacts, Zenon DEF SInv, FramesGenuine
<1>4. Recorded'
  BY RestFacts, DelayKept, Zenon
     DEF SInv, DelayInv, Recorded, ReceiverRests, first, leader
<1>5. DelayInv'
  BY <1>4, DelayKept, Zenon DEF SInv, DelayInv, ReceiverRests
<1>. QED
  BY <1>1, <1>2, <1>3, <1>5, RestFacts, Zenon

\* A step of the Sender that keeps the frames in flight and their packets what they
\* are, but for what of them was sent.
LEMMA FlightKept ==
  ASSUME SInv, UNCHANGED receiverVars,
         UNCHANGED <<stream, senderCheckpoint, lastEnqueued, senderLatestExpected,
                     lastEnqueuedKey, pictureLostAt, framesInFlight>>,
         RtpInv', pendingFrames' \in [Slots -> PendingSlot],
         \A s \in Slots : /\ pendingFrames'[s].id = pendingFrames[s].id
                          /\ SlotInv(s)',
         nextRtpSend' \in {kSuspended, kImmediately, kKickstart}, NoLostSend'
  PROVE  SInv'
<1>1. ReceiverRests
  BY Zenon DEF SInv, IInv, TypeOK, ReceiverRests, receiverVars
<1>2. \A f \in Int : IsActive(pendingFrames, f)' <=> IsActive(pendingFrames, f)
  BY SlotExists, Zenon DEF IsActive, Slot, Slots
<1>3. InFlight' = InFlight
  <2>1. senderCheckpoint \in Int /\ lastEnqueued \in Int
    BY Pointers, Zenon
  <2>2. \A f \in (senderCheckpoint + 1) .. lastEnqueued : f \in Int
    BY <2>1
  <2>. QED
    BY <1>2, <2>2, Zenon DEF InFlight
<1>4. SenderInv'
  <2>1. SenderTypeOK'
    BY Zenon DEF SInv, SenderInv, SenderTypeOK, leader
  <2>2. senderCheckpoint < lastEnqueued
          => IsActive(pendingFrames, senderCheckpoint + 1)'
    <3>1. senderCheckpoint + 1 \in Int
      BY Pointers, Successor, Zenon
    <3>. QED
      BY <1>2, <3>1, Zenon DEF SInv, SenderInv
  <2>3. \A f \in (senderCheckpoint + 1) .. lastEnqueued :
          IsActive(pendingFrames, f)' \/ f <= senderLatestExpected
    <3>1. \A f \in (senderCheckpoint + 1) .. lastEnqueued : f \in Int
      BY Pointers
    <3>. QED
      BY <1>2, <3>1, ZenonT(60) DEF SInv, SenderInv
  <2>. QED
    BY <1>3, <2>1, <2>2, <2>3, Zenon
       DEF SInv, SenderInv, Slots, PendingSlot, IsActive, Slot
<1>5. NeverAhead'
  BY <1>1, <1>3, RestFacts, Zenon
     DEF SInv, NeverAhead, PointersAgree, CanceledOnlyIfReceived, ReceiverRests, first
<1>6. ASSUME NEW m \in RtcpMessage, MessageInv(m)
      PROVE  MessageInv(m)'
  <2>1. PICK c : c = Meaning(m).checkpoint
    BY Zenon
  <2>2. Meaning(m)' = Meaning(m)
    BY MeaningKept, Zenon
  <2>3. c + 1 \in Int
    BY <2>1, Pointers, MeaningType, Successor, Zenon
  <2>4. IsActive(pendingFrames', c + 1) <=> IsActive(pendingFrames, c + 1)
    BY <1>2, <2>3, ActiveNext, Zenon
  <2>5. /\ m.feedback.checkpoint = LowerBits(c)
        /\ senderCheckpoint <= c /\ c <= checkpoint
        /\ c < lastEnqueued => IsActive(pendingFrames', c + 1)
        /\ \A f \in Meaning(m).acks : c + 2 <= f /\ Received(f)'
        /\ \A n \in Meaning(m).nacks : n[1] <= latestExpected
        /\ m.pli /\ lastEnqueuedKey <= c => pli
    BY <1>1, <1>6, <2>1, <2>4, RestFacts, Zenon DEF MessageInv
  <2>6. UNCHANGED <<checkpoint, latestExpected, pli>>
    BY <1>1, Zenon DEF ReceiverRests
  <2>. QED
    BY <2>1, <2>2, <2>5, <2>6, Zenon DEF MessageInv, LowerBits, IsActive, Slot
<1>7. RtcpInv'
  <2>1. \A i \in DOMAIN rtcpNet : rtcpNet[i] \in RtcpMessage
    BY DEF SInv, IInv, TypeOK
  <2>2. rtcpNet' = rtcpNet
    BY Zenon DEF receiverVars
  <2>3. \A i \in DOMAIN rtcpNet :
          \A m \in {rtcpNet[i]} : ~m.stale => MessageInv(m)'
    BY <1>6, <2>1, Zenon DEF SInv, RtcpInv
  <2>4. \A i, j \in DOMAIN rtcpNet :
          \A m \in {rtcpNet[i]}, n \in {rtcpNet[j]} :
            i < j /\ ~m.stale => OrderInv(m, n)'
    BY MeaningKept, Zenon DEF SInv, RtcpInv, OrderInv
  <2>. QED
    BY <2>2, <2>3, <2>4, Zenon DEF RtcpInv
<1>8. KeyFrameOnlyIfPictureLost'
  BY Zenon DEF SInv, KeyFrameOnlyIfPictureLost, NeedsKeyFrame, receiverVars, first
<1>. QED
  BY <1>1, <1>4, <1>5, <1>7, <1>8, StreamRests, Zenon DEF SInv

\* GetRtpResumeTime() lets the router forget nothing.
LEMMA ResumeInTime ==
  ASSUME UNCHANGED <<senderCheckpoint, lastEnqueued, senderLatestExpected>>,
         nextRtpSend' = ResumeTime(pendingFrames')
  PROVE  /\ nextRtpSend' \in {kSuspended, kImmediately, kKickstart}
         /\ NoLostSend'
<1>1. FramesToSend(pendingFrames)' = FramesToSend(pendingFrames')
  BY Zenon DEF FramesToSend, IsActive, Slot
<1>2. NeedsKickstart' <=> NeedsKickstart
  BY Zenon DEF NeedsKickstart
<1>3. kImmediately # kSuspended /\ kKickstart # kSuspended
  BY DEF kImmediately, kSuspended, kKickstart
<1>. QED
  BY <1>1, <1>2, <1>3, Zenon DEF NoLostSend, ResumeTime

LEMMA SuspendKeeps ==
  ASSUME SInv, Suspend
  PROVE  SInv'
<1>1. /\ UNCHANGED <<stream, rtpNet, senderCheckpoint, lastEnqueued,
                     senderLatestExpected, lastEnqueuedKey, pictureLostAt,
                     pendingFrames, framesInFlight>>
      /\ UNCHANGED receiverVars
      /\ nextRtpSend' = ResumeTime(pendingFrames)
  BY Zenon DEF Suspend, SuspendRtp
<1>2. RtpInv'
  BY <1>1, Zenon DEF SInv, RtpInv, PacketIds, first
<1>3. \A s \in Slots : SlotInv(s)'
  BY <1>1, Zenon DEF SInv, SenderInv, SlotInv, Slot, PacketIds
<1>4. pendingFrames' \in [Slots -> PendingSlot]
  BY <1>1, Zenon DEF SInv, SenderInv
<1>5. /\ nextRtpSend' \in {kSuspended, kImmediately, kKickstart}
      /\ NoLostSend'
  BY <1>1, ResumeInTime, Zenon
<1>. QED
  BY <1>1, <1>2, <1>3, <1>4, <1>5, FlightKept, Zenon

LEMMA SendRtpKeeps ==
  /\ SInv
  /\ SendRtp
  => SInv'

\* A slot of the Sender's queue belongs to one frame of its window.
<1>SlotOfFrame.
  ASSUME SInv, NEW s \in Slots, pendingFrames[s].id # null,
         NEW f \in (senderCheckpoint + 1) .. lastEnqueued, Slot(f) = s
  PROVE  pendingFrames[s].id = f
  <2>. USE <1>SlotOfFrame
  <2>. DEFINE g == pendingFrames[s].id
  <2>1. g \in (senderCheckpoint + 1) .. lastEnqueued /\ Slot(g) = s
    BY Zenon DEF SInv, SenderInv, SlotInv
  <2>. HIDE DEF g
  <2>2. /\ senderCheckpoint \in Int /\ lastEnqueued \in Int
        /\ lastEnqueued <= senderCheckpoint + kMaxUnackedFrames
        /\ kMaxUnackedFrames \in Nat
    BY Pointers, Sizes, Zenon
  <2>3. /\ f \in Int /\ g \in Int
        /\ f - g < kMaxUnackedFrames /\ g - f < kMaxUnackedFrames
    BY ONLY <2>1, <2>2, f \in (senderCheckpoint + 1) .. lastEnqueued
  <2>. QED
    BY <2>1, <2>3, SlotsDiffer, Zenon DEF g

<1>. SUFFICES ASSUME SInv, SendRtp
              PROVE  SInv'
  OBVIOUS
<1>1. PICK f \in (senderCheckpoint + 1) .. lastEnqueued :
        \E p \in PacketIds(stream[f + 1]) :
          /\ SendFlaggedPacket(f, p) \/ SendKickstartPacket(f, p)
          /\ rtpNet' = rtpNet \cup {<<f, p>>}
  BY Zenon DEF SendRtp
<1>2. PICK p \in PacketIds(stream[f + 1]) :
        /\ SendFlaggedPacket(f, p) \/ SendKickstartPacket(f, p)
        /\ rtpNet' = rtpNet \cup {<<f, p>>}
  BY <1>1, Zenon
<1>. DEFINE slot == pendingFrames[Slot(f)]
            new == [slot EXCEPT !.send_flags = @ \ {p}, !.sent = @ \cup {p}]
<1>3. /\ UNCHANGED <<senderCheckpoint, lastEnqueued, senderLatestExpected,
                     lastEnqueuedKey, pictureLostAt, framesInFlight, stream>>
      /\ UNCHANGED receiverVars
      /\ SendPacket(f, p)
  BY <1>2, Zenon DEF SendRtp, SendFlaggedPacket, SendKickstartPacket
<1>4. /\ f \in Int /\ senderCheckpoint \in Int /\ lastEnqueued \in Int
      /\ f \in first .. lastEnqueued
      /\ f + kMaxUnackedFrames > lastEnqueued
  <2>1. /\ senderCheckpoint \in Int /\ lastEnqueued \in Int
        /\ leader <= senderCheckpoint
        /\ lastEnqueued <= senderCheckpoint + kMaxUnackedFrames
        /\ kMaxUnackedFrames \in Nat
    BY Pointers, Sizes, Zenon
  <2>. QED
    BY <2>1 DEF leader, first
<1>5. p \in Nat
  <2>1. stream[f + 1].packets \in Nat
    BY <1>4, StreamType, ZenonT(60) DEF SInv
  <2>. QED
    BY <2>1 DEF PacketIds
<1>6. pendingFrames \in [Slots -> PendingSlot] /\ Slot(f) \in Slots
      /\ slot \in PendingSlot
  BY <1>4, SlotExists, Zenon DEF SInv, SenderInv
<1>7. /\ pendingFrames' = [pendingFrames EXCEPT ![Slot(f)] = new]
      /\ nextRtpSend' = ResumeTime(pendingFrames')
  <2>1. /\ pendingFrames' =
             [pendingFrames EXCEPT ![Slot(f)].send_flags = @ \ {p},
                                   ![Slot(f)].sent = @ \cup {p}]
        /\ nextRtpSend' = ResumeTime(pendingFrames')
    BY <1>3, Zenon DEF SendPacket
  <2>. QED
    BY <1>6, <2>1, ZenonT(60)
<1>8. /\ new \in PendingSlot /\ new.id = slot.id /\ new.frame = slot.frame
      /\ new.send_flags = slot.send_flags \ {p} /\ new.sent = slot.sent \cup {p}
  BY <1>5, <1>6, ZenonT(60) DEF PendingSlot
<1>. HIDE DEF new
<1>9. pendingFrames' \in [Slots -> PendingSlot]
  BY <1>6, <1>7, <1>8, Zenon
<1>10. ASSUME NEW s \in Slots
       PROVE  pendingFrames'[s].id = pendingFrames[s].id /\ SlotInv(s)'
  <2>1. CASE s # Slot(f)
    <3>1. pendingFrames'[s] = pendingFrames[s]
      BY <1>6, <1>7, <2>1, Zenon
    <3>. QED
      BY <1>3, <3>1, Zenon DEF SInv, SenderInv, SlotInv, Slot, PacketIds
  <2>2. CASE s = Slot(f)
    <3>1. pendingFrames'[s] = new /\ pendingFrames[s] = slot
      BY <1>6, <1>7, <2>2, Zenon
    <3>2. CASE slot.id = null
      BY <1>8, <3>1, <3>2, Zenon DEF SlotInv
    <3>3. CASE slot.id # null
      <4>1. slot.id = f
        BY <2>2, <3>1, <3>3, <1>SlotOfFrame, Zenon
      <4>2. /\ Slot(f) = s /\ slot.frame = stream[f + 1]
            /\ slot.send_flags \cup slot.sent = PacketIds(stream[f + 1])
        BY <3>1, <3>3, <4>1, Zenon DEF SInv, SenderInv, SlotInv
      <4>3. new.send_flags \cup new.sent = PacketIds(stream[f + 1])
        BY <1>8, <4>2, Zenon
      <4>. QED
        BY <1>3, <1>8, <3>1, <4>1, <4>2, <4>3, Zenon DEF SlotInv, Slot, PacketIds
    <3>. QED
      BY <3>2, <3>3, Zenon
  <2>. QED
    BY <2>1, <2>2, Zenon
<1>11. RtpInv'
  <2>1. \A n \in rtpNet' :
          /\ n[1] \in first .. lastEnqueued
          /\ \/ n[1] + PacketLifetime > lastEnqueued
             \/ n[1] + kMaxUnackedFrames > lastEnqueued
          /\ n[2] \in PacketIds(stream[n[1] + 1])
    <3>1. ASSUME NEW n, n = <<f, p>>
          PROVE  /\ n[1] \in first .. lastEnqueued
                 /\ n[1] + kMaxUnackedFrames > lastEnqueued
                 /\ n[2] \in PacketIds(stream[n[1] + 1])
      <4>1. n[1] = f /\ n[2] = p
        BY <3>1
      <4>. QED
        BY <1>4, <4>1, Zenon
    <3>. QED
      BY <1>2, <3>1, Zenon DEF SInv, RtpInv
  <2>. QED
    BY <1>3, <2>1, Zenon DEF RtpInv, PacketIds, first
<1>12. /\ nextRtpSend' \in {kSuspended, kImmediately, kKickstart}
       /\ NoLostSend'
  BY <1>3, <1>7, ResumeInTime, Zenon
<1>. QED
  BY <1>3, <1>9, <1>10, <1>11, <1>12, FlightKept, Zenon

-----------------------------------------------------------------------------
(* Feedback *)

\* The frames that feedback tells the Sender to give up.
Settled(read) == {f \in InFlight : f <= read.checkpoint \/ f \in read.acks}

\* Sets with the same elements are equal, elements of the frames in flight or not.
LEMMA SetEquality ==
  ASSUME NEW S, NEW T, \A x : x \in S <=> x \in T
  PROVE  S = T
OBVIOUS

\* The members of a union of ranges and of another set.
LEMMA RangesUnion ==
  ASSUME NEW C, NEW B, NEW k
  PROVE  \A f : f \in (UNION {k .. x : x \in C}) \cup B
                  <=> (\E x \in C : f \in k .. x) \/ f \in B
BY Zenon

\* The frames that an RTCP packet cancels.
LEMMA CanceledMembers ==
  ASSUME NEW feedback
  PROVE  \A f : f \in CanceledBy(feedback) <=>
                  /\ \/ \E x \in CheckpointsFrom(feedback.checkpoint) :
                          f \in (senderCheckpoint + 1) .. x
                     \/ f \in AcksFrom(feedback.acks)
                  /\ IsActive(pendingFrames, f)
<1>1. \A f : f \in CanceledBy(feedback) <=>
                /\ f \in (UNION {(senderCheckpoint + 1) .. x :
                                  x \in CheckpointsFrom(feedback.checkpoint)})
                         \cup AcksFrom(feedback.acks)
                /\ IsActive(pendingFrames, f)
  BY DEF CanceledBy
<1>2. \A f : f \in (UNION {(senderCheckpoint + 1) .. x :
                             x \in CheckpointsFrom(feedback.checkpoint)})
                    \cup AcksFrom(feedback.acks)
              <=> \/ \E x \in CheckpointsFrom(feedback.checkpoint) :
                       f \in (senderCheckpoint + 1) .. x
                  \/ f \in AcksFrom(feedback.acks)
  BY RangesUnion
<1>. QED
  BY ONLY <1>1, <1>2

\* What the Sender makes of an RTCP packet that is not stale.
LEMMA FeedbackFacts ==
  ASSUME SInv, NEW m \in RtcpMessage, MessageInv(m), NEW read, read = Meaning(m)
  PROVE  /\ read.checkpoint \in Int /\ read.acks \subseteq Int
         /\ senderCheckpoint <= read.checkpoint /\ read.checkpoint <= checkpoint
         /\ read.checkpoint <= lastEnqueued
         /\ \A f \in read.acks : read.checkpoint + 2 <= f /\ f <= latestExpected
         /\ CheckpointsFrom(read.checkpoint) = {read.checkpoint}
         /\ AcksFrom(read.acks) = read.acks
         /\ CheckpointAdvancedBy(read) = read.checkpoint
         /\ CanceledBy(read) = Settled(read)
<1>1. /\ read.checkpoint \in Int /\ read.acks \subseteq Int
      /\ senderCheckpoint <= read.checkpoint /\ read.checkpoint <= checkpoint
      /\ \A f \in read.acks : read.checkpoint + 2 <= f /\ Received(f)
  BY Pointers, MeaningType, Zenon DEF MessageInv
<1>. DEFINE c == read.checkpoint
            acks == read.acks
<1>. HIDE DEF c, acks
<1>2. /\ c \in Int /\ acks \subseteq Int /\ senderCheckpoint <= c /\ c <= checkpoint
      /\ \A f \in acks : c + 2 <= f /\ Received(f)
  BY <1>1, Zenon DEF c, acks
<1>3. /\ checkpoint \in Int /\ latestExpected \in Int /\ lastEnqueued \in Int
      /\ checkpoint <= latestExpected /\ latestExpected <= lastEnqueued
      /\ senderCheckpoint \in Int
  BY Pointers, Zenon
<1>4. c <= lastEnqueued /\ ~(c > lastEnqueued)
  BY <1>2, <1>3
<1>5. \A f \in acks : f \in Int /\ f <= latestExpected /\ ~(f > lastEnqueued)
  BY <1>2, <1>3 DEF Received
<1>6. CheckpointsFrom(c) = {c}
  BY <1>4, Zenon DEF CheckpointsFrom
<1>7. AcksFrom(acks) = acks
  BY <1>5, Zenon DEF AcksFrom
<1>8. Max({senderCheckpoint} \cup {c}) = c
  <2>1. \A x \in {senderCheckpoint} \cup {c} :
          (\A y \in {senderCheckpoint} \cup {c} : x >= y) <=> x = c
    BY <1>2, <1>3
  <2>. QED
    BY <2>1, Zenon DEF Max
<1>9. ASSUME NEW f \in acks
      PROVE  f \in (senderCheckpoint + 1) .. lastEnqueued
  BY <1>2, <1>3, <1>5
<1>10. \A f : f \in CanceledBy(read) <=> /\ f \in (senderCheckpoint + 1) .. c \/ f \in acks
                                         /\ IsActive(pendingFrames, f)
  <2>1. \A f : f \in CanceledBy(read) <=>
                 /\ \/ \E x \in CheckpointsFrom(c) : f \in (senderCheckpoint + 1) .. x
                    \/ f \in AcksFrom(acks)
                 /\ IsActive(pendingFrames, f)
    BY CanceledMembers, Zenon DEF c, acks
  <2>. QED
    BY <1>6, <1>7, <2>1, Zenon
<1>11. CanceledBy(read) = Settled(read)
  <2>1. \A f \in (senderCheckpoint + 1) .. c :
          f \in (senderCheckpoint + 1) .. lastEnqueued /\ f <= c
    BY <1>2, <1>3, <1>4
  <2>2. \A f \in (senderCheckpoint + 1) .. lastEnqueued :
          f <= c => f \in (senderCheckpoint + 1) .. c
    BY <1>2, <1>3
  <2>3. \A f : f \in Settled(read) <=> /\ f \in (senderCheckpoint + 1) .. lastEnqueued
                                       /\ IsActive(pendingFrames, f)
                                       /\ f <= c \/ f \in acks
    BY Zenon DEF Settled, InFlight, c, acks
  <2>4. \A f : f \in CanceledBy(read) <=> f \in Settled(read)
    BY <1>9, <1>10, <2>1, <2>2, <2>3, ZenonT(60)
  <2>. QED
    BY ONLY <2>4, SetEquality, Zenon
<1>12. CheckpointAdvancedBy(read) = c
  BY <1>6, <1>8, ZenonT(60) DEF CheckpointAdvancedBy, c
<1>. QED
  BY <1>1, <1>4, <1>5, <1>6, <1>7, <1>11, <1>12, ZenonT(60) DEF c, acks

\* A slot after the feedback: it was freed, or it keeps its frame, of which packets
\* that were sent may have to be sent again.
SlotAfter(slot, new, canceled, resend) ==
  /\ new \in PendingSlot
  /\ slot.id \in canceled => new.id = null
  /\ slot.id \notin canceled =>
       /\ new.id = slot.id /\ new.frame = slot.frame /\ new.sent = slot.sent
       /\ \E X : /\ new.send_flags = slot.send_flags \cup X
                 /\ slot.id # null => X \subseteq slot.sent
                 /\ resend = {} => X = {}

\* The frames in flight are counted.
LEMMA FlightFinite ==
  ASSUME SInv
  PROVE  IsFiniteSet(InFlight) /\ Cardinality(InFlight) \in Nat
<1>1. IsFiniteSet((senderCheckpoint + 1) .. lastEnqueued)
  <2>1. senderCheckpoint + 1 \in Int /\ lastEnqueued \in Int
    BY Pointers, Successor, Zenon
  <2>. QED
    BY <2>1, FS_Interval, Zenon
<1>2. InFlight \in SUBSET ((senderCheckpoint + 1) .. lastEnqueued)
  BY Zenon DEF InFlight
<1>3. IsFiniteSet(InFlight)
  BY <1>1, <1>2, FS_Subset, Zenon
<1>. QED
  BY <1>3, FS_CardinalityType, Zenon

\* The Sender after it has taken feedback into account.
FeedbackTaken(read, canceled, resend) ==
  /\ canceled = Settled(read)
  /\ senderCheckpoint' = read.checkpoint
  /\ senderLatestExpected' \in Int /\ senderLatestExpected <= senderLatestExpected'
  /\ senderLatestExpected' <= latestExpected
  /\ read.checkpoint <= senderLatestExpected'
  /\ \A f \in read.acks : f <= senderLatestExpected'
  /\ DOMAIN pendingFrames' = Slots
  /\ pendingFrames' \in [Slots -> PendingSlot]
  /\ \A s \in Slots : SlotAfter(pendingFrames[s], pendingFrames'[s], canceled, resend)
  /\ framesInFlight' = framesInFlight - Cardinality(canceled)
  /\ nextRtpSend' = IF resend # {} THEN kImmediately ELSE nextRtpSend
  /\ UNCHANGED <<lastEnqueued, lastEnqueuedKey, stream, rtpNet>>

\* The frames that stay in flight.
LEMMA FlightAfter ==
  ASSUME SInv, NEW m \in RtcpMessage, MessageInv(m), NEW read, read = Meaning(m),
         NEW canceled, NEW resend, FeedbackTaken(read, canceled, resend)
  PROVE  /\ \A g \in Int : IsActive(pendingFrames', g)
                             <=> IsActive(pendingFrames, g) /\ g \notin canceled
         /\ InFlight' = InFlight \ canceled
         /\ \A g \in InFlight \ canceled :
              g \in (read.checkpoint + 1) .. lastEnqueued
         /\ \A g \in (read.checkpoint + 1) .. lastEnqueued :
              g \in (senderCheckpoint + 1) .. lastEnqueued /\ ~(g <= read.checkpoint)
<1>. DEFINE c == read.checkpoint
<1>1. /\ canceled = {f \in InFlight : f <= c \/ f \in read.acks}
      /\ senderCheckpoint' = c /\ lastEnqueued' = lastEnqueued
  BY Zenon DEF FeedbackTaken, Settled
<1>2. /\ c \in Int /\ senderCheckpoint <= c /\ c <= lastEnqueued
      /\ senderCheckpoint \in Int /\ lastEnqueued \in Int
  BY Pointers, FeedbackFacts, Zenon
<1>3. ASSUME NEW g \in Int
      PROVE  IsActive(pendingFrames', g)
               <=> IsActive(pendingFrames, g) /\ g \notin canceled
  <2>1. PICK s \in Slots : s = Slot(g)
    BY SlotExists, Zenon
  <2>2. SlotAfter(pendingFrames[s], pendingFrames'[s], canceled, resend)
    BY Zenon DEF FeedbackTaken
  <2>3. g # null
    BY NullAssumption, Zenon
  <2>. QED
    BY <2>1, <2>2, <2>3, Zenon DEF IsActive, SlotAfter
<1>. HIDE DEF c
<1>4. \A g \in (c + 1) .. lastEnqueued :
        g \in (senderCheckpoint + 1) .. lastEnqueued /\ ~(g <= c) /\ g \in Int
  BY <1>2
<1>5. \A g \in (senderCheckpoint + 1) .. lastEnqueued :
        g \in Int /\ (g <= c \/ g \in (c + 1) .. lastEnqueued)
  BY <1>2
<1>6. \A g \in InFlight \ canceled : g \in (c + 1) .. lastEnqueued
  BY <1>1, <1>5, ZenonT(60) DEF InFlight
<1>7. InFlight' = {g \in (c + 1) .. lastEnqueued : IsActive(pendingFrames', g)}
  BY <1>1, Zenon DEF InFlight, IsActive, Slot
<1>8. InFlight' = InFlight \ canceled
  <2>1. \A g \in InFlight' : g \in InFlight \ canceled
    BY <1>3, <1>4, <1>7, ZenonT(60) DEF InFlight
  <2>2. \A g \in InFlight \ canceled : g \in InFlight'
    BY <1>3, <1>5, <1>6, <1>7, ZenonT(60) DEF InFlight
  <2>. QED
    BY <2>1, <2>2, ZenonT(60)
<1>. QED
  BY <1>3, <1>4, <1>6, <1>8, Zenon DEF c

LEMMA SenderAfter ==
  \A m \in RtcpMessage : \A read, canceled, resend :
    /\ SInv
    /\ MessageInv(m)
    /\ read = Meaning(m)
    /\ FeedbackTaken(read, canceled, resend)
    /\ pictureLostAt' \in leader .. read.checkpoint
    => SenderInv'

\* A part of a finite set is counted off.
<1>CountOff.
  ASSUME NEW S, IsFiniteSet(S), NEW T \in SUBSET S
  PROVE  /\ Cardinality(S \ T) = Cardinality(S) - Cardinality(T)
         /\ Cardinality(S \ T) \in Nat
  <2>. USE <1>CountOff
  <2>1. /\ IsFiniteSet(S \ T)
        /\ Cardinality(S \ T) = Cardinality(S) - Cardinality(S \cap T)
    BY FS_Difference, Zenon
  <2>2. S \cap T = T
    BY Zenon
  <2>3. Cardinality(S \ T) \in Nat
    BY <2>1, FS_CardinalityType, ZenonT(60)
  <2>. QED
    BY <2>1, <2>2, <2>3, ZenonT(60)

<1>. SUFFICES ASSUME SInv, NEW m \in RtcpMessage, MessageInv(m), NEW read, read = Meaning(m),
                     NEW canceled, NEW resend, FeedbackTaken(read, canceled, resend),
                     pictureLostAt' \in leader .. read.checkpoint
              PROVE  SenderInv'
  OBVIOUS
<1>. DEFINE c == read.checkpoint
<1>0. /\ canceled = {f \in InFlight : f <= c \/ f \in read.acks}
      /\ senderCheckpoint' = c /\ lastEnqueued' = lastEnqueued
      /\ lastEnqueuedKey' = lastEnqueuedKey /\ stream' = stream
      /\ c <= senderLatestExpected' /\ senderLatestExpected' \in Int
      /\ senderLatestExpected <= senderLatestExpected'
      /\ senderLatestExpected' <= latestExpected
  BY Zenon DEF FeedbackTaken, Settled
<1>1. /\ c \in Int /\ senderCheckpoint <= c /\ c <= lastEnqueued
      /\ senderCheckpoint \in Int /\ lastEnqueued \in Int /\ leader \in Int
      /\ leader <= senderCheckpoint /\ senderLatestExpected \in Int
      /\ latestExpected \in Int /\ latestExpected <= lastEnqueued
      /\ lastEnqueued <= senderCheckpoint + kMaxUnackedFrames
      /\ kMaxUnackedFrames \in Nat
  BY Pointers, Sizes, FeedbackFacts, Zenon
<1>2. c < lastEnqueued => IsActive(pendingFrames', c + 1)
  <2>1. SUFFICES ASSUME c < lastEnqueued
                 PROVE  IsActive(pendingFrames', c + 1)
    BY Zenon
  <2>2. IsActive(pendingFrames, c + 1)
    BY <2>1, Zenon DEF MessageInv
  <2>3. c + 1 \in Int /\ ~(c + 1 <= c)
    BY <1>1, Successor, ZenonT(60)
  <2>4. c + 1 \notin read.acks
    <3>1. \A f \in read.acks : f \in Int /\ c + 2 <= f
      BY FeedbackFacts, Zenon
    <3>. HIDE DEF c
    <3>2. \A f \in Int : c + 2 <= f => f # c + 1
      BY <1>1
    <3>. QED
      BY <3>1, <3>2, Zenon
  <2>5. c + 1 \notin canceled
    BY <1>0, <2>3, <2>4, ZenonT(60)
  <2>6. \A g \in Int : IsActive(pendingFrames, g) /\ g \notin canceled
                       => IsActive(pendingFrames', g)
    BY FlightAfter, Zenon
  <2>. QED
    BY <2>2, <2>3, <2>5, <2>6, ZenonT(60)
<1>. DEFINE expected == senderLatestExpected'
<1>3. \A f \in (c + 1) .. lastEnqueued :
        IsActive(pendingFrames', f) \/ f <= expected
  <2>1. SUFFICES ASSUME NEW f \in (c + 1) .. lastEnqueued
                 PROVE  IsActive(pendingFrames', f) \/ f <= expected
    BY Zenon
  <2>2. /\ f \in (senderCheckpoint + 1) .. lastEnqueued /\ ~(f <= c)
    BY FlightAfter, Zenon
  <2>3. f \in Int
    BY <1>1, <2>2
  <2>4. IsActive(pendingFrames, f) \/ f <= senderLatestExpected
    BY <2>2, Zenon DEF SInv, SenderInv
  <2>5. CASE f <= senderLatestExpected
    <3>. HIDE DEF c
    <3>1. f <= expected
      BY ONLY <1>0, <1>1, <2>3, <2>5
    <3>. QED
      BY <3>1, Zenon
  <2>6. CASE IsActive(pendingFrames, f) /\ f \notin canceled
    BY <2>3, <2>6, FlightAfter, Zenon
  <2>7. CASE f \in canceled
    BY <1>0, <2>2, <2>7, ZenonT(60) DEF FeedbackTaken
  <2>. QED
    BY <2>4, <2>5, <2>6, <2>7, Zenon
<1>4. framesInFlight' = Cardinality(InFlight \ canceled)
      /\ framesInFlight' \in Nat
  <2>1. canceled \in SUBSET InFlight
    BY <1>0, Zenon
  <2>2. framesInFlight = Cardinality(InFlight)
        /\ framesInFlight' = framesInFlight - Cardinality(canceled)
    BY Zenon DEF SInv, SenderInv, FeedbackTaken
  <2>. QED
    BY <2>1, <2>2, FlightFinite, <1>CountOff, Zenon
<1>5. ASSUME NEW s \in Slots
      PROVE  SlotInv(s)'
  <2>. DEFINE old == pendingFrames[s]
              new == pendingFrames'[s]
  <2>1. SUFFICES ASSUME new.id # null
                 PROVE  /\ new.id \in (c + 1) .. lastEnqueued
                        /\ Slot(new.id) = s
                        /\ new.frame = stream[new.id + 1]
                        /\ new.send_flags \cup new.sent = PacketIds(new.frame)
    BY <1>0, Zenon DEF SlotInv, Slot, PacketIds
  <2>2. SlotAfter(old, new, canceled, resend)
    BY Zenon DEF FeedbackTaken
  <2>3. old.id \notin canceled /\ new.id = old.id
    BY <2>1, <2>2, Zenon DEF SlotAfter
  <2>4. /\ old.id \in (senderCheckpoint + 1) .. lastEnqueued
        /\ Slot(old.id) = s
        /\ old.frame = stream[old.id + 1]
        /\ old.send_flags \cup old.sent = PacketIds(old.frame)
    BY <2>1, <2>3, Zenon DEF SInv, SenderInv, SlotInv
  <2>5. old.id \in InFlight
    BY <2>4, Zenon DEF InFlight, IsActive
  <2>6. new.id \in (c + 1) .. lastEnqueued
    BY <2>3, <2>5, FlightAfter, Zenon
  <2>7. /\ new.frame = old.frame /\ new.sent = old.sent
        /\ \E X : new.send_flags = old.send_flags \cup X /\ X \subseteq old.sent
    BY <2>1, <2>2, <2>3, ZenonT(60) DEF SlotAfter
  <2>8. new.send_flags \cup new.sent = old.send_flags \cup old.sent
    BY <2>7, Zenon
  <2>. QED
    BY <2>3, <2>4, <2>6, <2>7, <2>8, Zenon
<1>6. kImmediately # kSuspended
      /\ kImmediately \in {kSuspended, kImmediately, kKickstart}
  BY DEF kImmediately, kSuspended, kKickstart
<1>7. nextRtpSend' = IF resend # {} THEN kImmediately ELSE nextRtpSend
  BY Zenon DEF FeedbackTaken
<1>8. NoLostSend'
  <2>1. resend = {} => FramesToSend(pendingFrames)' \subseteq FramesToSend(pendingFrames)
    <3>1. SUFFICES ASSUME resend = {}, NEW f \in FramesToSend(pendingFrames)'
                   PROVE  f \in FramesToSend(pendingFrames)
      BY Zenon
    <3>2. /\ f \in (c + 1) .. lastEnqueued /\ IsActive(pendingFrames', f)
          /\ pendingFrames'[Slot(f)].send_flags # {}
      BY <1>0, Zenon DEF FramesToSend, IsActive, Slot
    <3>3. f \in (senderCheckpoint + 1) .. lastEnqueued
      BY <3>2, FlightAfter, ZenonT(60)
    <3>4. f \in Int
      BY <1>1, <3>3
    <3>5. IsActive(pendingFrames, f) /\ f \notin canceled /\ Slot(f) \in Slots
      BY <3>2, <3>4, SlotExists, FlightAfter, Zenon
    <3>6. SlotAfter(pendingFrames[Slot(f)], pendingFrames'[Slot(f)], canceled, resend)
      BY <3>5, Zenon DEF FeedbackTaken
    <3>7. pendingFrames'[Slot(f)].send_flags = pendingFrames[Slot(f)].send_flags
      BY <3>1, <3>5, <3>6, ZenonT(60) DEF SlotAfter, IsActive
    <3>. QED
      BY <3>2, <3>3, <3>5, <3>7, Zenon DEF FramesToSend
  <2>2. NeedsKickstart' => NeedsKickstart
    <3>1. expected < lastEnqueued => senderLatestExpected < lastEnqueued
      BY <1>0, <1>1
    <3>. QED
      BY <1>0, <3>1, ZenonT(60) DEF NeedsKickstart
  <2>3. NoLostSend
    BY Zenon DEF SInv, SenderInv
  <2>. QED
    BY <1>6, <1>7, <2>1, <2>2, <2>3, Zenon DEF NoLostSend
<1>9. SenderTypeOK'
  <2>1. /\ leader <= c /\ lastEnqueued <= c + kMaxUnackedFrames
        /\ expected \in leader .. lastEnqueued
    BY <1>0, <1>1
  <2>2. /\ lastEnqueuedKey \in leader .. lastEnqueued
        /\ nextRtpSend' \in {kSuspended, kImmediately, kKickstart}
    BY <1>6, <1>7, Zenon DEF SInv, SenderInv, SenderTypeOK
  <2>3. DOMAIN pendingFrames' = Slots
    BY Zenon DEF FeedbackTaken
  <2>. QED
    BY <1>0, <1>1, <1>4, <2>1, <2>2, <2>3, Zenon DEF SenderTypeOK, leader, Slots
<1>10. pendingFrames' \in [Slots -> PendingSlot]
  BY Zenon DEF FeedbackTaken
<1>. HIDE DEF c, expected
<1>11. /\ senderCheckpoint' = c
       /\ senderLatestExpected' = expected /\ c <= expected
  BY <1>0, Zenon DEF expected, c
<1>12. (senderCheckpoint < lastEnqueued
          => IsActive(pendingFrames, senderCheckpoint + 1))'
  BY <1>0, <1>2, <1>11, Zenon DEF IsActive, Slot
<1>13. (\A f \in (senderCheckpoint + 1) .. lastEnqueued :
          IsActive(pendingFrames, f) \/ f <= senderLatestExpected)'
  BY <1>0, <1>3, <1>11, Zenon DEF IsActive, Slot
<1>14. (framesInFlight = Cardinality(InFlight))'
  BY <1>4, FlightAfter, Zenon
<1>. QED
  BY <1>1, <1>5, <1>8, <1>9, <1>10, <1>11, <1>12, <1>13, <1>14, Zenon
     DEF SenderInv, Slots, PendingSlot

\* A comparison is true or false.
LEMMA LessIsBoolean ==
  ASSUME NEW a, NEW b
  PROVE  (a < b) \in BOOLEAN
OBVIOUS

\* Marking an RTCP packet stale.
LEMMA StaleMessage ==
  ASSUME NEW m \in RtcpMessage, NEW b \in BOOLEAN
  PROVE  /\ [m EXCEPT !.stale = m.stale \/ b] \in RtcpMessage
         /\ [m EXCEPT !.stale = m.stale \/ b].stale = (m.stale \/ b)
         /\ ~(m.stale \/ b) => [m EXCEPT !.stale = m.stale \/ b] = m
BY DEF RtcpMessage

\* What is left of the RTCP packets when the i-th one has been handled.
LEMMA RtcpAfter ==
  ASSUME SInv, NEW i \in DOMAIN rtcpNet, ReceiverRests,
         NEW m \in RtcpMessage, m = rtcpNet[i], ~m.stale, MessageInv(m),
         NEW read, read = Meaning(m),
         NEW canceled, NEW resend, FeedbackTaken(read, canceled, resend),
         rtcpNet' = [j \in DOMAIN rtcpNet |->
                       [rtcpNet[j] EXCEPT !.stale = @ \/ j < i]]
  PROVE  RtcpInv'
<1>. DEFINE c == read.checkpoint
<1>0. /\ canceled = {f \in InFlight : f <= c \/ f \in read.acks}
      /\ senderCheckpoint' = c /\ lastEnqueued' = lastEnqueued
      /\ lastEnqueuedKey' = lastEnqueuedKey
  BY Zenon DEF FeedbackTaken, Settled
<1>1. /\ DOMAIN rtcpNet' = DOMAIN rtcpNet
      /\ \A j \in DOMAIN rtcpNet :
           j \in Int /\ i \in Int /\ rtcpNet[j] \in RtcpMessage
  <2>1. rtcpNet \in Seq(RtcpMessage)
    BY Zenon DEF SInv, IInv, TypeOK
  <2>. QED
    BY <2>1
<1>2. ASSUME NEW j \in DOMAIN rtcpNet, ~rtcpNet'[j].stale
      PROVE  rtcpNet'[j] = rtcpNet[j] /\ ~rtcpNet[j].stale /\ i <= j
  <2>1. PICK n \in RtcpMessage : n = rtcpNet[j]
    BY <1>1, Zenon
  <2>2. rtcpNet'[j] = [n EXCEPT !.stale = n.stale \/ j < i]
    BY <2>1, Zenon
  <2>. PICK b \in BOOLEAN : b = (j < i)
    BY LessIsBoolean, Zenon
  <2>a. /\ [n EXCEPT !.stale = n.stale \/ b].stale = (n.stale \/ b)
        /\ ~(n.stale \/ b) => [n EXCEPT !.stale = n.stale \/ b] = n
    BY StaleMessage, ZenonT(60)
  <2>3. ~(n.stale \/ j < i) /\ rtcpNet'[j] = n
    BY <1>2, <2>2, <2>a, Zenon
  <2>4. i <= j
    BY <1>1, <2>3
  <2>. QED
    BY <2>1, <2>3, <2>4, ZenonT(60)
<1>3. ASSUME NEW j \in DOMAIN rtcpNet, ~rtcpNet[j].stale, i <= j,
             NEW n, n = rtcpNet[j]
      PROVE  MessageInv(n)'
  <2>1. MessageInv(n) /\ n \in RtcpMessage
    BY <1>1, <1>3, Zenon DEF SInv, RtcpInv
  <2>. DEFINE told == Meaning(n)
              d == told.checkpoint
  <2>2. Meaning(n)' = told
    BY <1>0, MeaningKept, ZenonT(60)
  <2>3. /\ d \in Int /\ c \in Int /\ lastEnqueued \in Int
        /\ \A f \in read.acks : f \in Int /\ c + 2 <= f
    BY <2>1, Pointers, MeaningType, FeedbackFacts, Zenon
  <2>4. c <= d /\ d + 1 \notin read.acks
    <3>1. CASE i = j
      <4>1. d = c
        BY <1>3, <3>1, ZenonT(60)
      <4>. HIDE DEF c, d
      <4>2. (\A f \in Int : c + 2 <= f => f # c + 1) /\ c <= c
        BY ONLY <2>3
      <4>. QED
        BY <2>3, <4>1, <4>2, Zenon
    <3>2. CASE i # j
      <4>1. i < j
        <5>1. i \in Int /\ j \in Int /\ i <= j
          BY <1>1, <1>3, Zenon
        <5>. QED
          BY ONLY <3>2, <5>1
      <4>. QED
        BY <1>3, <4>1, Zenon DEF SInv, RtcpInv, OrderInv
    <3>. QED
      BY <3>1, <3>2, Zenon
  <2>5. d < lastEnqueued => IsActive(pendingFrames', d + 1)
    <3>1. d + 1 \in Int /\ ~(d + 1 <= c)
      BY <2>3, <2>4
    <3>2. d + 1 \notin canceled
      BY <1>0, <2>4, <3>1, Zenon
    <3>3. d < lastEnqueued => IsActive(pendingFrames, d + 1)
      BY <2>1, Zenon DEF MessageInv
    <3>4. \A g \in Int : IsActive(pendingFrames, g) /\ g \notin canceled
                         => IsActive(pendingFrames', g)
      BY FlightAfter, Zenon
    <3>. QED
      BY <3>1, <3>2, <3>3, <3>4, Zenon
  <2>6. /\ n.feedback.checkpoint = LowerBits(d)
        /\ d <= checkpoint
        /\ \A f \in told.acks : d + 2 <= f /\ Received(f)
        /\ \A x \in told.nacks : x[1] <= latestExpected
        /\ n.pli /\ lastEnqueuedKey <= d => pli
    BY <2>1, Zenon DEF MessageInv
  <2>7. checkpoint' = checkpoint /\ latestExpected' = latestExpected /\ pli' = pli
    BY Zenon DEF ReceiverRests
  <2>. HIDE DEF told, d
  <2>8. Meaning(n)'.checkpoint = d /\ Meaning(n)'.acks = told.acks
        /\ Meaning(n)'.nacks = told.nacks
    BY <2>2, Zenon DEF d
  <2>. QED
    BY <1>0, <2>4, <2>5, <2>6, <2>7, <2>8, RestFacts, Zenon
       DEF MessageInv, LowerBits, IsActive, Slot
<1>4. \A j \in DOMAIN rtcpNet' :
        \A n \in {rtcpNet'[j]} : ~n.stale => MessageInv(n)'
  BY <1>1, <1>2, <1>3, ZenonT(60)
<1>5. ASSUME NEW j \in DOMAIN rtcpNet, NEW k \in DOMAIN rtcpNet, j < k,
             NEW x, x = rtcpNet'[j], NEW y, y = rtcpNet'[k], ~x.stale
      PROVE  OrderInv(x, y)'
  <2>1. rtcpNet'[j] = rtcpNet[j] /\ ~rtcpNet[j].stale /\ i <= j
    BY <1>2, <1>5, Zenon
  <2>2. OrderInv(rtcpNet[j], rtcpNet[k])
    BY <1>5, <2>1, Zenon DEF SInv, RtcpInv
  <2>3. PICK n \in RtcpMessage : n = rtcpNet[k]
    BY <1>1, Zenon
  <2>4. rtcpNet'[k] = [n EXCEPT !.stale = n.stale \/ k < i]
    BY <2>3, Zenon
  <2>5. ~n.stale
    BY <2>2, <2>3, Zenon DEF OrderInv
  <2>6. ~(k < i)
    BY <1>1, <1>5, <2>1, SMTT(60)
  <2>7. rtcpNet'[k] = n
    BY <2>4, <2>5, <2>6, StaleMessage, ZenonT(60)
  <2>8. x = rtcpNet[j] /\ y = rtcpNet[k]
    BY <1>5, <2>1, <2>3, <2>7, Zenon
  <2>9. OrderInv(x, y)
    BY <2>2, <2>8, Zenon
  <2>10. Meaning(x)' = Meaning(x) /\ Meaning(y)' = Meaning(y)
    BY <1>0, MeaningKept, ZenonT(60)
  <2>. QED
    BY <2>9, <2>10, Zenon DEF OrderInv
<1>6. \A j, k \in DOMAIN rtcpNet :
        \A x \in {rtcpNet'[j]}, y \in {rtcpNet'[k]} :
          j < k /\ ~x.stale => OrderInv(x, y)'
  BY <1>5, Zenon
<1>. QED
  BY ONLY <1>1, <1>4, <1>6, Zenon DEF RtcpInv

LEMMA DeliverRtcpKeeps ==
  \A i \in DOMAIN rtcpNet : \A resend \in SUBSET MissingBy(ReceivedFeedback(i)) :
    /\ SInv
    /\ DeliverRtcp(i, resend)
    => SInv'

\* What the Sender learns of the frames the Receiver knows of is true, and covers
\* the frames it gives up.
<1>KnownFacts.
  ASSUME SInv, NEW m \in RtcpMessage, MessageInv(m), NEW read, read = Meaning(m),
         NEW known, known = Max({senderLatestExpected, KnownBy(read)})
  PROVE  /\ known \in Int /\ senderLatestExpected <= known
         /\ known <= latestExpected /\ read.checkpoint <= known
         /\ \A f \in read.acks : f <= known
  <2>. USE <1>KnownFacts
  <2>. DEFINE active == InFlight \ CanceledBy(read)
              nacked == {f \in active : \E n \in read.nacks : n[1] = f}
              S == {leader} \cup {read.checkpoint} \cup read.acks \cup nacked
  <2>1. KnownBy(read) = Max(S)
    BY FeedbackFacts, Zenon DEF KnownBy
  <2>2. /\ leader \in Int /\ leader <= senderCheckpoint /\ senderCheckpoint \in Int
        /\ senderCheckpoint <= checkpoint /\ checkpoint \in Int
        /\ latestExpected \in Int /\ checkpoint <= latestExpected
        /\ senderLatestExpected \in Int
    BY Pointers, Zenon
  <2>3. /\ read.checkpoint \in Int /\ read.acks \subseteq Int
        /\ read.checkpoint <= checkpoint
        /\ \A f \in read.acks : f <= latestExpected
    BY FeedbackFacts, Zenon
  <2>4. \A f \in nacked : f \in Int /\ f <= latestExpected
    BY Pointers, MeaningType, ZenonT(60) DEF MessageInv
  <2>5. S \subseteq Int /\ S # {} /\ read.checkpoint \in S /\ read.acks \subseteq S
    BY <2>2, <2>3, <2>4, Zenon
  <2>6. \A f \in S : f <= latestExpected
    <3>1. leader <= latestExpected /\ read.checkpoint <= latestExpected
      BY <2>2, <2>3
    <3>. QED
      BY <2>3, <2>4, <3>1, Zenon
  <2>. HIDE DEF S
  <2>. DEFINE top == Max(S)
  <2>7. top \in S /\ \A f \in S : f <= top
    <3>1. PICK x \in S : \A y \in S : y <= x
      BY <2>2, <2>5, <2>6, Greatest, Zenon
    <3>2. \A y \in S : x >= y
      BY <2>5, <3>1
    <3>3. top \in S /\ \A y \in S : top >= y
      BY <3>2, Zenon DEF Max
    <3>. HIDE DEF top
    <3>. QED
      BY <2>5, <3>3
  <2>8. known = Max({senderLatestExpected, top})
    BY <2>1, Zenon
  <2>. HIDE DEF top
  <2>9. known = IF senderLatestExpected >= top THEN senderLatestExpected ELSE top
    <3>1. top \in Int
      BY <2>5, <2>7, ZenonT(60)
    <3>2. \A x \in {senderLatestExpected, top} :
            (\A y \in {senderLatestExpected, top} : x >= y)
              <=> x = IF senderLatestExpected >= top THEN senderLatestExpected ELSE top
      BY <2>2, <3>1
    <3>3. (IF senderLatestExpected >= top THEN senderLatestExpected ELSE top)
            \in {senderLatestExpected, top}
      BY Zenon
    <3>. QED
      BY <2>8, <3>2, <3>3, Zenon DEF Max
  <2>10. senderLatestExpected <= latestExpected
    BY Zenon DEF SInv, NeverAhead, PointersAgree
  <2>11. /\ top \in Int /\ top <= latestExpected /\ read.checkpoint <= top
         /\ \A f \in read.acks : f <= top /\ f \in Int
    BY <2>3, <2>5, <2>6, <2>7, ZenonT(60)
  <2>12. /\ known \in Int /\ senderLatestExpected <= known /\ top <= known
         /\ known <= latestExpected
    BY <2>2, <2>9, <2>10, <2>11
  <2>13. read.checkpoint <= known
    BY <2>3, <2>11, <2>12, SMTT(60)
  <2>14. \A f \in read.acks : f <= known
    BY <2>11, <2>12
  <2>. QED
    BY <2>12, <2>13, <2>14, ZenonT(60)
<1>FeedbackSlots.
  ASSUME SInv, NEW read, NEW resend \in SUBSET MissingBy(read),
         NEW canceled, canceled = CanceledBy(read), canceled \subseteq InFlight,
         NEW s \in Slots,
         NEW new, new = [CancelFrames(canceled)[s] EXCEPT !.send_flags =
                           @ \cup {n[2] : n \in {r \in resend :
                                                   r[1] = pendingFrames[s].id}}]
  PROVE  SlotAfter(pendingFrames[s], new, canceled, resend)
  <2>. USE <1>FeedbackSlots
  <2>. DEFINE slot == pendingFrames[s]
              X == {n[2] : n \in {r \in resend : r[1] = slot.id}}
              base == IF slot.id \in canceled THEN IdleSlot ELSE slot
  <2>1. slot \in PendingSlot
    BY Zenon DEF SInv, SenderInv
  <2>2. ASSUME NEW r \in resend
        PROVE  /\ r[1] \in InFlight \ canceled
               /\ r[2] \in pendingFrames[Slot(r[1])].sent
    <3>1. PICK f \in InFlight \ canceled :
            r \in {f} \X {p \in pendingFrames[Slot(f)].sent :
                    {p, kAllPacketsLost} \cap {n[2] : n \in {q \in read.nacks : q[1] = f}} # {}}
      BY Zenon DEF MissingBy
    <3>2. r[1] = f /\ r[2] \in pendingFrames[Slot(f)].sent
      BY <3>1, Zenon
    <3>. QED
      BY <3>2, Zenon
  <2>3. X \subseteq slot.sent
    <3>1. SUFFICES ASSUME NEW r \in resend, r[1] = slot.id
                   PROVE  r[2] \in slot.sent
      BY Zenon
    <3>2. r[1] \in InFlight
      BY <2>2, Zenon
    <3>3. slot.id # null
      <4>1. \A f \in InFlight : f \in Int
        BY Pointers DEF InFlight
      <4>. QED
        BY <3>1, <3>2, <4>1, NullAssumption, Zenon
    <3>4. Slot(slot.id) = s
      BY <3>3, Zenon DEF SInv, SenderInv, SlotInv
    <3>. QED
      BY <2>2, <3>1, <3>4, ZenonT(60)
  <2>4. X \subseteq Nat
    BY <2>1, <2>3, ZenonT(60) DEF PendingSlot
  <2>5. resend = {} => X = {}
    BY Zenon
  <2>6. IdleSlot \in PendingSlot /\ IdleSlot.id = null
    BY Zenon DEF IdleSlot, PendingSlot
  <2>7. base \in PendingSlot
    BY <2>1, <2>6, ZenonT(60)
  <2>8. new = [base EXCEPT !.send_flags = @ \cup X]
    BY Zenon DEF CancelFrames
  <2>. HIDE DEF base, X
  <2>9. /\ new \in PendingSlot /\ new.id = base.id /\ new.frame = base.frame
        /\ new.sent = base.sent /\ new.send_flags = base.send_flags \cup X
    BY <2>4, <2>7, <2>8, SMTT(60) DEF PendingSlot
  <2>. QED
    BY <2>3, <2>5, <2>6, <2>9, Zenon DEF SlotAfter, base
<1>FeedbackIsTaken.
  ASSUME SInv, NEW m \in RtcpMessage, MessageInv(m), NEW read, read = Meaning(m),
         NEW resend \in SUBSET MissingBy(read), OnFeedback(read, m.pli, resend),
         UNCHANGED <<stream, rtpNet>>, NEW canceled, canceled = CanceledBy(read)
  PROVE  FeedbackTaken(read, canceled, resend)
  <2>. USE <1>FeedbackIsTaken
  <2>1. canceled = Settled(read) /\ CheckpointAdvancedBy(read) = read.checkpoint
    BY FeedbackFacts, Zenon
  <2>2. /\ senderCheckpoint' = read.checkpoint
        /\ framesInFlight' = framesInFlight - Cardinality(canceled)
        /\ nextRtpSend' = IF resend # {} THEN kImmediately ELSE nextRtpSend
        /\ UNCHANGED <<lastEnqueued, lastEnqueuedKey>>
    BY <2>1, Zenon DEF OnFeedback
  <2>3. PICK known : known = Max({senderLatestExpected, KnownBy(read)})
    BY Zenon
  <2>4. /\ senderLatestExpected' = known
        /\ known \in Int /\ senderLatestExpected <= known
        /\ known <= latestExpected /\ read.checkpoint <= known
        /\ \A f \in read.acks : f <= known
    BY <2>3, <1>KnownFacts, ZenonT(60) DEF OnFeedback
  <2>. DEFINE After(s) == [CancelFrames(canceled)[s] EXCEPT !.send_flags =
                             @ \cup {n[2] : n \in {r \in resend :
                                                     r[1] = pendingFrames[s].id}}]
  <2>5. pendingFrames' = [s \in Slots |-> After(s)]
    BY Zenon DEF OnFeedback
  <2>6. canceled \subseteq InFlight
    BY <2>1, Zenon DEF Settled
  <2>7. ASSUME NEW s \in Slots
        PROVE  SlotAfter(pendingFrames[s], After(s), canceled, resend)
    <3>1. PICK new : new = After(s)
      BY Zenon
    <3>2. SlotAfter(pendingFrames[s], new, canceled, resend)
      BY <2>6, <3>1, <1>FeedbackSlots, ZenonT(60)
    <3>. QED
      BY <3>1, <3>2, Zenon
  <2>. HIDE DEF After
  <2>8. \A s \in Slots :
          /\ pendingFrames'[s] = After(s)
          /\ SlotAfter(pendingFrames[s], pendingFrames'[s], canceled, resend)
          /\ After(s) \in PendingSlot
    BY <2>5, <2>7, Zenon DEF SlotAfter
  <2>9. DOMAIN pendingFrames' = Slots /\ pendingFrames' \in [Slots -> PendingSlot]
    BY <2>5, <2>8, Zenon
  <2>. QED
    BY <2>1, <2>2, <2>4, <2>8, <2>9, Zenon DEF FeedbackTaken

<1>. SUFFICES ASSUME SInv, NEW i \in DOMAIN rtcpNet,
                     NEW resend \in SUBSET MissingBy(ReceivedFeedback(i)), DeliverRtcp(i, resend)
              PROVE  SInv'
  OBVIOUS
<1>1. PICK m \in RtcpMessage : m = rtcpNet[i]
  BY DEF SInv, IInv, TypeOK
<1>2. PICK read : read = Meaning(m)
  BY Zenon
<1>3. read = ReceivedFeedback(i)
  BY <1>1, <1>2, Zenon DEF ReceivedFeedback, Meaning
<1>4. /\ ~m.stale
      /\ rtcpNet' = [j \in DOMAIN rtcpNet |->
                       [rtcpNet[j] EXCEPT !.stale = @ \/ j < i]]
      /\ OnFeedback(read, m.pli, resend)
      /\ UNCHANGED <<stream, rtpNet, lastConsumed, checkpoint, latestExpected,
                     lastKeyReceived, queue, delayChanges, senderReport,
                     highestRtp, pli, playoutDelay, consumer, consumptionAlarm,
                     rtcpAlarm, ready>>
  BY <1>1, <1>3, ZenonT(60) DEF DeliverRtcp, OnReceivedRtcpPacket
<1>5. MessageInv(m)
  BY <1>1, <1>4, ZenonT(60) DEF SInv, RtcpInv
<1>6. PICK canceled : canceled = CanceledBy(read)
  BY Zenon
<1>7. FeedbackTaken(read, canceled, resend)
  <2>1. resend \in SUBSET MissingBy(read)
    BY <1>3, Zenon
  <2>. QED
    BY <1>2, <1>4, <1>5, <1>6, <2>1, <1>FeedbackIsTaken, Zenon
<1>8. rtcpNet' \in Seq(RtcpMessage) /\ Len(rtcpNet') <= RtcpInTransit
  <2>1. rtcpNet \in Seq(RtcpMessage) /\ Len(rtcpNet) <= RtcpInTransit
    BY Zenon DEF SInv, IInv, TypeOK
  <2>2. \A j \in DOMAIN rtcpNet : rtcpNet[j] \in RtcpMessage
    BY <2>1
  <2>3. \A j : (j < i) \in BOOLEAN
    BY LessIsBoolean, Zenon
  <2>4. ASSUME NEW j \in DOMAIN rtcpNet
        PROVE  rtcpNet'[j] \in RtcpMessage
    <3>1. PICK n \in RtcpMessage, b \in BOOLEAN : n = rtcpNet[j] /\ b = (j < i)
      BY <2>2, <2>3, ZenonT(60)
    <3>2. rtcpNet'[j] = [n EXCEPT !.stale = n.stale \/ b]
      BY <1>4, <3>1, ZenonT(60)
    <3>. QED
      BY <3>2, StaleMessage, ZenonT(60)
  <2>5. DOMAIN rtcpNet' = DOMAIN rtcpNet
    BY <1>4, Zenon
  <2>6. PICK l \in Nat : l = Len(rtcpNet)
    BY <2>1
  <2>7. DOMAIN rtcpNet = 1 .. l
    BY <2>1, <2>6
  <2>8. rtcpNet' \in [1 .. l -> RtcpMessage]
    BY <1>4, <2>4, <2>5, <2>7, Zenon
  <2>9. rtcpNet' \in Seq(RtcpMessage) /\ Len(rtcpNet') = l
    BY ONLY <2>8, l \in Nat
  <2>. QED
    BY <2>1, <2>6, <2>9, Zenon
<1>9. ReceiverRests
  BY <1>4, <1>8, Zenon DEF ReceiverRests
<1>10. UNCHANGED <<lastEnqueued, lastEnqueuedKey, stream, rtpNet>>
  BY <1>7, Zenon DEF FeedbackTaken
<1>. DEFINE c == read.checkpoint
<1>11. /\ c \in Int /\ leader \in Int /\ leader <= senderCheckpoint
       /\ senderCheckpoint <= c /\ senderCheckpoint \in Int
       /\ lastEnqueuedKey \in Int /\ c <= checkpoint
  BY <1>2, <1>5, Pointers, FeedbackFacts, Zenon
<1>12. \/ pictureLostAt' = pictureLostAt
       \/ pictureLostAt' = c /\ m.pli /\ ~(c < lastEnqueuedKey)
  <2>1. pictureLostAt' = IF m.pli
                         THEN OnReceiverIndicatesPictureLoss(senderCheckpoint')
                         ELSE pictureLostAt
    BY <1>4, Zenon DEF OnFeedback
  <2>2. senderCheckpoint' = c
    BY <1>7, Zenon DEF FeedbackTaken
  <2>. QED
    BY <2>1, <2>2, ZenonT(60) DEF OnReceiverIndicatesPictureLoss
<1>13. pictureLostAt' \in leader .. c
  <2>1. pictureLostAt \in leader .. senderCheckpoint
    BY Zenon DEF SInv, SenderInv, SenderTypeOK
  <2>. HIDE DEF c
  <2>. QED
    BY <1>11, <1>12, <2>1, SMTT(60)
<1>14. SenderInv'
  BY <1>2, <1>5, <1>7, <1>13, SenderAfter, Zenon
<1>15. RtcpInv'
  BY <1>1, <1>2, <1>4, <1>5, <1>7, <1>9, RtcpAfter, Zenon
<1>16. NeverAhead'
  <2>1. PointersAgree'
    BY <1>7, <1>9, <1>11, Zenon
       DEF SInv, NeverAhead, PointersAgree, FeedbackTaken, ReceiverRests
  <2>2. InFlight' = InFlight \ canceled
    BY <1>2, <1>5, <1>7, FlightAfter, Zenon
  <2>3. ASSUME NEW f \in canceled
        PROVE  Received(f)
    <3>1. f \in InFlight /\ (f <= c \/ f \in read.acks)
      BY <1>7, Zenon DEF FeedbackTaken, Settled
    <3>2. CASE f \in read.acks
      BY <1>2, <1>5, <3>2, Zenon DEF MessageInv
    <3>3. CASE f <= c
      <4>1. f \in Int /\ checkpoint \in Int
        BY <3>1, Pointers DEF InFlight
      <4>. HIDE DEF c
      <4>2. f <= checkpoint
        BY <1>11, <3>3, <4>1
      <4>. QED
        BY <4>2, Zenon DEF Received
    <3>. QED
      BY <3>1, <3>2, <3>3, Zenon
  <2>4. \A f \in first .. lastEnqueued : f \in InFlight' \/ Received(f)
    BY <2>2, <2>3, Zenon DEF SInv, NeverAhead, CanceledOnlyIfReceived
  <2>. QED
    BY <1>9, <1>10, <2>1, <2>4, RestFacts, Zenon
       DEF NeverAhead, CanceledOnlyIfReceived, first
<1>17. RtpInv'
  BY <1>10, Zenon DEF SInv, RtpInv, PacketIds, first
<1>18. KeyFrameOnlyIfPictureLost'
  <2>1. pli' = pli /\ lastEnqueued' = lastEnqueued
        /\ lastEnqueuedKey' = lastEnqueuedKey
    BY <1>4, <1>10, Zenon
  <2>2. m.pli /\ lastEnqueuedKey <= c => pli
    BY <1>2, <1>5, Zenon DEF MessageInv
  <2>. QED
    BY <1>12, <2>1, <2>2, Zenon
       DEF SInv, KeyFrameOnlyIfPictureLost, NeedsKeyFrame, first
<1>. QED
  BY <1>9, <1>10, <1>14, <1>15, <1>16, <1>17, <1>18, StreamRests, ZenonT(60) DEF SInv

-----------------------------------------------------------------------------
(* A new frame *)

\* A step that enqueues `frame` as frame f, the stream being st from then on.
NewFrame(f, frame, st) ==
  /\ f = lastEnqueued + 1 /\ lastEnqueued' = f
  /\ stream' = st /\ Len(st) = f + 1 /\ st[f + 1] = frame
  /\ \A g \in first .. lastEnqueued : st[g + 1] = stream[g + 1]
  /\ f <= senderCheckpoint + kMaxUnackedFrames
  /\ frame.packets <= kMaxAllowedFramePacketId
  /\ pendingFrames' = [pendingFrames EXCEPT ![Slot(f)] =
                         [id |-> f, frame |-> frame,
                          send_flags |-> PacketIds(frame), sent |-> {}]]
  /\ framesInFlight' = framesInFlight + 1
  /\ lastEnqueuedKey' = IF frame.dependency = kKeyFrame THEN f ELSE lastEnqueuedKey
  /\ nextRtpSend' = kImmediately
  /\ NeedsKeyFrame => frame.dependency = kKeyFrame
  /\ rtpNet' = {n \in rtpNet : n[1] + PacketLifetime > f}
  /\ UNCHANGED <<senderCheckpoint, senderLatestExpected, pictureLostAt>>
  /\ UNCHANGED receiverVars

\* The frames in flight with a new one.
LEMMA NewInFlight ==
  ASSUME SInv, NEW f \in Int, NEW frame \in Frame, NEW st \in Seq(Frame),
         NewFrame(f, frame, st)
  PROVE  /\ lastEnqueued < f
         /\ \A g \in Int : g <= f <=> g <= lastEnqueued \/ g = f
         /\ \A g \in (senderCheckpoint + 1) .. f :
              g = f \/ g \in (senderCheckpoint + 1) .. lastEnqueued
         /\ f \in (senderCheckpoint + 1) .. f
         /\ \A g \in (senderCheckpoint + 1) .. lastEnqueued :
              /\ g \in (senderCheckpoint + 1) .. f /\ Slot(g) # Slot(f)
              /\ IsActive(pendingFrames', g) <=> IsActive(pendingFrames, g)
         /\ IsActive(pendingFrames', f)
         /\ InFlight' = InFlight \cup {f}
         /\ f \notin InFlight
<1>1. /\ f = lastEnqueued + 1 /\ lastEnqueued \in Int /\ senderCheckpoint \in Int
      /\ f <= senderCheckpoint + kMaxUnackedFrames /\ kMaxUnackedFrames \in Nat
      /\ senderCheckpoint <= lastEnqueued
  BY Pointers, Sizes, ZenonT(60) DEF NewFrame, SInv, SenderInv, SenderTypeOK
<1>2. /\ lastEnqueued < f
      /\ \A g \in Int : g <= f <=> g <= lastEnqueued \/ g = f
      /\ \A g \in (senderCheckpoint + 1) .. f :
           g = f \/ g \in (senderCheckpoint + 1) .. lastEnqueued
      /\ f \in (senderCheckpoint + 1) .. f
      /\ f \notin (senderCheckpoint + 1) .. lastEnqueued
  BY <1>1
<1>3. ASSUME NEW g \in (senderCheckpoint + 1) .. lastEnqueued
      PROVE  g \in (senderCheckpoint + 1) .. f /\ Slot(g) # Slot(f) /\ g \in Int
  <2>1. /\ g \in Int /\ f - g < kMaxUnackedFrames /\ g - f < kMaxUnackedFrames
        /\ g \in (senderCheckpoint + 1) .. f /\ g # f
    BY <1>1
  <2>. QED
    BY <2>1, SlotsDiffer, ZenonT(60)
<1>4. pendingFrames \in [Slots -> PendingSlot] /\ Slot(f) \in Slots
  BY SlotExists, Zenon DEF SInv, SenderInv
<1>5. /\ pendingFrames'[Slot(f)].id = f
      /\ \A s \in Slots : s # Slot(f) => pendingFrames'[s] = pendingFrames[s]
  BY <1>4, Zenon DEF NewFrame
<1>6. ASSUME NEW g \in (senderCheckpoint + 1) .. lastEnqueued
      PROVE  IsActive(pendingFrames', g) <=> IsActive(pendingFrames, g)
  BY <1>3, <1>5, SlotExists, Zenon DEF IsActive
<1>7. IsActive(pendingFrames', f)
  BY <1>5, Zenon DEF IsActive
<1>8. InFlight' = {g \in (senderCheckpoint + 1) .. f : IsActive(pendingFrames', g)}
  BY Zenon DEF InFlight, IsActive, Slot, NewFrame
<1>9. InFlight' = InFlight \cup {f} /\ f \notin InFlight
  BY <1>2, <1>3, <1>6, <1>7, <1>8, Zenon DEF InFlight
<1>. QED
  BY <1>2, <1>3, <1>6, <1>7, <1>9, Zenon

\* The Sender keeps its own invariant.
LEMMA SenderEnqueues ==
  ASSUME SInv, NEW f \in Int, NEW frame \in Frame, NEW st \in Seq(Frame),
         NewFrame(f, frame, st)
  PROVE  SenderInv'
<1>0. /\ lastEnqueued' = f /\ stream' = st /\ nextRtpSend' = kImmediately
      /\ st[f + 1] = frame
      /\ UNCHANGED <<senderCheckpoint, senderLatestExpected, pictureLostAt>>
      /\ framesInFlight' = framesInFlight + 1
  BY Zenon DEF NewFrame
<1>1. /\ f = lastEnqueued + 1 /\ lastEnqueued \in Int /\ senderCheckpoint \in Int
      /\ f <= senderCheckpoint + kMaxUnackedFrames /\ kMaxUnackedFrames \in Nat
      /\ senderCheckpoint <= lastEnqueued /\ leader \in Int
      /\ leader <= senderCheckpoint
  BY Pointers, Sizes, ZenonT(60) DEF NewFrame, SInv, SenderInv, SenderTypeOK
<1>. DEFINE new == [id |-> f, frame |-> frame,
                    send_flags |-> PacketIds(frame), sent |-> {}]
<1>2. new \in PendingSlot
  <2>1. PacketIds(frame) \subseteq Nat
    BY DEF PacketIds, Frame
  <2>. QED
    BY <2>1, Zenon DEF PendingSlot
<1>3. /\ pendingFrames \in [Slots -> PendingSlot] /\ Slot(f) \in Slots
      /\ pendingFrames' = [pendingFrames EXCEPT ![Slot(f)] = new]
  BY SlotExists, Zenon DEF SInv, SenderInv, NewFrame
<1>4. pendingFrames' \in [Slots -> PendingSlot] /\ DOMAIN pendingFrames' = Slots
  BY <1>2, <1>3, Zenon
<1>5. ASSUME NEW s \in Slots
      PROVE  SlotInv(s)'
  <2>1. CASE s = Slot(f)
    <3>1. pendingFrames'[s] = new
      BY <1>3, <2>1, Zenon
    <3>2. PICK p : p = new
      BY Zenon
    <3>3. p.id = f /\ p.frame = frame /\ p.send_flags = PacketIds(frame) /\ p.sent = {}
      BY <3>2, Zenon
    <3>4. pendingFrames'[s] = p
      BY <3>1, <3>2, Zenon
    <3>5. f \in (senderCheckpoint + 1) .. f
      BY NewInFlight, Zenon
    <3>. HIDE DEF new
    <3>. QED
      BY ONLY <1>0, <2>1, <3>3, <3>4, <3>5, Zenon DEF SlotInv, Slot, PacketIds
  <2>2. CASE s # Slot(f)
    <3>. DEFINE slot == pendingFrames[s]
    <3>1. pendingFrames'[s] = slot
      BY <1>3, <2>2, Zenon
    <3>2. ASSUME slot.id # null
          PROVE  /\ slot.id \in (senderCheckpoint + 1) .. f /\ Slot(slot.id) = s
                 /\ slot.frame = st[slot.id + 1]
                 /\ slot.send_flags \cup slot.sent = PacketIds(slot.frame)
      <4>1. /\ slot.id \in (senderCheckpoint + 1) .. lastEnqueued
            /\ Slot(slot.id) = s /\ slot.frame = stream[slot.id + 1]
            /\ slot.send_flags \cup slot.sent = PacketIds(slot.frame)
        BY <3>2, Zenon DEF SInv, SenderInv, SlotInv
      <4>2. \A g \in (senderCheckpoint + 1) .. lastEnqueued :
              g \in first .. lastEnqueued
        BY <1>1 DEF first, leader
      <4>3. st[slot.id + 1] = stream[slot.id + 1]
        BY <4>1, <4>2, Zenon DEF NewFrame
      <4>. QED
        BY <4>1, <4>3, NewInFlight, Zenon
    <3>. QED
      BY <1>0, <3>1, <3>2, ZenonT(60) DEF SlotInv, Slot, PacketIds
  <2>. QED
    BY <2>1, <2>2, Zenon
<1>6. IsActive(pendingFrames', senderCheckpoint + 1)
  <2>1. senderCheckpoint < lastEnqueued \/ senderCheckpoint + 1 = f
    BY <1>1
  <2>2. senderCheckpoint < lastEnqueued
          => senderCheckpoint + 1 \in (senderCheckpoint + 1) .. lastEnqueued
    BY <1>1
  <2>. QED
    BY <2>1, <2>2, NewInFlight, Zenon DEF SInv, SenderInv
<1>7. \A g \in (senderCheckpoint + 1) .. f :
        IsActive(pendingFrames', g) \/ g <= senderLatestExpected
  BY NewInFlight, Zenon DEF SInv, SenderInv
<1>8. framesInFlight' = Cardinality(InFlight') /\ framesInFlight' \in Nat
  <2>1. Cardinality(InFlight \cup {f}) = Cardinality(InFlight) + 1
    BY NewInFlight, FlightFinite, FS_AddElement, Zenon
  <2>2. framesInFlight = Cardinality(InFlight)
    BY Zenon DEF SInv, SenderInv
  <2>3. framesInFlight' = Cardinality(InFlight')
    BY <1>0, <2>1, <2>2, NewInFlight, Zenon
  <2>4. \A x \in Nat : x + 1 \in Nat
    OBVIOUS
  <2>. QED
    BY <1>0, <2>2, <2>3, <2>4, FlightFinite, Zenon
<1>9. kImmediately # kSuspended
      /\ kImmediately \in {kSuspended, kImmediately, kKickstart}
  BY DEF kImmediately, kSuspended, kKickstart
<1>10. SenderTypeOK'
  <2>1. /\ senderLatestExpected \in leader .. lastEnqueued
        /\ lastEnqueuedKey \in leader .. lastEnqueued
        /\ pictureLostAt \in leader .. senderCheckpoint
    BY Zenon DEF SInv, SenderInv, SenderTypeOK
  <2>2. /\ senderCheckpoint <= f
        /\ senderLatestExpected \in leader .. f
        /\ lastEnqueuedKey \in leader .. f /\ f \in leader .. f
    BY <1>1, <2>1
  <2>3. lastEnqueuedKey' \in leader .. f
    BY <2>2, Zenon DEF NewFrame
  <2>. QED
    BY <1>0, <1>1, <1>4, <1>8, <1>9, <2>1, <2>2, <2>3, Zenon
       DEF SenderTypeOK, leader, Slots
<1>11. NoLostSend'
  BY <1>0, <1>9, Zenon DEF NoLostSend
<1>12. (senderCheckpoint < lastEnqueued
          => IsActive(pendingFrames, senderCheckpoint + 1))'
  BY <1>0, <1>6, ZenonT(60) DEF IsActive, Slot
<1>13. (\A g \in (senderCheckpoint + 1) .. lastEnqueued :
          IsActive(pendingFrames, g) \/ g <= senderLatestExpected)'
  BY <1>0, <1>7, Zenon DEF IsActive, Slot
<1>14. senderCheckpoint <= senderLatestExpected
  BY Zenon DEF SInv, SenderInv
<1>. QED
  BY <1>0, <1>1, <1>4, <1>5, <1>8, <1>10, <1>11, <1>12, <1>13, <1>14, Zenon
     DEF SenderInv, Slots, PendingSlot

\* Feedback on its way is read as before.
LEMMA RtcpEnqueues ==
  \A f \in Int : \A frame \in Frame : \A st \in Seq(Frame) :
    /\ SInv
    /\ NewFrame(f, frame, st)
    /\ ReceiverRests
    => RtcpInv'

\* What the Sender reads from feedback depends on the reference it expands the
\* truncated checkpoint with only as far as that gives another checkpoint.
<1>MeaningFrom.
  ASSUME NEW m, lastEnqueued' \in Int, NEW c \in Int, c = Meaning(m).checkpoint,
         m.feedback.checkpoint = LowerBits(c),
         c <= lastEnqueued', lastEnqueued' - c < Width
  PROVE  Meaning(m)' = Meaning(m)
  <2>. USE <1>MeaningFrom
  <2>1. c = ExpandLessThanOrEqual(lastEnqueued, m.feedback.checkpoint)
    BY Zenon DEF Meaning, ParseFeedback
  <2>2. PICK last \in Int : last = lastEnqueued'
    BY Zenon
  <2>3. c <= last /\ last - c < Width
    BY <2>2, Zenon
  <2>4. ExpandLessThanOrEqual(last, m.feedback.checkpoint) = c
    BY <2>3, ExpandLessThanOrEqualInverts, Zenon
  <2>. QED
    BY <2>1, <2>2, <2>4, Zenon DEF Meaning, ParseFeedback

<1>. SUFFICES ASSUME SInv, NEW f \in Int, NEW frame \in Frame, NEW st \in Seq(Frame),
                     NewFrame(f, frame, st), ReceiverRests
              PROVE  RtcpInv'
  OBVIOUS
<1>0. /\ lastEnqueued' = f /\ UNCHANGED <<senderCheckpoint, rtcpNet>>
      /\ UNCHANGED <<checkpoint, latestExpected, pli>>
  BY Zenon DEF NewFrame, receiverVars
<1>1. /\ f = lastEnqueued + 1 /\ lastEnqueued \in Int /\ senderCheckpoint \in Int
      /\ f <= senderCheckpoint + kMaxUnackedFrames /\ kMaxUnackedFrames \in Nat
      /\ checkpoint \in Int /\ latestExpected \in Int
      /\ checkpoint <= latestExpected /\ latestExpected <= lastEnqueued
      /\ Width \in Nat /\ kMaxUnackedFrames < Width
  BY Pointers, Sizes, ZenonT(60) DEF NewFrame
<1>2. \A i \in DOMAIN rtcpNet : rtcpNet[i] \in RtcpMessage
  BY DEF SInv, IInv, TypeOK
<1>3. lastEnqueuedKey \in Int /\ lastEnqueuedKey' \in Int
      /\ lastEnqueuedKey <= lastEnqueuedKey'
  <2>1. lastEnqueuedKey \in Int /\ lastEnqueuedKey <= lastEnqueued
    BY DEF SInv, SenderInv, SenderTypeOK, leader
  <2>2. lastEnqueuedKey <= f /\ lastEnqueuedKey <= lastEnqueuedKey
    BY <1>1, <2>1
  <2>. QED
    BY <2>1, <2>2, ZenonT(60) DEF NewFrame
<1>4. ASSUME NEW m \in RtcpMessage, MessageInv(m)
      PROVE  Meaning(m)' = Meaning(m) /\ MessageInv(m)'
  <2>. DEFINE read == Meaning(m)
              c == read.checkpoint
  <2>1. c \in Int
    BY <1>1, MeaningType, Zenon
  <2>2. /\ m.feedback.checkpoint = LowerBits(c)
        /\ senderCheckpoint <= c /\ c <= checkpoint
        /\ c < lastEnqueued => IsActive(pendingFrames, c + 1)
        /\ \A g \in read.acks : c + 2 <= g /\ Received(g)
        /\ \A n \in read.nacks : n[1] <= latestExpected
        /\ m.pli /\ lastEnqueuedKey <= c => pli
    BY <1>4, ZenonT(60) DEF MessageInv
  <2>. HIDE DEF c, read
  <2>3. c <= f /\ f - c < Width
    BY <1>1, <2>1, <2>2
  <2>4. Meaning(m)' = Meaning(m)
    BY <1>0, <2>1, <2>2, <2>3, <1>MeaningFrom, Zenon DEF c, read
  <2>5. IsActive(pendingFrames', c + 1)
    <3>1. c < lastEnqueued \/ c + 1 = f
      BY <1>1, <2>1, <2>2
    <3>2. c < lastEnqueued => c + 1 \in (senderCheckpoint + 1) .. lastEnqueued
      BY <1>1, <2>1, <2>2
    <3>. QED
      BY <2>2, <3>1, <3>2, NewInFlight, Zenon
  <2>6. m.pli /\ lastEnqueuedKey' <= c => pli
    <3>1. lastEnqueuedKey' <= c => lastEnqueuedKey <= c
      BY <1>3, <2>1
    <3>. QED
      BY <2>2, <3>1, Zenon
  <2>7. Meaning(m)'.checkpoint = c /\ Meaning(m)'.acks = read.acks
        /\ Meaning(m)'.nacks = read.nacks
    BY <2>4, Zenon DEF c, read
  <2>8. MessageInv(m)'
    BY <1>0, <2>2, <2>5, <2>6, <2>7, RestFacts, Zenon
       DEF MessageInv, LowerBits, IsActive, Slot
  <2>. QED
    BY <2>4, <2>8, Zenon
<1>5. \A i \in DOMAIN rtcpNet :
        \A m \in {rtcpNet[i]} : ~m.stale => Meaning(m)' = Meaning(m) /\ MessageInv(m)'
  BY <1>2, <1>4, ZenonT(60) DEF SInv, RtcpInv
<1>6. \A i, j \in DOMAIN rtcpNet :
        \A m \in {rtcpNet[i]}, n \in {rtcpNet[j]} :
          i < j /\ ~m.stale => OrderInv(m, n)'
  BY <1>5, Zenon DEF SInv, RtcpInv, OrderInv
<1>. QED
  BY <1>0, <1>5, <1>6, Zenon DEF RtcpInv

\* What the Sender has in mind for frame f when the stream is s.
ChangesIn(s, f) == {g \in first .. f : s[g + 1].new_playout_delay > 0}

DelayIn(s, f) ==
  IF ChangesIn(s, f) = {} THEN InitialDelay
  ELSE s[Max(ChangesIn(s, f)) + 1].new_playout_delay

LEMMA EnqueueKeeps ==
  \A choice \in FrameChoices[lastEnqueued + 1] :
    /\ SInv
    /\ lastEnqueued < MaxFrame
    /\ Enqueue(choice)
    => SInv'
<1>EnqueueIsNewFrame.
  ASSUME SInv, lastEnqueued < MaxFrame,
         NEW choice \in FrameChoices[lastEnqueued + 1], Enqueue(choice)
  PROVE  \E f \in Int, frame \in Frame, st \in Seq(Frame) : NewFrame(f, frame, st)
  <2>. USE <1>EnqueueIsNewFrame
  <2>1. PICK frame \in {IF NeedsKeyFrame THEN [choice EXCEPT !.dependency = kKeyFrame]
                        ELSE choice} :
          EnqueueFrame(frame) /\ stream' = Append(stream, frame)
    BY Zenon DEF Enqueue
  <2>2. lastEnqueued \in Int /\ leader <= lastEnqueued /\ senderCheckpoint \in Int
        /\ stream \in Seq(Frame) /\ Len(stream) = lastEnqueued + 1
    BY Pointers, Zenon DEF SInv, StreamInv
  <2>3. lastEnqueued + 1 \in 0 .. MaxFrame
    BY <2>2, MaxFrameAssumption DEF leader
  <2>4. choice \in Frame
    BY <2>3, FrameChoicesAssumption, Zenon
  <2>5. frame \in Frame /\ (NeedsKeyFrame => frame.dependency = kKeyFrame)
    <3>1. kKeyFrame \in Dependencies
      BY Zenon DEF Dependencies
    <3>2. /\ [choice EXCEPT !.dependency = kKeyFrame] \in Frame
          /\ [choice EXCEPT !.dependency = kKeyFrame].dependency = kKeyFrame
      BY <2>4, <3>1 DEF Frame
    <3>. QED
      BY <2>4, <3>2, Zenon
  <2>6. PICK f \in Int : f = lastEnqueued + 1
    BY <2>2
  <2>7. PICK st : st = Append(stream, frame)
    BY Zenon
  <2>8. /\ st \in Seq(Frame) /\ Len(st) = f + 1 /\ st[f + 1] = frame
        /\ \A g \in first .. lastEnqueued : st[g + 1] = stream[g + 1]
    BY <2>2, <2>5, <2>6, <2>7 DEF first, leader
  <2>9. f - senderCheckpoint <= kMaxUnackedFrames
        /\ frame.packets \in 1 .. kMaxAllowedFramePacketId
    BY <2>1, <2>6, Zenon DEF EnqueueFrame
  <2>10. f <= senderCheckpoint + kMaxUnackedFrames
         /\ frame.packets <= kMaxAllowedFramePacketId
    <3>1. f <= senderCheckpoint + kMaxUnackedFrames
      BY <2>2, <2>9, QueueSizeAssumption
    <3>2. frame.packets <= kMaxAllowedFramePacketId
      BY ONLY <2>9
    <3>. QED
      BY <3>1, <3>2, Zenon
  <2>11. /\ lastEnqueued' = f
         /\ pendingFrames' = [pendingFrames EXCEPT ![Slot(f)] =
                                [id |-> f, frame |-> frame,
                                 send_flags |-> PacketIds(frame), sent |-> {}]]
         /\ framesInFlight' = framesInFlight + 1
         /\ lastEnqueuedKey' = IF frame.dependency = kKeyFrame
                               THEN f ELSE lastEnqueuedKey
         /\ nextRtpSend' = kImmediately
         /\ UNCHANGED <<senderCheckpoint, senderLatestExpected, pictureLostAt>>
    BY <2>1, <2>6, Zenon DEF EnqueueFrame
  <2>12. /\ rtpNet' = {n \in rtpNet : n[1] + PacketLifetime > f}
         /\ UNCHANGED receiverVars
    BY <2>11, Zenon DEF Enqueue
  <2>13. NewFrame(f, frame, st)
    BY <2>1, <2>5, <2>6, <2>7, <2>8, <2>10, <2>11, <2>12, Zenon DEF NewFrame
  <2>. QED
    BY <2>5, <2>8, <2>13, Zenon

\* The delays the Sender has in mind do not depend on later frames.
<1>EarlierDelays.
  ASSUME SInv, NEW f \in Int, NEW frame \in Frame, NEW st \in Seq(Frame),
         NewFrame(f, frame, st)
  PROVE  /\ \A g \in first .. lastEnqueued : DelayOf(g)' = DelayOf(g)
         /\ SenderDelay(checkpoint)' = SenderDelay(checkpoint)
  <2>. USE <1>EarlierDelays
  <2>1. /\ stream' = st /\ UNCHANGED checkpoint
        /\ \A g \in first .. lastEnqueued : st[g + 1] = stream[g + 1]
    BY Zenon DEF NewFrame, receiverVars
  <2>2. checkpoint \in Int /\ lastEnqueued \in Int /\ checkpoint <= lastEnqueued
    <3>1. /\ checkpoint \in Int /\ latestExpected \in Int /\ lastEnqueued \in Int
          /\ checkpoint <= latestExpected /\ latestExpected <= lastEnqueued
      BY Pointers, Zenon
    <3>. QED
      BY <3>1
  <2>3. \A g \in first .. checkpoint :
          g \in first .. lastEnqueued /\ g \in Int /\ g <= checkpoint
    BY <2>2 DEF first
  <2>. DEFINE changes == {g \in first .. checkpoint :
                            stream[g + 1].new_playout_delay > 0}
              last == Max(changes)
  <2>4. changes = {g \in first .. checkpoint : st[g + 1].new_playout_delay > 0}
    BY <2>1, <2>3, ZenonT(60)
  <2>5. changes # {} => last \in changes
    <3>1. SUFFICES ASSUME changes # {}
                   PROVE  last \in changes
      BY Zenon
    <3>2. changes \subseteq Int /\ \A g \in changes : g <= checkpoint
      BY <2>3, Zenon
    <3>. HIDE DEF changes
    <3>3. PICK x \in changes : \A y \in changes : y <= x
      BY <2>2, <3>1, <3>2, Greatest, Zenon
    <3>4. \A y \in changes : x >= y
      BY <3>2, <3>3
    <3>. QED
      BY <3>4, Zenon DEF Max
  <2>. HIDE DEF last
  <2>6. changes # {} => st[last + 1] = stream[last + 1]
    BY <2>1, <2>3, <2>5, Zenon
  <2>7. SenderDelay(checkpoint) = IF changes = {} THEN InitialDelay
                                  ELSE stream[last + 1].new_playout_delay
    BY Zenon DEF SenderDelay, last
  <2>. HIDE DEF changes
  <2>8. SenderDelay(checkpoint)' = IF changes = {} THEN InitialDelay
                                   ELSE st[last + 1].new_playout_delay
    <3>1. SenderDelay(checkpoint)' = DelayIn(stream', checkpoint')
      BY ONLY Zenon DEF SenderDelay, DelayIn, ChangesIn, first, Max
    <3>2. SenderDelay(checkpoint)' = DelayIn(st, checkpoint)
      BY ONLY <2>1, <3>1, Zenon
    <3>3. DelayIn(st, checkpoint) = IF changes = {} THEN InitialDelay
                                    ELSE st[last + 1].new_playout_delay
      <4>1. changes = ChangesIn(st, checkpoint)
        BY ONLY <2>4, Zenon DEF ChangesIn
      <4>. QED
        BY ONLY <4>1, Zenon DEF DelayIn, last
    <3>. QED
      BY ONLY <3>2, <3>3, Zenon
  <2>9. \A g \in first .. lastEnqueued : DelayOf(g)' = DelayOf(g)
    BY <2>1, Zenon DEF DelayOf
  <2>10. SenderDelay(checkpoint)' = SenderDelay(checkpoint)
    <3>1. CASE changes = {}
      BY ONLY <2>7, <2>8, <3>1, Zenon
    <3>2. CASE changes # {}
      <4>1. st[last + 1].new_playout_delay = stream[last + 1].new_playout_delay
        BY ONLY <2>6, <3>2, Zenon
      <4>. QED
        BY ONLY <2>7, <2>8, <3>2, <4>1, Zenon
    <3>. QED
      BY ONLY <3>1, <3>2, Zenon
  <2>. QED
    BY ONLY <2>9, <2>10, Zenon

<1>. SUFFICES ASSUME SInv, lastEnqueued < MaxFrame,
                     NEW choice \in FrameChoices[lastEnqueued + 1], Enqueue(choice)
              PROVE  SInv'
  OBVIOUS
<1>1. PICK f \in Int, frame \in Frame, st \in Seq(Frame) : NewFrame(f, frame, st)
  BY <1>EnqueueIsNewFrame, Zenon
<1>2. ReceiverRests
  BY <1>1, Zenon DEF SInv, IInv, TypeOK, ReceiverRests, receiverVars, NewFrame
<1>3. /\ lastEnqueued' = f /\ stream' = st /\ Len(st) = f + 1 /\ st[f + 1] = frame
      /\ \A g \in first .. lastEnqueued : st[g + 1] = stream[g + 1]
      /\ UNCHANGED <<senderCheckpoint, senderLatestExpected, pictureLostAt>>
      /\ UNCHANGED <<checkpoint, latestExpected, lastConsumed, highestRtp,
                     delayChanges, playoutDelay, pli>>
  BY <1>1, Zenon DEF NewFrame, receiverVars
<1>4. /\ f = lastEnqueued + 1 /\ lastEnqueued \in Int /\ leader <= lastEnqueued
      /\ latestExpected \in Int /\ latestExpected <= lastEnqueued
      /\ lastConsumed \in Int /\ highestRtp \in Int /\ leader \in Int
      /\ senderCheckpoint \in Int
  BY <1>1, Pointers, ZenonT(60) DEF NewFrame, SInv, StreamInv
<1>5. \A g \in first .. f : g = f \/ g \in first .. lastEnqueued
  BY <1>4 DEF first
<1>6. \A g \in first .. lastEnqueued : g \in first .. f
  BY <1>4 DEF first
<1>7. f \in first .. f /\ leader <= f
  BY <1>4 DEF first, leader
<1>8. StreamInv'
  <2>1. \A g \in first .. f : st[g + 1].packets <= kMaxAllowedFramePacketId
    BY <1>1, <1>3, <1>5, Zenon DEF SInv, StreamInv, NewFrame
  <2>. QED
    BY <1>3, <1>7, <2>1, Zenon
       DEF StreamInv, first, leader, kMaxAllowedFramePacketId, Frame
<1>9. RtpInv'
  <2>1. rtpNet' = {n \in rtpNet : n[1] + PacketLifetime > f}
    BY <1>1, Zenon DEF NewFrame
  <2>2. \A n \in rtpNet' : /\ n[1] \in first .. f
                           /\ n[1] + PacketLifetime > f
                           /\ n[2] \in PacketIds(st[n[1] + 1])
    BY <1>3, <1>6, <2>1, Zenon DEF SInv, RtpInv
  <2>. QED
    BY <1>3, <2>2, Zenon DEF RtpInv, PacketIds, first
<1>10. HighestInv'
  <2>1. highestRtp <= lastEnqueued => highestRtp <= f
    BY <1>4
  <2>. QED
    BY <1>3, <2>1, Zenon DEF SInv, HighestInv, first
<1>11. SenderInv'
  BY <1>1, SenderEnqueues, Zenon
<1>12. NeverAhead'
  <2>1. latestExpected <= f
    BY <1>4
  <2>2. PointersAgree'
    BY <1>3, <2>1, Zenon DEF SInv, NeverAhead, PointersAgree
  <2>3. \A g \in first .. f : g \in InFlight' \/ Received(g)'
    BY <1>1, <1>2, <1>5, NewInFlight, RestFacts, ZenonT(60)
       DEF SInv, NeverAhead, CanceledOnlyIfReceived
  <2>. QED
    BY <1>3, <2>2, <2>3, ZenonT(60) DEF NeverAhead, CanceledOnlyIfReceived, first
<1>13. RtcpInv'
  BY <1>1, <1>2, RtcpEnqueues, ZenonT(60)
<1>14. \A g \in Active : g \in first .. lastEnqueued
  <2>1. leader <= lastConsumed
    BY Zenon DEF SInv, IInv, FrameOrder
  <2>. QED
    BY <1>4, <2>1 DEF Active, first, leader
<1>15. FramesGenuine'
  BY <1>2, <1>3, <1>14, RestFacts, Zenon DEF SInv, FramesGenuine
<1>16. DelayInv'
  <2>1. \A g \in first .. latestExpected : g \in first .. lastEnqueued
    BY <1>4 DEF first
  <2>2. /\ \A g \in first .. latestExpected : DelayOf(g)' = DelayOf(g)
        /\ SenderDelay(checkpoint)' = SenderDelay(checkpoint)
    BY <1>1, <2>1, <1>EarlierDelays, Zenon
  <2>3. Recorded'
    BY <1>2, <1>3, <2>2, RestFacts, Zenon
       DEF SInv, DelayInv, Recorded, first, leader
  <2>. QED
    BY <1>3, <2>2, <2>3, ZenonT(60) DEF SInv, DelayInv
<1>17. /\ lastEnqueuedKey \in Int /\ lastEnqueuedKey <= lastEnqueued
       /\ pictureLostAt \in Int /\ pictureLostAt <= senderCheckpoint
       /\ senderCheckpoint <= lastEnqueued
  BY DEF SInv, SenderInv, SenderTypeOK, leader
<1>. DEFINE key == lastEnqueuedKey'
<1>18. key = IF frame.dependency = kKeyFrame THEN f ELSE lastEnqueuedKey
  BY <1>1, Zenon DEF NewFrame
<1>19. KeyInv'
  <2>1. \A g \in first .. f : st[g + 1].dependency = kKeyFrame => g <= key
    <3>1. SUFFICES ASSUME NEW g \in first .. f, st[g + 1].dependency = kKeyFrame
                   PROVE  g <= key
      BY Zenon
    <3>2. CASE g = f
      <4>1. frame.dependency = kKeyFrame
        BY <1>3, <3>1, <3>2, Zenon
      <4>2. f <= f
        OBVIOUS
      <4>. QED
        BY <1>18, <3>2, <4>1, <4>2, Zenon
    <3>3. CASE g \in first .. lastEnqueued
      <4>1. g <= lastEnqueuedKey
        BY <1>3, <3>1, <3>3, Zenon DEF SInv, KeyInv
      <4>2. g <= f
        OBVIOUS
      <4>. QED
        BY <1>18, <4>1, <4>2, Zenon
    <3>. QED
      BY <1>5, <3>2, <3>3, Zenon
  <2>. QED
    BY <1>3, <2>1, Zenon DEF KeyInv, first
<1>20. ~NeedsKeyFrame'
  <2>1. ~(f <= pictureLostAt)
    BY <1>4, <1>17
  <2>2. CASE frame.dependency = kKeyFrame
    BY <1>3, <1>18, <2>1, <2>2, ZenonT(60) DEF NeedsKeyFrame
  <2>3. CASE frame.dependency # kKeyFrame
    BY <1>1, <1>3, <1>18, <2>3, Zenon DEF NeedsKeyFrame, NewFrame
  <2>. QED
    BY <2>2, <2>3, Zenon
<1>21. KeyFrameOnlyIfPictureLost'
  BY <1>20, Zenon DEF KeyFrameOnlyIfPictureLost
<1>. QED
  BY <1>2, <1>8, <1>9, <1>10, <1>11, <1>12, <1>13, <1>15, <1>16, <1>19, <1>21,
     RestFacts, ZenonT(60) DEF SInv

\* A step in which nothing happens keeps the invariant.
LEMMA StutterKeeps ==
  ASSUME SInv, UNCHANGED vars
  PROVE  SInv'
<1>1. /\ UNCHANGED <<stream, rtpNet, senderCheckpoint, lastEnqueued,
                     senderLatestExpected, lastEnqueuedKey, pictureLostAt,
                     pendingFrames, framesInFlight, nextRtpSend>>
      /\ UNCHANGED receiverVars
  BY Zenon DEF vars, senderVars
<1>2. RtpInv'
  BY <1>1, Zenon DEF SInv, RtpInv, PacketIds, first
<1>3. \A s \in Slots : SlotInv(s)'
  BY <1>1, Zenon DEF SInv, SenderInv, SlotInv, Slot, PacketIds
<1>4. /\ pendingFrames' \in [Slots -> PendingSlot]
      /\ nextRtpSend' \in {kSuspended, kImmediately, kKickstart}
  BY <1>1, Zenon DEF SInv, SenderInv, SenderTypeOK
<1>5. NoLostSend'
  BY <1>1, Zenon
     DEF SInv, SenderInv, NoLostSend, FramesToSend, IsActive, Slot, NeedsKickstart
<1>. QED
  BY <1>1, <1>2, <1>3, <1>4, <1>5, FlightKept, Zenon
=============================================================================
