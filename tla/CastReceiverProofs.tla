------------------------- MODULE CastReceiverProofs -------------------------
(***************************************************************************)
(* Proofs about the Receiver, for queues of any size and streams of any     *)
(* length, whatever RTP packets arrive and in whatever order: the frame     *)
(* queue stays consistent, and no step forgets a packet, moves back, or     *)
(* leaves the consumer waiting for a frame that is there.                   *)
(***************************************************************************)
EXTENDS ReceiverAlone, WellFoundedInduction, TLAPS

-----------------------------------------------------------------------------
(* Integers: least and greatest elements, remainders *)

\* A non-empty set of naturals has a least element.
LEMMA NatMinimum ==
  ASSUME NEW T, T \subseteq Nat, T # {}
  PROVE  \E x \in T : \A y \in T : x <= y
<1>1. PICK x \in T : \A y \in T : ~(<<y, x>> \in OpToRel(<, Nat))
  BY NatLessThanWellFounded, WFMin, Zenon
<1>2. ASSUME NEW y \in T
      PROVE  x <= y
  <2>1. x \in Nat /\ y \in Nat
    BY Zenon
  <2>2. y < x => <<y, x>> \in OpToRel(<, Nat)
    BY <2>1, Zenon DEF OpToRel
  <2>3. ~(y < x)
    BY <1>1, <2>2, Zenon
  <2>. QED
    BY <2>1, <2>3
<1>. QED
  BY <1>2, Zenon

\* A non-empty set of integers with a lower bound has a least element.
LEMMA IntMinimum ==
  ASSUME NEW S, S \subseteq Int, S # {},
         NEW lower \in Int, \A x \in S : lower <= x
  PROVE  \E x \in S : \A y \in S : x <= y
<1>. DEFINE T == {x - lower : x \in S}
<1>1. T \subseteq Nat
  OBVIOUS
<1>2. T # {}
  BY Zenon
<1>3. PICK t \in T : \A u \in T : t <= u
  BY <1>1, <1>2, NatMinimum, Zenon
<1>4. PICK x \in S : t = x - lower
  BY Zenon
<1>5. ASSUME NEW y \in S
      PROVE  x <= y
  <2>1. y - lower \in T
    BY Zenon
  <2>2. t <= y - lower
    BY <1>3, <2>1, Zenon
  <2>. HIDE DEF T
  <2>. QED
    BY <1>4, <2>2
<1>. QED
  BY <1>5, Zenon

\* A non-empty set of integers with an upper bound has a greatest element.
LEMMA IntMaximum ==
  ASSUME NEW S, S \subseteq Int, S # {},
         NEW upper \in Int, \A x \in S : x <= upper
  PROVE  \E x \in S : \A y \in S : y <= x
<1>. DEFINE T == {upper - x : x \in S}
<1>1. T \subseteq Nat
  OBVIOUS
<1>2. T # {}
  BY Zenon
<1>3. PICK t \in T : \A u \in T : t <= u
  BY <1>1, <1>2, NatMinimum, Zenon
<1>4. PICK x \in S : t = upper - x
  BY Zenon
<1>5. ASSUME NEW y \in S
      PROVE  y <= x
  <2>1. upper - y \in T
    BY Zenon
  <2>2. t <= upper - y
    BY <1>3, <2>1, Zenon
  <2>. HIDE DEF T
  <2>. QED
    BY <1>4, <2>2
<1>. QED
  BY <1>5, Zenon

\* Multiplication by a positive integer is monotonic.
LEMMA MulMonotonic ==
  ASSUME NEW n \in Nat \ {0}, NEW a \in Int, NEW b \in Int, a < b
  PROVE  n * a + n <= n * b
<1>1. /\ a + 1 <= b
      /\ b - a - 1 \in Nat
  OBVIOUS
<1>2. n * (b - a - 1) >= 0
  BY <1>1
<1>3. n * (b - a - 1) = n * b - n * a - n
  OBVIOUS
<1>4. n * a \in Int /\ n * b \in Int
  OBVIOUS
<1> QED BY <1>2, <1>3, <1>4

\* Integer division with remainder, in the form the other proofs use it.
LEMMA DivMod ==
  ASSUME NEW n \in Nat \ {0}, NEW a \in Int
  PROVE  /\ a \div n \in Int
         /\ a % n \in 0 .. (n - 1)
         /\ a = n * (a \div n) + (a % n)
  OBVIOUS

\* Two integers less than n apart with the same remainder are equal: distinct
\* frames of a window of n frames never share a slot of an n-element ring.
LEMMA SameResidue ==
  ASSUME NEW n \in Nat \ {0}, NEW a \in Int, NEW b \in Int,
         a % n = b % n, a - b < n, b - a < n
  PROVE  a = b
<1> DEFINE qa == a \div n
           qb == b \div n
<1>1. /\ qa \in Int
      /\ a % n \in 0 .. (n - 1)
      /\ a = n * qa + (a % n)
  BY DivMod, Zenon
<1>2. /\ qb \in Int
      /\ b % n \in 0 .. (n - 1)
      /\ b = n * qb + (b % n)
  BY DivMod, Zenon
<1> HIDE DEF qa, qb
<1>3. ~(qa < qb)
  <2> SUFFICES ASSUME qa < qb PROVE FALSE
    BY Zenon
  <2>1. n * qa + n <= n * qb
    BY <1>1, <1>2, MulMonotonic, Zenon
  <2>2. n * qa \in Int /\ n * qb \in Int
    BY <1>1, <1>2
  <2> QED BY <1>1, <1>2, <2>1, <2>2
<1>4. ~(qb < qa)
  <2> SUFFICES ASSUME qb < qa PROVE FALSE
    BY Zenon
  <2>1. n * qb + n <= n * qa
    BY <1>1, <1>2, MulMonotonic, Zenon
  <2>2. n * qa \in Int /\ n * qb \in Int
    BY <1>1, <1>2
  <2> QED BY <1>1, <1>2, <2>1, <2>2
<1>5. qa = qb
  BY <1>1, <1>2, <1>3, <1>4
<1> QED BY <1>1, <1>2, <1>5, Zenon

-----------------------------------------------------------------------------
(* Slots *)

\* Every frame has a slot.
LEMMA SlotType ==
  ASSUME NEW f \in Int
  PROVE  Slot(f) \in Slots
BY DivMod, QueueSizeAssumption, Zenon DEF Slot, Slots

\* Frames less than kMaxUnackedFrames apart have different slots.
LEMMA SlotInjective ==
  ASSUME NEW f \in Int, NEW g \in Int,
         f - g < kMaxUnackedFrames, g - f < kMaxUnackedFrames,
         Slot(f) = Slot(g)
  PROVE  f = g
BY SameResidue, QueueSizeAssumption, Zenon DEF Slot

\* A complete frame has all of its packets, the first one included.
LEMMA CompleteHasFirst ==
  ASSUME NEW entry \in PendingFrame, IsComplete(entry)
  PROVE  0 \in entry.chunks
BY DEF IsComplete, PendingFrame

-----------------------------------------------------------------------------
(* Extending the queue *)

\* What the frame pointers are like once the queue is extended for frame f.
LEMMA ExpectBounds ==
  ASSUME TypeOK, FrameOrder, NEW f \in Int, ~IsIgnored(f)
  PROVE  /\ LastExpected(f) \in Int
         /\ latestExpected <= LastExpected(f)
         /\ LastExpected(f) <= lastConsumed + kMaxUnackedFrames
         /\ f \in (checkpoint + 1) .. LastExpected(f)
         /\ f \in (lastConsumed + 1) .. LastExpected(f)
BY QueueSizeAssumption DEF TypeOK, FrameOrder, IsIgnored, LastExpected

\* The frame that is given slot s, if any, is determined by s.
LEMMA NewFrameUnique ==
  ASSUME TypeOK, FrameOrder, NEW f \in Int, ~IsIgnored(f),
         NEW g \in (latestExpected + 1) .. f
  PROVE  (CHOOSE h \in {i \in (latestExpected + 1) .. f : Slot(i) = Slot(g)} :
            TRUE) = g
<1>. DEFINE new == {i \in (latestExpected + 1) .. f : Slot(i) = Slot(g)}
            h == CHOOSE h \in new : TRUE
<1>1. g \in new
  BY Zenon
<1>2. h \in new
  BY <1>1, Zenon
<1>3. /\ latestExpected \in Int /\ g \in Int /\ h \in Int
      /\ Slot(h) = Slot(g)
      /\ latestExpected < h /\ h <= f /\ latestExpected < g /\ g <= f
  BY <1>2 DEF TypeOK
<1>4. f <= LastExpected(f)
  BY DEF TypeOK, LastExpected
<1>5. h - g < kMaxUnackedFrames /\ g - h < kMaxUnackedFrames
  <2>. HIDE DEF h
  <2>. QED
    BY <1>3, <1>4, ExpectBounds, QueueSizeAssumption DEF TypeOK, FrameOrder
<1>. HIDE DEF h
<1>6. h = g
  BY <1>3, <1>5, SlotInjective, Zenon
<1>. QED
  BY <1>6, Zenon DEF h

\* A new frame gets its ID, and loses the capture time of the slot's last frame.
LEMMA ExpectNew ==
  ASSUME TypeOK, FrameOrder, QueueOwnership, NEW f \in Int, ~IsIgnored(f),
         NEW g \in (latestExpected + 1) .. LastExpected(f)
  PROVE  /\ Entry(Expect(queue, f), g) =
              [Entry(queue, g) EXCEPT !.id = g, !.capture = null]
         /\ Entry(queue, g).id = null
         /\ Entry(queue, g).count = 0
         /\ Entry(queue, g).chunks = {}
<1>1. g \in (latestExpected + 1) .. f /\ g \in Int
  BY DEF LastExpected, TypeOK
<1>2. Slot(g) \in Slots
  BY <1>1, SlotType, Zenon
<1>3. Entry(Expect(queue, f), g) =
        [Entry(queue, g) EXCEPT !.id = g, !.capture = null]
  <2>1. g \in {i \in (latestExpected + 1) .. f : Slot(i) = Slot(g)}
    BY <1>1, Zenon
  <2>2. (CHOOSE h \in {i \in (latestExpected + 1) .. f : Slot(i) = Slot(g)} :
            TRUE) = g
    BY <1>1, NewFrameUnique, Zenon
  <2>. QED
    BY <1>2, <2>1, <2>2, Zenon DEF Expect, Entry
<1>4. Slot(g) \notin {Slot(h) : h \in Active}
  <2>1. SUFFICES ASSUME NEW h \in Active, Slot(h) = Slot(g)
                 PROVE  FALSE
    BY Zenon
  <2>2. /\ h \in Int /\ lastConsumed < h /\ h <= latestExpected
        /\ latestExpected < g /\ g <= lastConsumed + kMaxUnackedFrames
    BY <1>1, ExpectBounds, QueueSizeAssumption DEF Active, TypeOK
  <2>3. h = g
    BY <1>1, <2>1, <2>2, SlotInjective, QueueSizeAssumption DEF TypeOK
  <2>. QED
    BY <1>1, <2>2, <2>3 DEF TypeOK
<1>. QED
  BY <1>2, <1>3, <1>4, Zenon DEF QueueOwnership, Entry

\* The slots of other frames are left alone.
LEMMA ExpectOld ==
  ASSUME TypeOK, NEW f \in Int, NEW s \in Slots,
         \A g \in (latestExpected + 1) .. LastExpected(f) : Slot(g) # s
  PROVE  Expect(queue, f)[s] = queue[s]
<1>1. {g \in (latestExpected + 1) .. f : Slot(g) = s} = {}
  BY DEF LastExpected, TypeOK
<1>. QED
  BY <1>1, Zenon DEF Expect

\* In particular those of the frames in the queue, and those of the consumed
\* frames that are still within reach.
LEMMA ExpectWindow ==
  ASSUME TypeOK, FrameOrder, NEW f \in Int, ~IsIgnored(f),
         NEW g \in (LastExpected(f) - kMaxUnackedFrames + 1) .. latestExpected
  PROVE  Entry(Expect(queue, f), g) = Entry(queue, g)
<1>1. g \in Int /\ Slot(g) \in Slots
  BY SlotType, ExpectBounds, QueueSizeAssumption DEF TypeOK
<1>2. ASSUME NEW h \in (latestExpected + 1) .. LastExpected(f), Slot(h) = Slot(g)
      PROVE  FALSE
  <2>1. /\ h \in Int /\ latestExpected < h /\ h <= LastExpected(f)
        /\ g <= latestExpected /\ LastExpected(f) - kMaxUnackedFrames < g
    BY <1>1, ExpectBounds, QueueSizeAssumption DEF TypeOK
  <2>2. h = g
    BY <1>1, <1>2, <2>1, SlotInjective, ExpectBounds, QueueSizeAssumption
       DEF TypeOK
  <2>. QED
    BY <1>1, <2>1, <2>2 DEF TypeOK
<1>. QED
  BY <1>1, <1>2, ExpectOld, Zenon DEF Entry

\* Expect() keeps the queue a queue.
LEMMA ExpectType ==
  ASSUME TypeOK, FrameOrder, QueueOwnership, NEW f \in Int, ~IsIgnored(f)
  PROVE  Expect(queue, f) \in [Slots -> PendingFrame]
<1>1. SUFFICES ASSUME NEW s \in Slots
               PROVE  Expect(queue, f)[s] \in PendingFrame
  BY Zenon DEF Expect
<1>2. CASE \A g \in (latestExpected + 1) .. LastExpected(f) : Slot(g) # s
  BY <1>2, ExpectOld, Zenon DEF TypeOK
<1>3. ASSUME NEW g \in (latestExpected + 1) .. LastExpected(f), Slot(g) = s
      PROVE  Expect(queue, f)[s] \in PendingFrame
  <2>1. g \in Int
    BY ExpectBounds DEF TypeOK
  <2>2. queue[s] \in PendingFrame
    BY Zenon DEF TypeOK
  <2>3. Expect(queue, f)[s] = [queue[s] EXCEPT !.id = g, !.capture = null]
    BY <1>3, ExpectNew, Zenon DEF Entry
  <2>. QED
    BY <2>1, <2>2, <2>3, Zenon DEF PendingFrame
<1>. QED
  BY <1>2, <1>3, Zenon
-----------------------------------------------------------------------------
(* The checkpoint and the playout delay *)

\* Min() is what its name says for integers with a lower bound.
LEMMA MinFacts ==
  ASSUME NEW S, S \subseteq Int, S # {},
         NEW lower \in Int, \A x \in S : lower <= x
  PROVE  Min(S) \in S /\ \A y \in S : Min(S) <= y
BY IntMinimum, Zenon DEF Min

\* AdvanceCheckpoint() stops between its argument and latest_frame_expected_,
\* passes complete frames only, and stops at nothing but an incomplete frame.
LEMMA CheckpointAfterFacts ==
  ASSUME NEW q, NEW from \in Int, NEW last \in Int, from <= last
  PROVE  LET c == CheckpointAfter(q, from, last)
         IN  /\ c \in Int /\ from <= c /\ c <= last
             /\ \A g \in (from + 1) .. c : IsComplete(Entry(q, g))
             /\ c < last => ~IsComplete(Entry(q, c + 1))
<1>. DEFINE gaps == {g \in (from + 1) .. last : ~IsComplete(Entry(q, g))}
            c == CheckpointAfter(q, from, last)
<1>1. CASE gaps = {}
  <2>1. c = last
    BY <1>1, Zenon DEF CheckpointAfter
  <2>2. \A g \in (from + 1) .. last : IsComplete(Entry(q, g))
    BY <1>1, Zenon
  <2>. QED
    BY <2>1, <2>2
<1>2. CASE gaps # {}
  <2>1. gaps \subseteq Int /\ \A g \in gaps : from + 1 <= g
    OBVIOUS
  <2>2. Min(gaps) \in gaps /\ \A g \in gaps : Min(gaps) <= g
    BY <1>2, <2>1, MinFacts
  <2>3. c = Min(gaps) - 1
    BY <1>2, Zenon DEF CheckpointAfter
  <2>4. PICK m \in gaps : m = Min(gaps)
    BY <2>2, Zenon
  <2>5. /\ m \in Int /\ from + 1 <= m /\ m <= last /\ c = m - 1
        /\ ~IsComplete(Entry(q, m))
    BY <2>3, <2>4
  <2>6. c + 1 = m
    BY <2>5
  <2>7. ASSUME NEW g \in (from + 1) .. c
        PROVE  IsComplete(Entry(q, g))
    <3>1. g \in (from + 1) .. last /\ g < m
      BY <2>5
    <3>2. g \notin gaps
      BY <2>2, <2>4, <2>5, <3>1
    <3>. QED
      BY <3>1, <3>2, Zenon
  <2>. HIDE DEF gaps, c
  <2>. QED
    BY <2>5, <2>6, <2>7 DEF c
<1>. QED
  BY <1>1, <1>2, Zenon

\* Which changes ResolveTargetPlayoutDelay() may rely on.
Resolvable(changes, f) ==
  /\ changes \subseteq Int \X Nat
  /\ \E c \in changes : c[1] <= f

\* What the resolved target delay is.
LEMMA ResolveDelayType ==
  ASSUME NEW changes, NEW f \in Int, Resolvable(changes, f)
  PROVE  ResolveDelay(changes, f) \in Nat
<1>. DEFINE known == {c \in changes : c[1] <= f}
            starts == {c[1] : c \in known}
<1>1. known # {} /\ known \subseteq Int \X Nat
  BY Zenon DEF Resolvable
<1>2. starts \subseteq Int /\ starts # {} /\ \A x \in starts : x <= f
  BY <1>1, Zenon
<1>3. PICK x \in starts : \A y \in starts : y <= x
  BY <1>2, IntMaximum, Zenon
<1>4. \E c \in known : \A d \in known : d[1] <= c[1]
  BY <1>3, Zenon
<1>5. (CHOOSE c \in known : \A d \in known : d[1] <= c[1]) \in known
  BY <1>4, Zenon
<1>. QED
  BY <1>1, <1>5, Zenon DEF ResolveDelay

\* Pruning keeps the change that is in effect where the queue may begin.
LEMMA RecordDelayFacts ==
  ASSUME TypeOK, DelayResolvable, NEW f \in Int, NEW delay \in Nat,
         \A c \in delayChanges : c[1] # f
  PROVE  /\ RecordDelay(f, delay) \subseteq delayChanges \cup {<<f, delay>>}
         /\ RecordDelay(f, delay) \in SUBSET (Int \X Nat)
         /\ \E c \in RecordDelay(f, delay) :
              c[1] <= leader \/ c[1] <= lastConsumed - kMaxUnackedFrames + 1
         /\ \A c, d \in RecordDelay(f, delay) : c[1] = d[1] => c = d
<1>. DEFINE next == lastConsumed - kMaxUnackedFrames + 1
            known == {c \in delayChanges : c[1] <= next}
            starts == {c[1] : c \in known}
            new == RecordDelay(f, delay)
<1>0. next \in Int /\ delayChanges \subseteq Int \X Nat
  BY QueueSizeAssumption DEF TypeOK
<1>1. new \subseteq delayChanges \cup {<<f, delay>>}
  BY Zenon DEF RecordDelay
<1>2. new \in SUBSET (Int \X Nat)
  BY <1>0, <1>1
<1>3. \A c, d \in new : c[1] = d[1] => c = d
  BY <1>1 DEF DelayResolvable
<1>4. \E c \in new : c[1] <= leader \/ c[1] <= next
  <2>1. CASE known = {}
    <3>1. PICK c \in delayChanges : c[1] <= leader \/ c[1] <= next
      BY Zenon DEF DelayResolvable
    <3>2. ~\E d \in delayChanges : c[1] < d[1] /\ d[1] <= next
      BY <2>1, Zenon
    <3>3. c \in new
      BY <3>2, Zenon DEF RecordDelay
    <3>. QED
      BY <3>1, <3>3, Zenon
  <2>2. CASE known # {}
    <3>1. starts \subseteq Int /\ starts # {} /\ \A x \in starts : x <= next
      BY <1>0, <2>2, Zenon
    <3>2. PICK x \in starts : \A y \in starts : y <= x
      BY <1>0, <3>1, IntMaximum, Zenon
    <3>3. PICK c \in known : c[1] = x
      BY Zenon
    <3>4. ASSUME NEW d \in delayChanges, c[1] < d[1], d[1] <= next
          PROVE  FALSE
      <4>1. d[1] \in starts
        BY <3>4, Zenon
      <4>2. d[1] <= c[1]
        BY <3>2, <3>3, <4>1, Zenon
      <4>3. c[1] \in Int /\ d[1] \in Int
        BY <1>0, Zenon
      <4>. QED
        BY <3>4, <4>2, <4>3
    <3>5. c \in new
      BY <3>4, Zenon DEF RecordDelay
    <3>. QED
      BY <3>5, Zenon
  <2>. QED
    BY <2>1, <2>2, Zenon
<1>. QED
  BY <1>1, <1>2, <1>3, <1>4, Zenon

-----------------------------------------------------------------------------
(* Feedback *)

\* What the feedback is made of.
LEMMA BuildFeedbackType ==
  ASSUME NEW c \in Int, NEW nacks, nacks \subseteq Int \X Nat,
         NEW acks, acks \subseteq Int, NEW room
  PROVE  BuildFeedback(c, nacks, acks, room) \in
           [checkpoint : Int, acks : SUBSET Int,
            loss : SUBSET [frame : Int, packet : Nat, bits : SUBSET Int]]
<1>1. \A f \in Int : LowerBits(f) \in Int
  BY DivMod, WidthAssumption DEF LowerBits
<1>2. \A f \in Int, p \in Nat, missing \in SUBSET Nat :
        LossField(f, p, missing) \in
          [frame : Int, packet : Nat, bits : SUBSET Int]
  BY <1>1 DEF LossField
<1>3. LossFields(c, nacks, room) \subseteq
        [frame : Int, packet : Nat, bits : SUBSET Int]
  <2>. DEFINE live == {n \in nacks : n[1] > c}
              missing(f) == {n[2] : n \in {m \in live : m[1] = f}}
              starts == UNION {{<<f, p>> : p \in FieldStarts(missing(f))} :
                                 f \in {n[1] : n \in live}}
  <2>1. \A f : missing(f) \in SUBSET Nat
    BY Zenon
  <2>2. \A f : FieldStarts(missing(f)) \subseteq missing(f)
    BY Zenon DEF FieldStarts
  <2>3. ASSUME NEW s \in starts
        PROVE  s \in Int \X Nat
    <3>1. PICK f \in {n[1] : n \in live} :
            s \in {<<f, p>> : p \in FieldStarts(missing(f))}
      BY Zenon
    <3>2. f \in Int
      BY Zenon
    <3>3. PICK p \in FieldStarts(missing(f)) : s = <<f, p>>
      BY <3>1, Zenon
    <3>4. p \in missing(f)
      BY <2>2, Zenon
    <3>5. p \in Nat
      BY <2>1, <3>4, Zenon
    <3>. QED
      BY <3>2, <3>3, <3>5, Zenon
  <2>4. \A s \in starts : s[1] \in Int /\ s[2] \in Nat
    BY <2>3, Zenon
  <2>5. \A s \in starts : LossField(s[1], s[2], missing(s[1])) \in
          [frame : Int, packet : Nat, bits : SUBSET Int]
    BY <1>2, <2>1, <2>4, Zenon
  <2>6. ASSUME NEW field \in LossFields(c, nacks, room)
        PROVE  \E s \in starts : field = LossField(s[1], s[2], missing(s[1]))
    BY <2>6, Zenon DEF LossFields
  <2>. HIDE DEF starts, missing
  <2>. QED
    BY <2>5, <2>6, Zenon
<1>4. \A r : AckFields(c, acks, r) \subseteq Int
  BY DEF AckFields
<1>. QED
  BY <1>1, <1>3, <1>4, Zenon DEF BuildFeedback

\* What is put on the wire.
LEMMA TransmitType ==
  ASSUME NEW M, NEW net \in Seq(M), NEW m \in M, Len(net) <= RtcpInTransit
  PROVE  /\ Transmit(net, m) \in Seq(M)
         /\ Len(Transmit(net, m)) <= RtcpInTransit
BY RtcpInTransitAssumption DEF Transmit

\* SendRtcp() sends a well-formed packet and schedules the next one.
LEMMA SendRtcpType ==
  ASSUME TypeOK, SendRtcp, checkpoint' \in Int, latestExpected' \in Int,
         queue' \in [Slots -> PendingFrame], playoutDelay' \in Nat,
         pli' \in BOOLEAN
  PROVE  /\ rtcpNet' \in Seq(RtcpMessage) /\ Len(rtcpNet') <= RtcpInTransit
         /\ rtcpAlarm' \in {kNever, kRtcpReportInterval, kNackFeedbackInterval}
<1>1. PICK packet_nacks \in {PacketNacks'}, frame_acks \in {FrameAcks'} :
        /\ rtcpNet' = Transmit(rtcpNet, RtcpPacket(packet_nacks, frame_acks)')
        /\ rtcpAlarm' = RtcpInterval(MovedFrom(packet_nacks))
  BY Zenon DEF SendRtcp
<1>2. frame_acks \subseteq Int
  BY DEF FrameAcks
<1>3. \A e \in PendingFrame : MissingPackets(e) \subseteq Nat
  BY DEF MissingPackets, PendingFrame, kAllPacketsLost
<1>4. packet_nacks \subseteq Int \X Nat
  <2>1. \A f \in (checkpoint' + 1) .. latestExpected' :
          f \in Int /\ MissingPackets(Entry(queue', f)) \subseteq Nat
    BY <1>3, SlotType DEF Entry
  <2>2. ASSUME NEW n \in packet_nacks
        PROVE  \E f \in (checkpoint' + 1) .. latestExpected' :
                 n \in {f} \X MissingPackets(Entry(queue', f))
    <3>1. packet_nacks =
            UNION {{f} \X MissingPackets(Entry(queue', f)) :
                     f \in ((checkpoint' + 1) .. latestExpected') \ FrameAcks'}
      BY <1>1, Zenon DEF PacketNacks, Entry, MissingPackets, Slot
    <3>. QED
      BY <3>1, Zenon
  <2>. QED
    BY <2>1, <2>2, Zenon
<1>5. RtcpPacket(packet_nacks, frame_acks)' \in RtcpMessage
  BY <1>2, <1>4, BuildFeedbackType, Zenon DEF RtcpPacket, RtcpMessage
<1>. QED
  BY <1>1, <1>5, TransmitType, Zenon DEF TypeOK, RtcpInterval
-----------------------------------------------------------------------------
(* Steps that leave the queue and the frame pointers alone *)

\* A step that leaves the frames and the queue alone.
LEMMA QuietStep ==
  ASSUME IInv, TypeOK', ready' => lastConsumed < checkpoint,
         UNCHANGED <<lastConsumed, checkpoint, latestExpected, queue,
                     delayChanges>>
  PROVE  IInv'
<1>1. FrameOrder' /\ QueueOwnership' /\ Active' = Active
  BY Zenon DEF IInv, FrameOrder, QueueOwnership, Active, Entry
<1>2. CheckpointExact' /\ PlayoutReportable'
  BY Zenon DEF IInv, CheckpointExact, PlayoutReportable, Entry, IsComplete
<1>3. ReadyConsumable' /\ DelayResolvable'
  BY Zenon DEF IInv, ReadyConsumable, DelayResolvable, Active, Entry
<1>. QED
  BY <1>1, <1>2, <1>3, Zenon DEF IInv

-----------------------------------------------------------------------------
(* Steps that take a packet *)

\* An entry of the extended queue belongs to its frame; the entry of a frame
\* that was not expected before is empty.
LEMMA ExpectedEntry ==
  ASSUME IInv, NEW f \in Int, ~IsIgnored(f),
         NEW g \in (lastConsumed + 1) .. LastExpected(f)
  PROVE  LET e == Entry(Expect(queue, f), g)
         IN  /\ e \in PendingFrame
             /\ e.id = g
             /\ e.capture \in {null, g}
             /\ 0 \in e.chunks => e.capture = g
             /\ g > latestExpected => ~IsComplete(e) /\ e.capture = null
             /\ g <= latestExpected => e = Entry(queue, g)
<1>. DEFINE e == Entry(Expect(queue, f), g)
<1>0. /\ TypeOK /\ FrameOrder /\ QueueOwnership /\ ReadyConsumable
      /\ g \in Int /\ lastConsumed < g /\ g <= LastExpected(f)
      /\ latestExpected \in Int /\ lastConsumed \in Int
  BY ExpectBounds DEF IInv, TypeOK
<1>1. e \in PendingFrame
  BY <1>0, ExpectType, SlotType, Zenon DEF Entry
<1>2. CASE g <= latestExpected
  <2>1. g \in Active
    BY <1>0, <1>2 DEF Active
  <2>2. e = Entry(queue, g)
    BY <1>0, <1>2, ExpectWindow, ExpectBounds, QueueSizeAssumption
  <2>3. ~(g > latestExpected)
    BY <1>0, <1>2
  <2>. HIDE DEF e
  <2>. QED
    BY <1>0, <1>1, <2>1, <2>2, <2>3, Zenon DEF QueueOwnership, ReadyConsumable, e
<1>3. CASE g > latestExpected
  <2>0. g \in (latestExpected + 1) .. LastExpected(f)
    BY <1>0, <1>3, ExpectBounds, SMTT(60)
  <2>1. /\ e = [Entry(queue, g) EXCEPT !.id = g, !.capture = null]
        /\ Entry(queue, g).count = 0 /\ Entry(queue, g).chunks = {}
    BY <1>0, <2>0, ExpectNew, Zenon
  <2>2. Entry(queue, g) \in PendingFrame
    BY <1>0, SlotType, Zenon DEF Entry, TypeOK
  <2>3. e.id = g /\ e.capture = null /\ e.count = 0 /\ e.chunks = {}
    BY <2>1, <2>2, Zenon DEF PendingFrame
  <2>4. ~IsComplete(e)
    BY <2>3 DEF IsComplete
  <2>5. ~(g <= latestExpected)
    BY <1>0, <1>3
  <2>. HIDE DEF e
  <2>. QED
    BY <1>1, <2>3, <2>4, <2>5, Zenon DEF e
<1>. QED
  BY <1>0, <1>2, <1>3

\* The queue after a packet of frame f, whose entry has become e.
LEMMA PacketStep ==
  ASSUME IInv, NEW f \in Int, ~IsIgnored(f),
         NEW e \in PendingFrame, e.id = f, e.capture \in {null, f},
         0 \in e.chunks => e.capture = f,
         lastConsumed' = lastConsumed,
         latestExpected' = LastExpected(f),
         queue' = [Expect(queue, f) EXCEPT ![Slot(f)] = e]
  PROVE  /\ queue' \in [Slots -> PendingFrame]
         /\ Entry(queue', f) = e
         /\ \A g \in Active' :
              g # f => Entry(queue', g) = Entry(Expect(queue, f), g)
         /\ QueueOwnership'
         /\ PlayoutReportable'
         /\ \A g \in Active' : /\ Entry(queue', g).capture \in {null, g}
                               /\ 0 \in Entry(queue', g).chunks
                                    => Entry(queue', g).capture = g
<1>. DEFINE q == Expect(queue, f)
<1>0. /\ TypeOK /\ FrameOrder /\ QueueOwnership /\ PlayoutReportable
      /\ latestExpected \in Int /\ lastConsumed \in Int
      /\ LastExpected(f) \in Int /\ latestExpected <= LastExpected(f)
      /\ LastExpected(f) <= lastConsumed + kMaxUnackedFrames
      /\ lastConsumed < f /\ f <= LastExpected(f)
      /\ lastConsumed <= latestExpected
      /\ kMaxUnackedFrames \in Nat
      /\ Slot(f) \in Slots
  BY ExpectBounds, SlotType, QueueSizeAssumption DEF IInv, TypeOK, FrameOrder
<1>1. q \in [Slots -> PendingFrame]
  BY <1>0, ExpectType, Zenon
<1>. HIDE DEF q
<1>2. queue' = [q EXCEPT ![Slot(f)] = e]
  BY Zenon DEF q
<1>3. queue' \in [Slots -> PendingFrame] /\ Entry(queue', f) = e
  BY <1>0, <1>1, <1>2, Zenon DEF Entry
<1>4. \A g \in Int : (lastConsumed < g /\ g <= LastExpected(f)) <=> g \in Active'
  BY <1>0 DEF Active
<1>5. ASSUME NEW g \in Int, g # f, g <= LastExpected(f),
             LastExpected(f) - kMaxUnackedFrames < g
      PROVE  Entry(queue', g) = Entry(q, g)
  <2>1. Slot(g) # Slot(f)
    BY <1>0, <1>5, SlotInjective
  <2>2. Slot(g) \in Slots
    BY SlotType, Zenon
  <2>. QED
    BY <1>1, <1>2, <2>1, <2>2, Zenon DEF Entry
<1>6. ASSUME NEW g \in Active', g # f
      PROVE  Entry(queue', g) = Entry(q, g)
  <2>1. g \in Int /\ lastConsumed < g /\ g <= LastExpected(f)
    BY <1>0 DEF Active
  <2>2. LastExpected(f) - kMaxUnackedFrames < g
    BY <1>0, <2>1
  <2>. QED
    BY <1>5, <1>6, <2>1, <2>2, Zenon
<1>7. ASSUME NEW g \in Active'
      PROVE  /\ Entry(queue', g).id = g
             /\ Entry(queue', g).capture \in {null, g}
             /\ 0 \in Entry(queue', g).chunks => Entry(queue', g).capture = g
  <2>1. g \in (lastConsumed + 1) .. LastExpected(f)
    BY <1>0, Zenon DEF Active
  <2>2. CASE g = f
    BY <1>3, <2>2, Zenon
  <2>3. CASE g # f
    BY <1>6, <2>1, <2>3, ExpectedEntry, ZenonT(60) DEF q
  <2>. QED
    BY <2>2, <2>3, Zenon
<1>8. QueueOwnership'
  <2>1. ASSUME NEW s \in Slots, \A g \in Active' : Slot(g) # s
        PROVE  queue'[s].id = null /\ queue'[s].count = 0 /\ queue'[s].chunks = {}
    <3>1. s # Slot(f)
      BY <1>0, <1>4, <2>1, Zenon
    <3>2. queue'[s] = q[s]
      BY <1>1, <1>2, <3>1, Zenon
    <3>3. \A g \in (latestExpected + 1) .. LastExpected(f) : Slot(g) # s
      BY <1>0, <1>4, <2>1
    <3>4. q[s] = queue[s]
      BY <1>0, <3>3, ExpectOld, Zenon DEF q
    <3>5. s \notin {Slot(g) : g \in Active}
      BY <1>0, <1>4, <2>1 DEF Active
    <3>. QED
      BY <1>0, <3>2, <3>4, <3>5, Zenon DEF QueueOwnership
  <2>2. \A s \in Slots \ {Slot(g) : g \in Active'} :
          queue'[s].id = null /\ queue'[s].count = 0 /\ queue'[s].chunks = {}
    BY <2>1, Zenon
  <2>3. \A g \in Active' : Entry(queue', g).id = g
    BY <1>7, Zenon
  <2>4. Slots' = Slots /\ \A g : Slot(g)' = Slot(g)
    BY Zenon DEF Slots, Slot
  <2>. QED
    BY <2>2, <2>3, <2>4, Zenon DEF QueueOwnership, Entry, Slot
<1>9. PlayoutReportable'
  <2>1. ASSUME NEW g \in (LastExpected(f) - kMaxUnackedFrames + 1) .. lastConsumed,
               g >= first
        PROVE  Entry(queue', g).capture = g
    <3>1. g \in Int /\ g # f /\ g <= LastExpected(f)
          /\ LastExpected(f) - kMaxUnackedFrames < g /\ g <= latestExpected
      BY <1>0
    <3>2. Entry(queue', g) = Entry(q, g)
      BY <1>5, <3>1, Zenon
    <3>3. Entry(q, g) = Entry(queue, g)
      BY <1>0, <3>1, ExpectWindow DEF q
    <3>4. g \in (latestExpected - kMaxUnackedFrames + 1) .. lastConsumed
      BY <1>0
    <3>. QED
      BY <1>0, <2>1, <3>2, <3>3, <3>4, Zenon DEF PlayoutReportable
  <2>. QED
    BY <2>1, Zenon DEF PlayoutReportable, Entry, Slot
<1>. QED
  BY <1>3, <1>6, <1>7, <1>8, <1>9, Zenon DEF q
\* Frames that were in the queue keep the change that is on record for them.
LEMMA DelaysKept ==
  ASSUME IInv, NEW f \in Int, ~IsIgnored(f),
         lastConsumed' = lastConsumed,
         latestExpected' = LastExpected(f),
         \A g \in Active' :
           g # f => Entry(queue', g) = Entry(Expect(queue, f), g),
         f <= latestExpected /\ Entry(queue, f).capture = f
           => Entry(queue', f).capture = f,
         NEW c \in delayChanges
  PROVE  \/ c[1] <= lastConsumed'
         \/ c[1] \in Active' /\ Entry(queue', c[1]).capture = c[1]
<1>1. CASE c[1] <= lastConsumed
  BY <1>1, Zenon
<1>2. CASE c[1] \in Active /\ Entry(queue, c[1]).capture = c[1]
  <2>1. /\ c[1] \in Int /\ lastConsumed < c[1] /\ c[1] <= latestExpected
        /\ lastConsumed \in Int /\ latestExpected \in Int
        /\ LastExpected(f) \in Int /\ latestExpected <= LastExpected(f)
    BY <1>2, ExpectBounds DEF Active, IInv, TypeOK
  <2>2. /\ c[1] \in (lastConsumed + 1) .. LastExpected(f)
        /\ c[1] \in Active'
    BY <2>1 DEF Active
  <2>3. Entry(Expect(queue, f), c[1]) = Entry(queue, c[1])
    BY <2>1, <2>2, ExpectedEntry, Zenon
  <2>4. CASE c[1] = f
    BY <1>2, <2>1, <2>2, <2>4, Zenon
  <2>5. CASE c[1] # f
    BY <1>2, <2>2, <2>3, <2>5, Zenon
  <2>. QED
    BY <2>4, <2>5, Zenon
<1>. QED
  BY <1>1, <1>2, Zenon DEF IInv, DelayResolvable

\* A change can only be recorded once for a frame.
LEMMA DelayIsNew ==
  ASSUME IInv, NEW f \in Int, ~IsIgnored(f),
         Entry(Expect(queue, f), f).capture = null
  PROVE  \A c \in delayChanges : c[1] # f
<1>1. SUFFICES ASSUME NEW c \in delayChanges, c[1] = f
               PROVE  FALSE
  BY Zenon
<1>2. f \in (lastConsumed + 1) .. LastExpected(f) /\ f > lastConsumed
  BY ExpectBounds DEF IInv, TypeOK
<1>3. f \in Active /\ Entry(queue, f).capture = f
  BY <1>1, <1>2, SMTT(60) DEF IInv, DelayResolvable, TypeOK
<1>4. Entry(Expect(queue, f), f) = Entry(queue, f)
  BY <1>2, <1>3, ExpectedEntry, SMTT(60) DEF Active, IInv, TypeOK
<1>. QED
  BY <1>3, <1>4, NullAssumption, Zenon

\* The checkpoint is exact when no frame right after it has been completed.
LEMMA CheckpointStays ==
  ASSUME IInv, NEW f \in Int, ~IsIgnored(f),
         lastConsumed' = lastConsumed,
         checkpoint' = checkpoint,
         latestExpected' = LastExpected(f),
         \A g \in Active' :
           g # f => Entry(queue', g) = Entry(Expect(queue, f), g),
         f = checkpoint + 1 => ~IsComplete(Entry(queue', f))
  PROVE  CheckpointExact'
<1>0. /\ lastConsumed \in Int /\ checkpoint \in Int /\ latestExpected \in Int
      /\ lastConsumed <= checkpoint /\ checkpoint <= latestExpected
      /\ checkpoint < f /\ f <= LastExpected(f)
      /\ LastExpected(f) \in Int /\ latestExpected <= LastExpected(f)
  BY ExpectBounds DEF IInv, TypeOK, FrameOrder
<1>1. ASSUME NEW g \in (lastConsumed + 1) .. checkpoint
      PROVE  IsComplete(Entry(queue', g))
  <2>1. g \in Active' /\ g # f /\ g <= latestExpected
        /\ g \in (lastConsumed + 1) .. LastExpected(f)
    BY <1>0 DEF Active
  <2>2. Entry(queue', g) = Entry(queue, g)
    BY <2>1, ExpectedEntry, Zenon
  <2>. QED
    BY <2>2, Zenon DEF IInv, CheckpointExact
<1>2. ASSUME checkpoint < LastExpected(f)
      PROVE  ~IsComplete(Entry(queue', checkpoint + 1))
  <2>. DEFINE g == checkpoint + 1
  <2>1. g \in Active' /\ g \in (lastConsumed + 1) .. LastExpected(f) /\ g \in Int
    BY <1>0, <1>2 DEF Active
  <2>2. CASE g = f
    BY <2>2, Zenon
  <2>3. CASE g # f /\ g <= latestExpected
    <3>1. Entry(queue', g) = Entry(queue, g)
      BY <2>1, <2>3, ExpectedEntry, Zenon
    <3>2. checkpoint < latestExpected
      BY <1>0, <2>3
    <3>. QED
      BY <3>1, <3>2, Zenon DEF IInv, CheckpointExact
  <2>4. CASE g # f /\ g > latestExpected
    <3>1. ~IsComplete(Entry(Expect(queue, f), g))
      BY <2>1, <2>4, ExpectedEntry, Zenon
    <3>. QED
      BY <2>1, <2>4, <3>1, Zenon
  <2>. QED
    BY <1>0, <2>1, <2>2, <2>3, <2>4
<1>. QED
  BY <1>1, <1>2, Zenon DEF CheckpointExact, Entry, IsComplete, Slot

\* OnReceivedRtpPacket() of a packet that is dropped.
LEMMA DropPacketInv ==
  ASSUME IInv, NEW f \in Int, NEW packet, DropPacket(f, packet),
         highestRtp' \in Int,
         UNCHANGED <<lastConsumed, senderReport, consumer, ready>>
  PROVE  IInv'
<1>. DEFINE e == Entry(Expect(queue, f), f)
<1>0. /\ ~IsIgnored(f)
      /\ latestExpected' = LastExpected(f)
      /\ queue' = Expect(queue, f)
      /\ UNCHANGED <<checkpoint, lastKeyReceived, delayChanges, pli,
                     playoutDelay, consumptionAlarm, rtcpAlarm, rtcpNet>>
  BY Zenon DEF DropPacket
<1>1. /\ TypeOK /\ FrameOrder /\ QueueOwnership /\ ReadyConsumable
      /\ DelayResolvable
      /\ f \in (checkpoint + 1) .. LastExpected(f)
      /\ f \in (lastConsumed + 1) .. LastExpected(f)
      /\ LastExpected(f) \in Int /\ latestExpected <= LastExpected(f)
      /\ LastExpected(f) <= lastConsumed + kMaxUnackedFrames
  BY <1>0, ExpectBounds, Zenon DEF IInv
<1>2. Expect(queue, f) \in [Slots -> PendingFrame] /\ Slot(f) \in Slots
  BY <1>0, <1>1, ExpectType, SlotType, Zenon
<1>3. queue' = [Expect(queue, f) EXCEPT ![Slot(f)] = e]
  BY <1>0, <1>2, Zenon DEF Entry
<1>4. /\ e \in PendingFrame /\ e.id = f /\ e.capture \in {null, f}
      /\ 0 \in e.chunks => e.capture = f
      /\ f > latestExpected => ~IsComplete(e)
      /\ f <= latestExpected => e = Entry(queue, f)
  BY <1>0, <1>1, ExpectedEntry, Zenon
<1>5. /\ queue' \in [Slots -> PendingFrame]
      /\ Entry(queue', f) = e
      /\ \A g \in Active' :
           g # f => Entry(queue', g) = Entry(Expect(queue, f), g)
      /\ QueueOwnership'
      /\ PlayoutReportable'
      /\ \A g \in Active' : /\ Entry(queue', g).capture \in {null, g}
                            /\ 0 \in Entry(queue', g).chunks
                                 => Entry(queue', g).capture = g
  BY <1>0, <1>3, <1>4, PacketStep, ZenonT(60)
<1>6. TypeOK'
  BY <1>0, <1>1, <1>5, Zenon DEF TypeOK, Slots
<1>7. FrameOrder'
  BY <1>0, <1>1, SMTT(60) DEF TypeOK, FrameOrder
<1>8. CheckpointExact'
  <2>1. f = checkpoint + 1 => ~IsComplete(e)
    <3>1. SUFFICES ASSUME f = checkpoint + 1, f <= latestExpected
                   PROVE  ~IsComplete(e)
      BY <1>1, <1>4, SMTT(60) DEF TypeOK
    <3>2. e = Entry(queue, checkpoint + 1)
      BY <1>4, <3>1, Zenon
    <3>3. checkpoint < latestExpected
      BY <1>1, <3>1 DEF TypeOK
    <3>. QED
      BY <3>2, <3>3, ZenonT(60) DEF IInv, CheckpointExact
  <2>. QED
    BY <1>0, <1>5, <2>1, CheckpointStays, Zenon
<1>9. ReadyConsumable'
  BY <1>0, <1>1, <1>5, Zenon DEF ReadyConsumable, Entry, Slot
<1>10. DelayResolvable'
  <2>1. ASSUME NEW c \in delayChanges
        PROVE  \/ c[1] <= lastConsumed'
               \/ c[1] \in Active' /\ Entry(queue', c[1]).capture = c[1]
    BY <1>0, <1>4, <1>5, DelaysKept, Zenon
  <2>. QED
    BY <1>0, <1>1, <2>1, Zenon DEF DelayResolvable, Entry, Slot
<1>. QED
  BY <1>5, <1>6, <1>7, <1>8, <1>9, <1>10, Zenon DEF IInv
\* The entry of frame f once a packet has been collected.
Timed(before, packet) == packet.packet_id = 0 /\ before.capture = null
Collected(before, packet, f) ==
  [Collect(before, packet) EXCEPT
     !.capture = IF Timed(before, packet) THEN f ELSE @]

\* It is timed if it has the first packet.
LEMMA CollectedEntry ==
  ASSUME NEW f \in Int, NEW packet \in RtpPacket, NEW before \in PendingFrame,
         before.id = f, before.capture \in {null, f},
         0 \in before.chunks => before.capture = f
  PROVE  LET e == Collected(before, packet, f)
         IN  /\ e \in PendingFrame /\ e.id = f /\ e.capture \in {null, f}
             /\ 0 \in e.chunks => e.capture = f
             /\ before.capture = f => e.capture = f
             /\ Timed(before, packet) => e.capture = f
             /\ before.chunks \subseteq e.chunks
<1>. DEFINE c == Collect(before, packet)
            timed == Timed(before, packet)
            e == Collected(before, packet, f)
<1>1. /\ packet.max_packet_id \in Nat /\ packet.packet_id \in Nat
      /\ packet.dependency \in Dependencies
  BY Zenon DEF RtpPacket
<1>2. /\ c \in PendingFrame /\ c.id = f /\ c.capture = before.capture
      /\ c.chunks = before.chunks \cup {packet.packet_id}
  <2>. DEFINE count == packet.max_packet_id + 1
              chunks == before.chunks \cup {packet.packet_id}
              dependency == IF packet.packet_id = 0 /\ 0 \notin before.chunks
                            THEN packet.dependency ELSE before.dependency
  <2>1. /\ count \in Nat /\ chunks \in SUBSET Nat
        /\ dependency \in Dependencies
    BY <1>1 DEF PendingFrame
  <2>2. c = [before EXCEPT !.count = count, !.chunks = chunks,
                           !.dependency = dependency]
    BY Zenon DEF Collect
  <2>. HIDE DEF c, count, chunks, dependency
  <2>3. /\ c \in PendingFrame /\ c.id = f /\ c.capture = before.capture
        /\ c.chunks = chunks
    BY <2>1, <2>2, Zenon DEF PendingFrame
  <2>. QED
    BY <2>3, Zenon DEF chunks
<1>. HIDE DEF c
<1>. HIDE DEF timed
<1>3. e = [c EXCEPT !.capture = IF timed THEN f ELSE c.capture]
  BY Zenon DEF Collected, c, timed
<1>. HIDE DEF e
<1>4. /\ e.id = f /\ e.chunks = c.chunks
      /\ e.capture = IF timed THEN f ELSE before.capture
      /\ e \in PendingFrame
  BY <1>2, <1>3, Zenon DEF PendingFrame
<1>5. /\ e \in PendingFrame /\ e.id = f /\ e.capture \in {null, f}
      /\ 0 \in e.chunks => e.capture = f
      /\ before.capture = f => e.capture = f
      /\ timed => e.capture = f
      /\ before.chunks \subseteq e.chunks
  BY <1>2, <1>4, Zenon DEF timed, Timed
<1>. QED
  BY <1>5, Zenon DEF timed, e

\* The delay at a new checkpoint can always be resolved.
LEMMA CheckpointResolvable ==
  ASSUME lastConsumed' \in Int, checkpoint' \in Int,
         delayChanges' \in SUBSET (Int \X Nat), FrameOrder', DelayResolvable'
  PROVE  ResolveDelay(delayChanges', checkpoint') \in Nat
<1>1. leader <= checkpoint' /\ lastConsumed' <= checkpoint'
  BY DEF FrameOrder, leader
<1>2. PICK c \in delayChanges' :
        c[1] <= leader \/ c[1] <= lastConsumed' - kMaxUnackedFrames + 1
  BY Zenon DEF DelayResolvable, leader
<1>3. c[1] \in Int /\ c[1] <= checkpoint'
  BY <1>1, <1>2, QueueSizeAssumption, SMTT(60) DEF leader
<1>. QED
  BY <1>1, <1>3, ResolveDelayType, Zenon DEF Resolvable
\* A frame right after the checkpoint has been completed: the checkpoint moves
\* to it and on, over the complete frames that follow.
LEMMA CheckpointMoves ==
  ASSUME IInv, NEW f \in Int, ~IsIgnored(f),
         f = checkpoint + 1,
         lastConsumed' = lastConsumed,
         latestExpected' = LastExpected(f),
         \A g \in Active' :
           g # f => Entry(queue', g) = Entry(Expect(queue, f), g),
         IsComplete(Entry(queue', f)),
         checkpoint' = CheckpointAfter(queue', f, latestExpected')
  PROVE  /\ checkpoint' \in Int /\ f <= checkpoint'
         /\ checkpoint' <= latestExpected'
         /\ CheckpointExact'
<1>0. /\ lastConsumed \in Int /\ checkpoint \in Int /\ latestExpected \in Int
      /\ lastConsumed <= checkpoint /\ checkpoint <= latestExpected
      /\ f <= latestExpected' /\ latestExpected' \in Int
      /\ latestExpected <= latestExpected'
  BY ExpectBounds DEF IInv, TypeOK, FrameOrder
<1>1. /\ checkpoint' \in Int /\ f <= checkpoint' /\ checkpoint' <= latestExpected'
      /\ \A g \in (f + 1) .. checkpoint' : IsComplete(Entry(queue', g))
      /\ checkpoint' < latestExpected' =>
           ~IsComplete(Entry(queue', checkpoint' + 1))
  BY <1>0, CheckpointAfterFacts, Zenon
<1>2. ASSUME NEW g \in (lastConsumed + 1) .. checkpoint'
      PROVE  IsComplete(Entry(queue', g))
  <2>1. CASE g <= checkpoint
    <3>1. g \in Active' /\ g # f /\ g <= latestExpected
          /\ g \in (lastConsumed + 1) .. LastExpected(f)
          /\ g \in (lastConsumed + 1) .. checkpoint
      BY <1>0, <2>1, SMTT(60) DEF Active
    <3>2. Entry(queue', g) = Entry(queue, g)
      BY <3>1, ExpectedEntry, Zenon
    <3>. QED
      BY <3>1, <3>2, Zenon DEF IInv, CheckpointExact
  <2>2. CASE g = f
    BY <2>2, Zenon
  <2>3. CASE g > f
    <3>1. g \in (f + 1) .. checkpoint'
      BY <1>0, <1>1, <2>3
    <3>. QED
      BY <1>1, <3>1, Zenon
  <2>. QED
    BY <1>0, <1>1, <2>1, <2>2, <2>3
<1>. QED
  BY <1>1, <1>2, Zenon DEF CheckpointExact, Entry, IsComplete, Slot

\* OnReceivedRtpPacket() of a packet that is collected.
LEMMA CollectPacketInv ==
  ASSUME IInv, NEW f \in Int, NEW packet \in RtpPacket, CollectPacket(f, packet),
         highestRtp' \in Int,
         UNCHANGED <<lastConsumed, senderReport, consumer, ready>>
  PROVE  IInv'
<1>. DEFINE before == Entry(Expect(queue, f), f)
            timed == Timed(before, packet)
            e == Collected(before, packet, f)
<1>0. /\ ~IsIgnored(f)
      /\ latestExpected' = LastExpected(f)
      /\ queue' = [Expect(queue, f) EXCEPT ![Slot(f)] = e]
      /\ delayChanges' = IF timed /\ packet.new_playout_delay > 0
                         THEN RecordDelay(f, packet.new_playout_delay)
                         ELSE delayChanges
      /\ consumptionAlarm' = (\/ consumptionAlarm
                              \/ timed
                              \/ IsComplete(Entry(queue', f)))
      /\ WaitForMorePackets(f) \/ FrameCompleted(f)
  BY Zenon DEF CollectPacket, Collected, Timed
<1>1. /\ TypeOK /\ FrameOrder /\ QueueOwnership /\ ReadyConsumable
      /\ DelayResolvable
      /\ f \in (checkpoint + 1) .. LastExpected(f)
      /\ f \in (lastConsumed + 1) .. LastExpected(f)
      /\ LastExpected(f) \in Int /\ latestExpected <= LastExpected(f)
      /\ LastExpected(f) <= lastConsumed + kMaxUnackedFrames
      /\ packet.new_playout_delay \in Nat
  BY <1>0, ExpectBounds, Zenon DEF IInv, RtpPacket
<1>2. /\ before \in PendingFrame /\ before.id = f /\ before.capture \in {null, f}
      /\ 0 \in before.chunks => before.capture = f
      /\ f <= latestExpected => before = Entry(queue, f)
  BY <1>0, <1>1, ExpectedEntry, ZenonT(60)
<1>3. /\ e \in PendingFrame /\ e.id = f /\ e.capture \in {null, f}
      /\ 0 \in e.chunks => e.capture = f
      /\ before.capture = f => e.capture = f
      /\ timed => e.capture = f
  <2>. HIDE DEF before
  <2>1. /\ before \in PendingFrame /\ before.id = f
        /\ before.capture \in {null, f}
        /\ 0 \in before.chunks => before.capture = f
    BY <1>2, Zenon
  <2>. QED
    BY ONLY <2>1, f \in Int, packet \in RtpPacket, CollectedEntry
<1>. HIDE DEF e
<1>4. /\ queue' \in [Slots -> PendingFrame]
      /\ Entry(queue', f) = e
      /\ \A g \in Active' :
           g # f => Entry(queue', g) = Entry(Expect(queue, f), g)
      /\ QueueOwnership'
      /\ PlayoutReportable'
      /\ \A g \in Active' : /\ Entry(queue', g).capture \in {null, g}
                            /\ 0 \in Entry(queue', g).chunks
                                 => Entry(queue', g).capture = g
  BY <1>0, <1>3, PacketStep, Zenon
<1>5. /\ delayChanges' \subseteq
             delayChanges \cup {<<f, packet.new_playout_delay>>}
      /\ delayChanges' # delayChanges => e.capture = f
      /\ delayChanges' \in SUBSET (Int \X Nat)
      /\ \E c \in delayChanges' :
           c[1] <= leader \/ c[1] <= lastConsumed - kMaxUnackedFrames + 1
      /\ \A c, d \in delayChanges' : c[1] = d[1] => c = d
  <2>1. CASE timed /\ packet.new_playout_delay > 0
    <3>1. \A c \in delayChanges : c[1] # f
      BY <1>0, <2>1, DelayIsNew, Zenon DEF Timed
    <3>2. delayChanges' = RecordDelay(f, packet.new_playout_delay)
      BY <1>0, <2>1, Zenon
    <3>3. e.capture = f
      BY <1>3, <2>1, Zenon
    <3>. DEFINE delay == packet.new_playout_delay
    <3>4. delay \in Nat
      BY <1>1, Zenon
    <3>. HIDE DEF e, timed, delay
    <3>5. /\ RecordDelay(f, delay) \subseteq delayChanges \cup {<<f, delay>>}
          /\ RecordDelay(f, delay) \in SUBSET (Int \X Nat)
          /\ \E c \in RecordDelay(f, delay) :
               c[1] <= leader \/ c[1] <= lastConsumed - kMaxUnackedFrames + 1
          /\ \A c, d \in RecordDelay(f, delay) : c[1] = d[1] => c = d
      BY <1>1, <3>1, <3>4, RecordDelayFacts, Zenon
    <3>6. delayChanges' = RecordDelay(f, delay)
      BY <3>2, Zenon DEF delay
    <3>. QED
      BY <3>3, <3>5, <3>6, Zenon DEF delay
  <2>2. CASE ~(timed /\ packet.new_playout_delay > 0)
    BY <1>0, <1>1, <2>2, Zenon DEF DelayResolvable, TypeOK
  <2>. QED
    BY <2>1, <2>2, Zenon
<1>6. DelayResolvable'
  <2>1. ASSUME NEW c \in delayChanges'
        PROVE  \/ c[1] <= lastConsumed'
               \/ c[1] \in Active' /\ Entry(queue', c[1]).capture = c[1]
    <3>1. CASE c \in delayChanges
      BY <1>0, <1>2, <1>3, <1>4, <3>1, DelaysKept, Zenon
    <3>2. CASE c \notin delayChanges
      <4>1. c[1] = f /\ e.capture = f
        BY <1>5, <3>2
      <4>2. f \in Active'
        BY <1>0, <1>1, Zenon DEF Active
      <4>. QED
        BY <1>4, <4>1, <4>2, Zenon
    <3>. QED
      BY <3>1, <3>2, Zenon
  <2>. QED
    BY <1>5, <2>1, Zenon DEF DelayResolvable, Entry, Slot, leader
<1>7. consumptionAlarm' \in BOOLEAN
  BY <1>0, <1>1, Zenon DEF IsComplete, TypeOK
<1>8. ASSUME UNCHANGED <<checkpoint, playoutDelay, rtcpAlarm, rtcpNet>>,
             lastKeyReceived' \in Int \cup {null}, pli' \in BOOLEAN,
             f = checkpoint + 1 => ~IsComplete(Entry(queue', f))
      PROVE  IInv'
  <2>1. TypeOK'
    BY <1>0, <1>1, <1>4, <1>5, <1>7, <1>8, Zenon DEF TypeOK, Slots
  <2>2. FrameOrder'
    BY <1>0, <1>1, <1>8, SMTT(60) DEF TypeOK, FrameOrder
  <2>3. CheckpointExact'
    BY <1>0, <1>4, <1>8, CheckpointStays, Zenon
  <2>4. ReadyConsumable'
    BY <1>0, <1>1, <1>4, <1>8, Zenon DEF ReadyConsumable, Entry, Slot
  <2>. QED
    BY <1>4, <1>6, <2>1, <2>2, <2>3, <2>4, ZenonT(60) DEF IInv
<1>9. CASE WaitForMorePackets(f)
  <2>1. /\ UNCHANGED <<checkpoint, playoutDelay, rtcpAlarm, rtcpNet>>
        /\ UNCHANGED <<lastKeyReceived, pli>>
        /\ ~IsComplete(Entry(queue', f))
    BY <1>9, Zenon DEF WaitForMorePackets
  <2>. QED
    BY <1>1, <1>8, <2>1, Zenon DEF TypeOK
<1>10. CASE FrameCompleted(f)
  <2>1. /\ IsComplete(Entry(queue', f))
        /\ lastKeyReceived' \in Int \cup {null} /\ pli' \in BOOLEAN
    BY <1>1, <1>10, Zenon DEF FrameCompleted, TypeOK
  <2>2. CASE f # checkpoint + 1
    <3>1. UNCHANGED <<checkpoint, playoutDelay, rtcpAlarm, rtcpNet>>
      BY <1>10, <2>2, Zenon DEF FrameCompleted
    <3>. QED
      BY <1>8, <2>1, <2>2, <3>1, Zenon
  <2>3. CASE f = checkpoint + 1
    <3>1. /\ checkpoint' = CheckpointAfter(queue', f, latestExpected')
          /\ playoutDelay' = ResolveDelay(delayChanges', checkpoint')
          /\ SendRtcp
      BY <1>10, <2>3, Zenon DEF FrameCompleted, AdvanceCheckpoint
    <3>2. /\ checkpoint' \in Int /\ f <= checkpoint'
          /\ checkpoint' <= latestExpected'
          /\ CheckpointExact'
      BY <1>0, <1>4, <2>1, <2>3, <3>1, CheckpointMoves, ZenonT(60)
    <3>3. FrameOrder'
      BY <1>0, <1>1, <2>3, <3>2, SMTT(60) DEF FrameOrder, TypeOK
    <3>4. playoutDelay' \in Nat
      BY <1>1, <1>5, <1>6, <3>1, <3>2, <3>3, CheckpointResolvable, Zenon
         DEF TypeOK
    <3>5. /\ rtcpNet' \in Seq(RtcpMessage) /\ Len(rtcpNet') <= RtcpInTransit
          /\ rtcpAlarm' \in {kNever, kRtcpReportInterval, kNackFeedbackInterval}
      BY <1>0, <1>1, <1>4, <2>1, <3>1, <3>2, <3>4, SendRtcpType, Zenon
    <3>6. TypeOK'
      BY <1>0, <1>1, <1>4, <1>5, <1>7, <2>1, <3>2, <3>4, <3>5, ZenonT(60)
         DEF TypeOK, Slots, PendingFrame, RtcpMessage, kNever,
             kRtcpReportInterval, kNackFeedbackInterval
    <3>7. ReadyConsumable'
      <4>1. ready' => lastConsumed' < checkpoint'
        <5>1. lastConsumed \in Int /\ lastConsumed < f
          BY <1>1 DEF TypeOK
        <5>. QED
          BY <1>0, <3>2, <5>1, SMTT(60)
      <4>. QED
        BY <1>4, <4>1, Zenon DEF ReadyConsumable, Entry, Slot
    <3>. QED
      BY <1>4, <1>6, <3>2, <3>3, <3>6, <3>7, Zenon DEF IInv
  <2>. QED
    BY <2>2, <2>3, Zenon
<1>. QED
  BY <1>0, <1>9, <1>10, Zenon
-----------------------------------------------------------------------------
(* Steps that release frames to the consumer, or drop them *)

\* The queue once the frames up to n are no longer needed, all of them timed.
LEMMA ReleaseStep ==
  ASSUME IInv, NEW n \in Int, lastConsumed < n, n <= latestExpected,
         \A g \in (lastConsumed + 1) .. n : Entry(queue, g).capture = g,
         queue' = [s \in Slots |->
                     IF s \in {Slot(g) : g \in (lastConsumed + 1) .. n}
                     THEN Reset(queue[s]) ELSE queue[s]],
         lastConsumed' = n,
         UNCHANGED <<latestExpected, delayChanges>>
  PROVE  /\ queue' \in [Slots -> PendingFrame]
         /\ \A g \in Active' : g \in Active /\ Entry(queue', g) = Entry(queue, g)
         /\ QueueOwnership'
         /\ PlayoutReportable'
         /\ DelayResolvable'
         /\ \A g \in Active' : /\ Entry(queue', g).capture \in {null, g}
                               /\ 0 \in Entry(queue', g).chunks
                                    => Entry(queue', g).capture = g
<1>. DEFINE released == {Slot(g) : g \in (lastConsumed + 1) .. n}
<1>0. /\ TypeOK /\ FrameOrder /\ QueueOwnership /\ PlayoutReportable
      /\ ReadyConsumable /\ DelayResolvable
      /\ lastConsumed \in Int /\ latestExpected \in Int
      /\ latestExpected <= lastConsumed + kMaxUnackedFrames
      /\ kMaxUnackedFrames \in Nat
  BY QueueSizeAssumption, Zenon DEF IInv, TypeOK, FrameOrder
<1>1. \A s \in Slots :
        /\ queue[s] \in PendingFrame
        /\ Reset(queue[s]) \in PendingFrame
        /\ Reset(queue[s]).id = null /\ Reset(queue[s]).count = 0
        /\ Reset(queue[s]).chunks = {}
        /\ Reset(queue[s]).capture = queue[s].capture
  BY <1>0, Zenon DEF TypeOK, PendingFrame, Reset
<1>2. \A s \in Slots :
        /\ s \in released => queue'[s] = Reset(queue[s])
        /\ s \notin released => queue'[s] = queue[s]
  BY Zenon
<1>. HIDE DEF released
<1>3. queue' \in [Slots -> PendingFrame]
  BY <1>1, Zenon
<1>4. \A s \in Slots : queue'[s].capture = queue[s].capture
  BY <1>1, <1>2, Zenon
<1>5. ASSUME NEW g \in Active'
      PROVE  g \in Active /\ Entry(queue', g) = Entry(queue, g)
  <2>1. g \in Int /\ n < g /\ g <= latestExpected /\ Slot(g) \in Slots
    BY <1>0, SlotType, SMTT(60) DEF Active
  <2>2. ASSUME NEW h \in (lastConsumed + 1) .. n, Slot(h) = Slot(g)
        PROVE  FALSE
    <3>1. h \in Int /\ lastConsumed < h /\ h <= n
      BY <1>0
    <3>2. h = g
      BY <1>0, <2>1, <2>2, <3>1, SlotInjective
    <3>. QED
      BY <2>1, <3>1, <3>2, SMTT(60)
  <2>3. Slot(g) \notin released
    BY <2>2, Zenon DEF released
  <2>. QED
    BY <1>0, <1>2, <2>1, <2>3 DEF Entry, Active
<1>6. QueueOwnership'
  <2>1. \A g \in Active' : Entry(queue', g).id = g
    BY <1>0, <1>5, Zenon DEF QueueOwnership
  <2>2. ASSUME NEW s \in Slots, \A g \in Active' : Slot(g) # s
        PROVE  queue'[s].id = null /\ queue'[s].count = 0 /\ queue'[s].chunks = {}
    <3>1. CASE s \in released
      BY <1>1, <1>2, <3>1, Zenon
    <3>2. CASE s \notin released
      <4>1. ASSUME NEW g \in Active, Slot(g) = s
            PROVE  FALSE
        <5>1. g \in (lastConsumed + 1) .. n \/ g \in Active'
          BY <1>0 DEF Active
        <5>. QED
          BY <2>2, <3>2, <4>1, <5>1, Zenon DEF released
      <4>2. queue[s].id = null /\ queue[s].count = 0 /\ queue[s].chunks = {}
        BY <1>0, <4>1, Zenon DEF QueueOwnership
      <4>. QED
        BY <1>2, <3>2, <4>2, Zenon
    <3>. QED
      BY <3>1, <3>2, Zenon
  <2>3. \A s \in Slots \ {Slot(g) : g \in Active'} :
          queue'[s].id = null /\ queue'[s].count = 0 /\ queue'[s].chunks = {}
    BY <2>2, Zenon
  <2>4. Slots' = Slots /\ \A g : Slot(g)' = Slot(g)
    BY Zenon DEF Slots, Slot
  <2>. QED
    BY <2>1, <2>3, <2>4, Zenon DEF QueueOwnership, Entry, Slot
<1>7. PlayoutReportable'
  <2>1. ASSUME NEW g \in (latestExpected - kMaxUnackedFrames + 1) .. n,
               g >= first
        PROVE  Entry(queue', g).capture = g
    <3>1. g \in Int /\ Slot(g) \in Slots
      BY <1>0, SlotType
    <3>2. Entry(queue', g).capture = Entry(queue, g).capture
      BY <1>4, <3>1, Zenon DEF Entry
    <3>3. CASE g <= lastConsumed
      BY <1>0, <2>1, <3>2, <3>3, SMTT(60) DEF PlayoutReportable
    <3>4. CASE g > lastConsumed
      BY <1>0, <3>2, <3>4, SMTT(60)
    <3>. QED
      BY <1>0, <3>1, <3>3, <3>4
  <2>. QED
    BY <2>1, Zenon DEF PlayoutReportable, Entry, Slot
<1>8. DelayResolvable'
  <2>1. PICK c \in delayChanges :
          c[1] <= leader \/ c[1] <= lastConsumed - kMaxUnackedFrames + 1
    BY <1>0, Zenon DEF DelayResolvable
  <2>2. c[1] <= leader \/ c[1] <= lastConsumed' - kMaxUnackedFrames + 1
    BY <1>0, <2>1, SMTT(60) DEF TypeOK
  <2>3. ASSUME NEW d \in delayChanges
        PROVE  \/ d[1] <= lastConsumed'
               \/ d[1] \in Active' /\ Entry(queue', d[1]).capture = d[1]
    <3>1. d[1] \in Int
      BY <1>0, Zenon DEF TypeOK
    <3>2. CASE d[1] <= lastConsumed
      BY <1>0, <3>1, <3>2, SMTT(60)
    <3>3. CASE d[1] \in Active /\ Entry(queue, d[1]).capture = d[1]
      <4>1. d[1] <= n \/ d[1] \in Active'
        BY <1>0, <3>1, <3>3, SMTT(60) DEF Active
      <4>. QED
        BY <1>5, <3>3, <4>1, Zenon
    <3>. QED
      BY <1>0, <3>2, <3>3, Zenon DEF DelayResolvable
  <2>. QED
    BY <1>0, <2>1, <2>2, <2>3, Zenon DEF DelayResolvable, Entry, Slot, leader
<1>9. \A g \in Active' : /\ Entry(queue', g).capture \in {null, g}
                         /\ 0 \in Entry(queue', g).chunks
                              => Entry(queue', g).capture = g
  BY <1>0, <1>5, Zenon DEF ReadyConsumable
<1>. QED
  BY <1>3, <1>5, <1>6, <1>7, <1>8, <1>9, ZenonT(60)

\* ConsumeNextFrame() releases a frame that is timed.
LEMMA ConsumeNextFrameReleases ==
  ASSUME IInv, ConsumeNextFrame
  PROVE  /\ \A g \in (lastConsumed + 1) .. lastConsumed' : Entry(queue, g).capture = g
         /\ queue' \in [Slots -> PendingFrame]
         /\ \A g \in Active' : g \in Active /\ Entry(queue', g) = Entry(queue, g)
         /\ QueueOwnership'
         /\ PlayoutReportable'
         /\ DelayResolvable'
         /\ \A g \in Active' : /\ Entry(queue', g).capture \in {null, g}
                               /\ 0 \in Entry(queue', g).chunks
                                    => Entry(queue', g).capture = g
<1>. DEFINE n == lastConsumed + 1
<1>0. /\ TypeOK /\ FrameOrder /\ CheckpointExact /\ ReadyConsumable
      /\ lastConsumed \in Int /\ checkpoint \in Int /\ latestExpected \in Int
      /\ lastConsumed < checkpoint /\ checkpoint <= latestExpected
      /\ n \in Int /\ Slot(n) \in Slots
  BY SlotType, SMTT(60)
     DEF IInv, TypeOK, FrameOrder, ReadyConsumable, ConsumeNextFrame
<1>1. Entry(queue, n).capture = n
  <2>1. n \in (lastConsumed + 1) .. checkpoint /\ n \in Active
    BY <1>0 DEF Active
  <2>2. IsComplete(Entry(queue, n)) /\ Entry(queue, n) \in PendingFrame
    BY <1>0, <2>1, Zenon DEF CheckpointExact, Entry, TypeOK
  <2>. QED
    BY <1>0, <2>1, <2>2, CompleteHasFirst, Zenon DEF ReadyConsumable
<1>2. queue' = [s \in Slots |->
                  IF s \in {Slot(g) : g \in (lastConsumed + 1) .. n}
                  THEN Reset(queue[s]) ELSE queue[s]]
  <2>1. queue' = [queue EXCEPT ![Slot(n)] = Reset(queue[Slot(n)])]
    BY Zenon DEF ConsumeNextFrame
  <2>2. {Slot(g) : g \in (lastConsumed + 1) .. n} = {Slot(n)}
    <3>1. (lastConsumed + 1) .. n = {n}
      BY <1>0
    <3>. QED
      BY <3>1, Zenon
  <2>. QED
    BY <1>0, <2>1, <2>2, Zenon DEF TypeOK
<1>3. /\ lastConsumed' = n
      /\ UNCHANGED <<checkpoint, latestExpected, delayChanges>>
  BY Zenon DEF ConsumeNextFrame
<1>4. \A g \in (lastConsumed + 1) .. n : Entry(queue, g).capture = g
  <2>1. \A g \in (lastConsumed + 1) .. n : g = n
    BY <1>0
  <2>. QED
    BY <1>1, <2>1, Zenon
<1>5. lastConsumed < n /\ n <= latestExpected
  BY <1>0, SMTT(60)
<1>. HIDE DEF n
<1>. QED
  BY <1>0, <1>2, <1>3, <1>4, <1>5, ReleaseStep, Zenon

\* ConsumeNextFrame() keeps the invariant.
LEMMA ConsumeNextFrameInv ==
  ASSUME IInv, ConsumeNextFrame
  PROVE  IInv'
<1>. DEFINE n == lastConsumed + 1
<1>0. /\ TypeOK /\ FrameOrder /\ CheckpointExact /\ ReadyConsumable
      /\ lastConsumed \in Int /\ checkpoint \in Int /\ latestExpected \in Int
      /\ lastConsumed < checkpoint /\ checkpoint <= latestExpected
      /\ n \in Int
  BY SMTT(60) DEF IInv, TypeOK, FrameOrder, ReadyConsumable, ConsumeNextFrame
<1>3. /\ lastConsumed' = n
      /\ UNCHANGED <<checkpoint, latestExpected, delayChanges>>
  BY Zenon DEF ConsumeNextFrame
<1>. HIDE DEF n
<1>6. /\ queue' \in [Slots -> PendingFrame]
      /\ \A g \in Active' : g \in Active /\ Entry(queue', g) = Entry(queue, g)
      /\ QueueOwnership'
      /\ PlayoutReportable'
      /\ DelayResolvable'
      /\ \A g \in Active' : /\ Entry(queue', g).capture \in {null, g}
                            /\ 0 \in Entry(queue', g).chunks
                                 => Entry(queue', g).capture = g
  BY ConsumeNextFrameReleases, Zenon
<1>7. TypeOK'
  BY <1>0, <1>3, <1>6, Zenon DEF ConsumeNextFrame, TypeOK, Slots
<1>8. FrameOrder'
  BY <1>0, <1>3, QueueSizeAssumption, SMTT(60) DEF FrameOrder, leader, n
<1>9. CheckpointExact'
  <2>1. ASSUME NEW g \in (n + 1) .. checkpoint
        PROVE  IsComplete(Entry(queue', g))
    <3>1. g \in Active' /\ g \in (lastConsumed + 1) .. checkpoint
      BY <1>0, <1>3, SMTT(60) DEF Active, n
    <3>. QED
      BY <1>0, <1>6, <3>1, Zenon DEF CheckpointExact
  <2>2. ASSUME checkpoint < latestExpected
        PROVE  ~IsComplete(Entry(queue', checkpoint + 1))
    <3>1. checkpoint + 1 \in Active'
      BY <1>0, <1>3, <2>2, SMTT(60) DEF Active, n
    <3>. QED
      BY <1>0, <1>6, <2>2, <3>1, Zenon DEF CheckpointExact
  <2>. QED
    BY <1>3, <2>1, <2>2, Zenon DEF CheckpointExact, Entry, IsComplete, Slot
<1>10. ReadyConsumable'
  <2>1. ~ready'
    BY Zenon DEF ConsumeNextFrame
  <2>. QED
    BY <1>6, <2>1, Zenon DEF ReadyConsumable, Entry, Slot
<1>. QED
  BY <1>6, <1>7, <1>8, <1>9, <1>10, ZenonT(60) DEF IInv
\* AdvanceToNextFrame() found the first frame f it cannot pass, and f is ready:
\* every frame before f is timed, and if there is one then the checkpoint is
\* where the consumer is.
LEMMA ScanFacts ==
  ASSUME IInv, NEW playHead, ScanStops(playHead) # {},
         NEW f, f = Min(ScanStops(playHead)), IsReady(f)
  PROVE  /\ f \in Active
         /\ IsComplete(Entry(queue, f))
         /\ \A g \in (lastConsumed + 1) .. (f - 1) : Entry(queue, g).capture = g
         /\ f # lastConsumed + 1 => checkpoint = lastConsumed
<1>. DEFINE stops == ScanStops(playHead)
<1>0. /\ lastConsumed \in Int /\ checkpoint \in Int /\ latestExpected \in Int
      /\ lastConsumed <= checkpoint /\ checkpoint <= latestExpected
      /\ ReadyConsumable /\ CheckpointExact
  BY Zenon DEF IInv, TypeOK, FrameOrder
<1>1. /\ stops \subseteq Int
      /\ \A g \in stops : /\ lastConsumed + 1 <= g /\ g <= latestExpected
                          /\ ~IsSkippable(g, playHead)
      /\ \A g \in Active : ~IsSkippable(g, playHead) => g \in stops
  BY <1>0 DEF ScanStops, Active
<1>. HIDE DEF stops
<1>2. f \in stops /\ \A g \in stops : f <= g
  BY <1>0, <1>1, MinFacts DEF stops
<1>3. f \in Active /\ f \in Int
  BY <1>0, <1>1, <1>2, SMTT(60) DEF Active
<1>4. ASSUME NEW g \in (lastConsumed + 1) .. (f - 1)
      PROVE  g \in Active /\ ~IsReady(g) /\ Entry(queue, g).capture = g
  <2>1. g \in Active /\ g < f /\ g \in Int
    BY <1>0, <1>3 DEF Active
  <2>2. g \notin stops
    BY <1>2, <1>3, <2>1
  <2>3. IsSkippable(g, playHead)
    BY <1>1, <2>1, <2>2, Zenon
  <2>. QED
    BY <1>0, <2>1, <2>3, Zenon DEF IsSkippable, ReadyConsumable
<1>5. f # lastConsumed + 1 => checkpoint = lastConsumed
  <2>1. SUFFICES ASSUME f # lastConsumed + 1, checkpoint # lastConsumed
                 PROVE  FALSE
    BY Zenon
  <2>2. /\ lastConsumed + 1 \in (lastConsumed + 1) .. (f - 1)
        /\ lastConsumed + 1 \in (lastConsumed + 1) .. checkpoint
    BY <1>0, <1>3, <2>1 DEF Active
  <2>3. IsReady(lastConsumed + 1)
    BY <1>0, <2>2, Zenon DEF CheckpointExact, IsReady
  <2>. QED
    BY <1>4, <2>2, <2>3, Zenon
<1>. QED
  BY <1>3, <1>4, <1>5, Zenon DEF IsReady

\* DropAllFramesBefore() keeps the invariant.
LEMMA DropAllFramesBeforeInv ==
  ASSUME IInv, NEW f \in Int, f \in Active, f # lastConsumed + 1,
         IsComplete(Entry(queue, f)),
         \A g \in (lastConsumed + 1) .. (f - 1) : Entry(queue, g).capture = g,
         checkpoint = lastConsumed,
         DropAllFramesBefore(f),
         UNCHANGED <<latestExpected, lastKeyReceived, delayChanges,
                     senderReport, highestRtp, pli, consumer>>,
         consumptionAlarm' \in BOOLEAN, ready' \in BOOLEAN
  PROVE  IInv'
<1>0. /\ TypeOK /\ FrameOrder
      /\ lastConsumed \in Int /\ latestExpected \in Int
      /\ lastConsumed < f - 1 /\ f <= latestExpected /\ f - 1 <= latestExpected
      /\ f - 1 \in Int
  BY DEF IInv, TypeOK, Active
<1>1. /\ queue' = [s \in Slots |->
                     IF s \in {Slot(g) : g \in (lastConsumed + 1) .. (f - 1)}
                     THEN Reset(queue[s]) ELSE queue[s]]
      /\ lastConsumed' = f - 1
      /\ checkpoint' = CheckpointAfter(queue', f, latestExpected')
      /\ playoutDelay' = ResolveDelay(delayChanges', checkpoint')
      /\ SendRtcp
  BY Zenon DEF DropAllFramesBefore, AdvanceCheckpoint
<1>2. /\ queue' \in [Slots -> PendingFrame]
      /\ \A g \in Active' : g \in Active /\ Entry(queue', g) = Entry(queue, g)
      /\ QueueOwnership'
      /\ PlayoutReportable'
      /\ DelayResolvable'
      /\ \A g \in Active' : /\ Entry(queue', g).capture \in {null, g}
                            /\ 0 \in Entry(queue', g).chunks
                                 => Entry(queue', g).capture = g
  BY <1>0, <1>1, ReleaseStep, ZenonT(60)
<1>3. /\ checkpoint' \in Int /\ f <= checkpoint' /\ checkpoint' <= latestExpected
      /\ \A g \in (f + 1) .. checkpoint' : IsComplete(Entry(queue', g))
      /\ checkpoint' < latestExpected =>
           ~IsComplete(Entry(queue', checkpoint' + 1))
  BY <1>0, <1>1, CheckpointAfterFacts, Zenon
<1>4. IsComplete(Entry(queue', f))
  <2>1. f \in Active'
    BY <1>0, <1>1, SMTT(60) DEF Active
  <2>. QED
    BY <1>2, <2>1, Zenon
<1>5. CheckpointExact'
  <2>1. ASSUME NEW g \in f .. checkpoint'
        PROVE  IsComplete(Entry(queue', g))
    <3>1. g = f \/ g \in (f + 1) .. checkpoint'
      BY <1>0, <1>3, SMTT(60)
    <3>. QED
      BY <1>3, <1>4, <3>1, Zenon
  <2>2. lastConsumed' + 1 = f
    BY <1>1, SMTT(60)
  <2>. QED
    BY <1>3, <2>1, <2>2, Zenon DEF CheckpointExact, Entry, IsComplete, Slot
<1>6. FrameOrder'
  BY <1>0, <1>1, <1>3, QueueSizeAssumption, SMTT(60) DEF FrameOrder, leader
<1>7. playoutDelay' \in Nat
  BY <1>0, <1>1, <1>2, <1>3, <1>6, CheckpointResolvable, Zenon DEF TypeOK
<1>8. /\ rtcpNet' \in Seq(RtcpMessage) /\ Len(rtcpNet') <= RtcpInTransit
      /\ rtcpAlarm' \in {kNever, kRtcpReportInterval, kNackFeedbackInterval}
  <2>1. latestExpected' \in Int /\ pli' \in BOOLEAN
    BY <1>0, Zenon DEF TypeOK
  <2>. QED
    BY <1>0, <1>1, <1>2, <1>3, <1>7, <2>1, SendRtcpType, Zenon
<1>9. TypeOK'
  <2>1. lastConsumed' \in Int
    BY <1>0, <1>1, Zenon
  <2>. QED
    BY <1>0, <1>2, <1>3, <1>7, <1>8, <2>1, ZenonT(60)
       DEF TypeOK, Slots, PendingFrame, RtcpMessage, kNever,
           kRtcpReportInterval, kNackFeedbackInterval
<1>10. ReadyConsumable'
  <2>1. lastConsumed' < checkpoint'
    BY <1>0, <1>1, <1>3
  <2>. QED
    BY <1>2, <2>1, Zenon DEF ReadyConsumable, Entry, Slot
<1>. QED
  BY <1>2, <1>5, <1>6, <1>9, <1>10, ZenonT(60) DEF IInv

\* AdvanceToNextFrame() keeps the invariant.
LEMMA AdvanceToNextFrameInv ==
  ASSUME IInv, NEW armed \in BOOLEAN, NEW playHead,
         AdvanceToNextFrame(armed, playHead)
  PROVE  IInv'
<1>. DEFINE stops == ScanStops(playHead)
            f == Min(stops)
            nothing == UNCHANGED <<lastConsumed, checkpoint, queue,
                                   playoutDelay, rtcpAlarm, rtcpNet>>
<1>0. /\ UNCHANGED <<latestExpected, lastKeyReceived, delayChanges,
                     senderReport, highestRtp, pli, consumer>>
      /\ \/ /\ nothing /\ ready' = FALSE
            /\ consumptionAlarm' \in BOOLEAN
         \/ /\ stops # {} /\ IsReady(f)
            /\ IF f = lastConsumed + 1 THEN nothing ELSE DropAllFramesBefore(f)
            /\ ready' = TRUE
            /\ consumptionAlarm' = armed
  BY Zenon DEF AdvanceToNextFrame
<1>. HIDE DEF stops, f
<1>1. CASE /\ nothing /\ ready' = FALSE
           /\ consumptionAlarm' \in BOOLEAN
  <2>1. TypeOK'
    BY <1>0, <1>1, Zenon DEF IInv, TypeOK
  <2>. QED
    BY <1>0, <1>1, <2>1, QuietStep, Zenon
<1>2. CASE /\ stops # {} /\ IsReady(f)
           /\ IF f = lastConsumed + 1 THEN nothing ELSE DropAllFramesBefore(f)
           /\ ready' = TRUE
           /\ consumptionAlarm' = armed
  <2>1. /\ f \in Active /\ f \in Int
        /\ IsComplete(Entry(queue, f))
        /\ \A g \in (lastConsumed + 1) .. (f - 1) : Entry(queue, g).capture = g
        /\ f # lastConsumed + 1 => checkpoint = lastConsumed
    BY <1>2, ScanFacts, SMTT(60) DEF stops, f, Active
  <2>2. CASE f = lastConsumed + 1
    <3>1. TypeOK'
      BY <1>0, <1>2, <2>2, Zenon DEF IInv, TypeOK
    <3>2. lastConsumed < checkpoint
      BY <2>1, <2>2, SMTT(60)
         DEF IInv, TypeOK, FrameOrder, CheckpointExact, Active
    <3>. QED
      BY <1>0, <1>2, <2>2, <3>1, <3>2, QuietStep, Zenon
  <2>3. CASE f # lastConsumed + 1
    <3>1. DropAllFramesBefore(f) /\ ready' \in BOOLEAN
          /\ consumptionAlarm' \in BOOLEAN
      BY <1>2, <2>3, Zenon
    <3>. QED
      BY <1>0, <2>1, <2>3, <3>1, DropAllFramesBeforeInv, Zenon
  <2>. QED
    BY <2>2, <2>3, Zenon
<1>. QED
  BY <1>0, <1>1, <1>2, Zenon
-----------------------------------------------------------------------------
(* The theorems *)

\* The first state.
LEMMA InitInv ==
  ASSUME AloneInit
  PROVE  IInv
<1>0. ReceiverInit /\ rtcpNet = <<>>
  BY Zenon DEF AloneInit
<1>1. IdleEntry \in PendingFrame
  BY Zenon DEF IdleEntry, PendingFrame, Dependencies, kDependent
<1>2. TypeOK
  <2>1. rtcpNet \in Seq(RtcpMessage) /\ Len(rtcpNet) <= RtcpInTransit
    BY <1>0, RtcpInTransitAssumption
  <2>2. queue \in [Slots -> PendingFrame]
    BY <1>0, <1>1, Zenon DEF ReceiverInit
  <2>3. delayChanges \in SUBSET (Int \X Nat) /\ playoutDelay \in Nat
    BY <1>0, InitialDelayAssumption DEF ReceiverInit, leader
  <2>4. /\ lastConsumed \in Int /\ checkpoint \in Int /\ latestExpected \in Int
        /\ highestRtp \in Int
    BY <1>0 DEF ReceiverInit, leader, first
  <2>5. /\ senderReport \in BOOLEAN /\ pli \in BOOLEAN /\ consumer \in BOOLEAN
        /\ consumptionAlarm \in BOOLEAN /\ ready \in BOOLEAN
        /\ lastKeyReceived \in Int \cup {null}
        /\ rtcpAlarm \in {kNever, kRtcpReportInterval, kNackFeedbackInterval}
    BY <1>0, Zenon DEF ReceiverInit
  <2>. QED
    BY <2>1, <2>2, <2>3, <2>4, <2>5, Zenon DEF TypeOK
<1>3. Active = {} /\ \A s \in Slots : queue[s] = IdleEntry
  BY <1>0 DEF Active, ReceiverInit, leader
<1>4. FrameOrder
  BY <1>0, QueueSizeAssumption, SMTT(60) DEF FrameOrder, ReceiverInit, leader
<1>5. QueueOwnership
  BY <1>3, SMTT(60) DEF QueueOwnership, IdleEntry
<1>6. CheckpointExact /\ PlayoutReportable /\ ReadyConsumable
  BY <1>0, <1>3, QueueSizeAssumption, SMTT(60)
     DEF CheckpointExact, PlayoutReportable, ReadyConsumable, ReceiverInit,
         leader, first
<1>7. DelayResolvable
  BY <1>0 DEF DelayResolvable, ReceiverInit, leader
<1>. QED
  BY <1>2, <1>4, <1>5, <1>6, <1>7, Zenon DEF IInv

\* What an RTP packet is expanded to.
LEMMA ExpandType ==
  ASSUME NEW value \in Int, NEW x \in Int
  PROVE  Expand(value, x) \in Int
<1>1. Width \in Nat \ {0} /\ MaxDistanceForExpansion \in Int
  BY WidthAssumption DEF MaxDistanceForExpansion
<1>2. \A v \in Int : v % Width \in Int
  BY <1>1, DivMod
<1>. QED
  BY <1>1, <1>2 DEF Expand, ExpandLessThanOrEqual

\* OnReceivedRtpPacket() keeps the invariant.
LEMMA OnReceivedRtpPacketInv ==
  ASSUME IInv, NEW packet \in RtpPacket, OnReceivedRtpPacket(packet)
  PROVE  IInv'
<1>1. PICK f \in {Expand(highestRtp, packet.frame_id)} :
        /\ highestRtp' = IF f > highestRtp THEN f ELSE highestRtp
        /\ UNCHANGED <<lastConsumed, senderReport, consumer, ready>>
        /\ \/ IgnorePacket(f)
           \/ DropPacket(f, packet)
           \/ CollectPacket(f, packet)
  BY Zenon DEF OnReceivedRtpPacket
<1>2. packet.frame_id \in Int
  BY WidthAssumption DEF RtpPacket
<1>3. f \in Int
  BY <1>2, ExpandType, Zenon DEF IInv, TypeOK
<1>4. highestRtp' \in Int
  BY <1>1, <1>3, Zenon DEF IInv, TypeOK
<1>5. CASE IgnorePacket(f)
  <2>1. TypeOK'
    BY <1>1, <1>4, <1>5, Zenon DEF IInv, TypeOK, IgnorePacket
  <2>2. ready' => lastConsumed < checkpoint
    BY <1>1, Zenon DEF IInv, ReadyConsumable
  <2>. QED
    BY <1>1, <1>5, <2>1, <2>2, QuietStep, Zenon DEF IgnorePacket
<1>6. CASE DropPacket(f, packet)
  BY <1>1, <1>3, <1>4, <1>6, DropPacketInv, Zenon
<1>7. CASE CollectPacket(f, packet)
  BY <1>1, <1>3, <1>4, <1>7, CollectPacketInv, Zenon
<1>. QED
  BY <1>1, <1>5, <1>6, <1>7, Zenon

\* The steps that only send feedback.
LEMMA FeedbackOnlyInv ==
  ASSUME IInv, SendRtcp, pli' \in BOOLEAN, senderReport' \in BOOLEAN,
         UNCHANGED <<lastConsumed, checkpoint, latestExpected, lastKeyReceived,
                     queue, delayChanges, highestRtp, playoutDelay, consumer,
                     consumptionAlarm, ready>>
  PROVE  IInv'
<1>1. /\ rtcpNet' \in Seq(RtcpMessage) /\ Len(rtcpNet') <= RtcpInTransit
      /\ rtcpAlarm' \in {kNever, kRtcpReportInterval, kNackFeedbackInterval}
  BY SendRtcpType, Zenon DEF IInv, TypeOK
<1>2. TypeOK'
  BY <1>1, SMTT(60)
  DEF IInv, TypeOK, Slots, PendingFrame, RtcpMessage, kNever,
      kRtcpReportInterval, kNackFeedbackInterval
<1>3. ready' => lastConsumed < checkpoint
  BY Zenon DEF IInv, ReadyConsumable
<1>. QED
  BY <1>2, <1>3, QuietStep, Zenon

\* Every step keeps the invariant.
LEMMA NextInv ==
  ASSUME IInv, [AloneNext]_receiverVars
  PROVE  IInv'
<1>0. TypeOK /\ ReadyConsumable
  BY Zenon DEF IInv
<1>1. ASSUME NEW packet \in Packets, OnReceivedRtpPacket(packet)
      PROVE  IInv'
  BY <1>1, PacketsAssumption, OnReceivedRtpPacketInv, Zenon
<1>2. CASE OnReceivedSenderReport
  BY <1>0, <1>2, FeedbackOnlyInv, Zenon DEF OnReceivedSenderReport, TypeOK
<1>3. CASE SendScheduledRtcp
  BY <1>0, <1>3, FeedbackOnlyInv, Zenon DEF SendScheduledRtcp, TypeOK
<1>4. CASE RequestKeyFrame
  BY <1>0, <1>4, FeedbackOnlyInv, Zenon DEF RequestKeyFrame, TypeOK
<1>5. ASSUME NEW isSet \in BOOLEAN, SetConsumer(isSet)
      PROVE  IInv'
  <2>1. TypeOK' /\ (ready' => lastConsumed < checkpoint)
    BY <1>0, <1>5, Zenon DEF SetConsumer, TypeOK, ReadyConsumable
  <2>. QED
    BY <1>5, <2>1, QuietStep, Zenon DEF SetConsumer
<1>6. ASSUME NEW playHead, PollNextFrame(playHead)
      PROVE  IInv'
  BY <1>0, <1>6, AdvanceToNextFrameInv, Zenon DEF PollNextFrame, TypeOK
<1>7. ASSUME NEW playHead, CheckFrameReady(playHead)
      PROVE  IInv'
  BY <1>7, AdvanceToNextFrameInv, Zenon DEF CheckFrameReady
<1>8. CASE CheckWithoutConsumer
  <2>1. TypeOK' /\ (ready' => lastConsumed < checkpoint)
    BY <1>0, <1>8, Zenon DEF CheckWithoutConsumer, TypeOK, ReadyConsumable
  <2>. QED
    BY <1>8, <2>1, QuietStep, Zenon DEF CheckWithoutConsumer
<1>9. CASE ConsumeNextFrame
  BY <1>9, ConsumeNextFrameInv, Zenon
<1>10. CASE UNCHANGED receiverVars
  <2>1. TypeOK' /\ (ready' => lastConsumed < checkpoint)
    BY <1>0, <1>10, Zenon DEF receiverVars, TypeOK, ReadyConsumable
  <2>. QED
    BY <1>10, <2>1, QuietStep, Zenon DEF receiverVars
<1>. QED
  BY <1>1, <1>2, <1>3, <1>4, <1>5, <1>6, <1>7, <1>8, <1>9, <1>10, Zenon
  DEF AloneNext

\* IInv holds whatever packets the Receiver is given, in whatever order, and
\* whenever its client and its alarms run.
THEOREM ReceiverInvariant == AloneSpec => []IInv
<1>1. AloneInit => IInv
  BY InitInv, Zenon
<1>2. IInv /\ [AloneNext]_receiverVars => IInv'
  BY NextInv, Zenon
<1>. QED
  BY <1>1, <1>2, PTL DEF AloneSpec

\* The members of the Receiver keep their types (receiver.h), and every RTCP
\* packet it builds is well-formed.
THEOREM ReceiverTypes == AloneSpec => []TypeOK
<1>1. IInv => TypeOK
  BY Zenon DEF IInv
<1>. QED
  BY <1>1, ReceiverInvariant, PTL

\* latest_frame_expected_, the checkpoint and last_frame_consumed_ never pass
\* each other, and the queue is never asked to hold more than it has room for.
THEOREM FramePointersOrdered == AloneSpec => []FrameOrder
<1>1. IInv => FrameOrder
  BY Zenon DEF IInv
<1>. QED
  BY <1>1, ReceiverInvariant, PTL

\* No two frames ever share an entry of pending_frames_, and the entries that no
\* frame uses are reset.
THEOREM QueueSlotsOwned == AloneSpec => []QueueOwnership
<1>1. IInv => QueueOwnership
  BY Zenon DEF IInv
<1>. QED
  BY <1>1, ReceiverInvariant, PTL

\* The checkpoint that is reported to the Sender covers complete frames only and
\* all the complete frames there are without a gap.
THEOREM CheckpointIsExact == AloneSpec => []CheckpointExact
<1>1. IInv => CheckpointExact
  BY Zenon DEF IInv
<1>. QED
  BY <1>1, ReceiverInvariant, PTL

\* ReportPlayoutEvent() finds the capture time of the frame it is asked for.
THEOREM PlayoutEventsReportable == AloneSpec => []PlayoutReportable
<1>1. IInv => PlayoutReportable
  BY Zenon DEF IInv
<1>. QED
  BY <1>1, ReceiverInvariant, PTL

\* The checks of ConsumeNextFrame() and DropAllFramesBefore() never fail.
THEOREM ReadyFramesConsumable == AloneSpec => []ReadyConsumable
<1>1. IInv => ReadyConsumable
  BY Zenon DEF IInv
<1>. QED
  BY <1>1, ReceiverInvariant, PTL

\* ResolveTargetPlayoutDelay() always finds the change that is in effect.
THEOREM DelaysResolvable == AloneSpec => []DelayResolvable
<1>1. IInv => DelayResolvable
  BY Zenon DEF IInv
<1>. QED
  BY <1>1, ReceiverInvariant, PTL

\* All of it at once: what the operations of the Receiver take for granted holds
\* for every queue size, every ID width and every stream of packets.
THEOREM ReceiverConsistent == AloneSpec => []QueueConsistent
<1>1. IInv => QueueConsistent
  BY Zenon DEF IInv, QueueConsistent
<1>. QED
  BY <1>1, ReceiverInvariant, PTL

-----------------------------------------------------------------------------
(* What no step does *)

\* The action of NothingForgotten.
Kept ==
  /\ lastConsumed' >= lastConsumed
  /\ checkpoint' >= checkpoint
  /\ latestExpected' >= latestExpected
  /\ \A f \in (lastConsumed' + 1) .. latestExpected :
       Entry(queue, f).chunks \subseteq Entry(queue', f).chunks

\* Frame f is ready, and the scan of AdvanceToNextFrame() will get to it.
Reachable(f) ==
  /\ IsReady(f)
  /\ \A g \in (lastConsumed + 1) .. (f - 1) :
       ~IsReady(g) /\ Entry(queue, g).capture # null

Awake ==
  consumer /\ ~ready /\ (\E f \in Active : Reachable(f)) => consumptionAlarm

-----------------------------------------------------------------------------
(* A packet *)

\* What a packet that is not ignored does to the entries of the queue.  If it
\* does not set consumption_alarm_, then it makes no difference to the scan.
PacketEffect ==
  /\ lastConsumed' = lastConsumed
  /\ latestExpected' \in Int /\ latestExpected <= latestExpected'
  /\ checkpoint' >= checkpoint
  /\ \A g \in Active : Entry(queue, g).chunks \subseteq Entry(queue', g).chunks
  /\ consumptionAlarm => consumptionAlarm'
  /\ ~consumptionAlarm' =>
       /\ \A g \in Active : /\ IsReady(g)' <=> IsReady(g)
                            /\ Entry(queue', g).capture = Entry(queue, g).capture
       /\ \A g \in Active' \ Active : ~IsComplete(Entry(queue', g))

\* What a dropped packet changes.
LEMMA DropPacketEffect ==
  ASSUME IInv, NEW f \in Int, NEW packet, DropPacket(f, packet),
         lastConsumed' = lastConsumed
  PROVE  PacketEffect
<1>0. /\ ~IsIgnored(f) /\ latestExpected' = LastExpected(f)
      /\ queue' = Expect(queue, f)
      /\ UNCHANGED <<checkpoint, consumptionAlarm>>
  BY Zenon DEF DropPacket
<1>1. /\ TypeOK /\ FrameOrder
      /\ lastConsumed \in Int /\ latestExpected \in Int /\ checkpoint \in Int
      /\ LastExpected(f) \in Int /\ latestExpected <= LastExpected(f)
  BY <1>0, ExpectBounds, Zenon DEF IInv, TypeOK
<1>2. ASSUME NEW g \in Active
      PROVE  Entry(queue', g) = Entry(queue, g)
  <2>1. g \in (lastConsumed + 1) .. LastExpected(f) /\ g <= latestExpected
    BY <1>1 DEF Active
  <2>. QED
    BY <1>0, <2>1, ExpectedEntry, Zenon
<1>3. ASSUME NEW g \in Active' \ Active
      PROVE  ~IsComplete(Entry(queue', g))
  <2>1. g \in (lastConsumed + 1) .. LastExpected(f) /\ g > latestExpected
    BY <1>0, <1>1 DEF Active
  <2>. QED
    BY <1>0, <2>1, ExpectedEntry, Zenon
<1>4. \A g \in Active : IsReady(g)' <=> IsReady(g)
  BY <1>2, Zenon DEF IsReady, Entry, Slot, IsComplete
<1>5. checkpoint' >= checkpoint
  BY <1>0, <1>1
<1>. QED
  BY <1>0, <1>1, <1>2, <1>3, <1>4, <1>5, Zenon DEF PacketEffect

\* What a collected packet changes.
LEMMA CollectPacketEffect ==
  ASSUME IInv, NEW f \in Int, NEW packet \in RtpPacket, CollectPacket(f, packet),
         lastConsumed' = lastConsumed
  PROVE  PacketEffect
<1>. DEFINE before == Entry(Expect(queue, f), f)
            timed == Timed(before, packet)
            e == Collected(before, packet, f)
<1>0. /\ ~IsIgnored(f) /\ ~IsComplete(before)
      /\ latestExpected' = LastExpected(f)
      /\ queue' = [Expect(queue, f) EXCEPT ![Slot(f)] = e]
      /\ consumptionAlarm' = (\/ consumptionAlarm
                              \/ timed
                              \/ IsComplete(Entry(queue', f)))
      /\ WaitForMorePackets(f) \/ FrameCompleted(f)
  BY Zenon DEF CollectPacket, Collected, Timed
<1>1. /\ TypeOK /\ FrameOrder
      /\ lastConsumed \in Int /\ latestExpected \in Int /\ checkpoint \in Int
      /\ f \in (checkpoint + 1) .. LastExpected(f)
      /\ f \in (lastConsumed + 1) .. LastExpected(f)
      /\ LastExpected(f) \in Int /\ latestExpected <= LastExpected(f)
  BY <1>0, ExpectBounds, Zenon DEF IInv, TypeOK
<1>2. /\ before \in PendingFrame /\ before.id = f /\ before.capture \in {null, f}
      /\ 0 \in before.chunks => before.capture = f
      /\ f <= latestExpected => before = Entry(queue, f)
  BY <1>0, <1>1, ExpectedEntry, ZenonT(60)
<1>. HIDE DEF before
<1>3. /\ e \in PendingFrame /\ e.id = f /\ e.capture \in {null, f}
      /\ 0 \in e.chunks => e.capture = f
      /\ before.chunks \subseteq e.chunks
  BY <1>2, CollectedEntry, SMTT(30)
<1>4. ~timed => e.capture = before.capture
  BY <1>2, Zenon DEF Collected, Collect, PendingFrame
<1>. HIDE DEF e, timed
<1>5. /\ Entry(queue', f) = e
      /\ \A g \in Active' :
           g # f => Entry(queue', g) = Entry(Expect(queue, f), g)
  BY <1>0, <1>3, PacketStep, Zenon
<1>6. ASSUME NEW g \in Active, g # f
      PROVE  Entry(queue', g) = Entry(queue, g)
  <2>1. /\ g \in (lastConsumed + 1) .. LastExpected(f) /\ g <= latestExpected
        /\ g \in Active'
    BY <1>0, <1>1 DEF Active
  <2>. QED
    BY <1>0, <1>5, <1>6, <2>1, ExpectedEntry, ZenonT(60)
<1>7. ASSUME f \in Active
      PROVE  before = Entry(queue, f)
  BY <1>1, <1>2, <1>7, SMTT(60) DEF Active
<1>8. \A g \in Active : Entry(queue, g).chunks \subseteq Entry(queue', g).chunks
  BY <1>3, <1>5, <1>6, <1>7, Zenon
<1>9. ASSUME ~consumptionAlarm', NEW g \in Active
      PROVE  /\ IsReady(g)' <=> IsReady(g)
             /\ Entry(queue', g).capture = Entry(queue, g).capture
  <2>1. CASE g = f
    <3>1. ~IsComplete(Entry(queue, g)) /\ ~IsComplete(Entry(queue', g))
      BY <1>0, <1>7, <1>9, <2>1, Zenon
    <3>2. ~IsReady(g) /\ ~IsReady(g)'
      BY <3>1, Zenon DEF IsReady, Entry, Slot, IsComplete
    <3>. QED
      BY <1>0, <1>4, <1>5, <1>7, <1>9, <2>1, <3>2, Zenon
  <2>2. CASE g # f
    BY <1>6, <2>2, Zenon DEF IsReady, Entry, Slot, IsComplete
  <2>. QED
    BY <2>1, <2>2, Zenon
<1>10. ASSUME ~consumptionAlarm', NEW g \in Active' \ Active
       PROVE  ~IsComplete(Entry(queue', g))
  <2>1. CASE g = f
    BY <1>0, <1>10, <2>1, Zenon
  <2>2. CASE g # f
    <3>1. g \in (lastConsumed + 1) .. LastExpected(f) /\ g > latestExpected
      BY <1>0, <1>1, <1>10, SMTT(60) DEF Active
    <3>. QED
      BY <1>0, <1>5, <1>10, <2>2, <3>1, ExpectedEntry, ZenonT(60)
  <2>. QED
    BY <2>1, <2>2, Zenon
<1>11. checkpoint' >= checkpoint
  <2>1. CASE checkpoint' = checkpoint
    BY <1>1, <2>1
  <2>2. CASE f = checkpoint + 1 /\ AdvanceCheckpoint(f)
    <3>1. checkpoint' = CheckpointAfter(queue', f, latestExpected')
      BY <2>2, Zenon DEF AdvanceCheckpoint
    <3>2. f <= latestExpected' /\ latestExpected' \in Int
      BY <1>0, <1>1
    <3>3. checkpoint' \in Int /\ f <= checkpoint'
      BY <3>1, <3>2, CheckpointAfterFacts, Zenon
    <3>. QED
      BY <1>1, <2>2, <3>3
  <2>. QED
    BY <1>0, <2>1, <2>2, Zenon DEF WaitForMorePackets, FrameCompleted
<1>. QED
  BY <1>0, <1>1, <1>8, <1>9, <1>10, <1>11, ZenonT(60) DEF PacketEffect

\* A packet step keeps what was collected, and the consumer awake.
LEMMA PacketKept ==
  ASSUME IInv, PacketEffect
  PROVE  Kept
<1>1. lastConsumed \in Int /\ latestExpected \in Int
  BY Zenon DEF IInv, TypeOK
<1>. QED
  BY <1>1 DEF PacketEffect, Kept, Active

\* A packet that completes the next frame wakes the consumer up.
LEMMA PacketAwake ==
  ASSUME IInv, Awake, PacketEffect, UNCHANGED <<consumer, ready>>
  PROVE  Awake'
<1>0. /\ lastConsumed \in Int /\ latestExpected \in Int
      /\ lastConsumed' = lastConsumed /\ latestExpected <= latestExpected'
  BY Zenon DEF IInv, TypeOK, PacketEffect
<1>1. SUFFICES ASSUME consumer, ~ready, NEW f \in Active', Reachable(f)',
                      ~consumptionAlarm'
               PROVE  FALSE
  BY Zenon DEF Awake
<1>2. f \in Active
  <2>1. IsComplete(Entry(queue', f))
    BY <1>1, Zenon DEF Reachable, IsReady, Entry, Slot, IsComplete
  <2>. QED
    BY <1>1, <2>1, Zenon DEF PacketEffect
<1>3. IsReady(f)
  BY <1>1, <1>2, Zenon DEF Reachable, PacketEffect
<1>4. ASSUME NEW g \in (lastConsumed + 1) .. (f - 1)
      PROVE  ~IsReady(g) /\ Entry(queue, g).capture # null
  <2>1. g \in Active
    BY <1>0, <1>2 DEF Active
  <2>2. ~IsReady(g)' /\ Entry(queue', g).capture # null
    BY <1>0, <1>1, Zenon DEF Reachable, Entry, Slot
  <2>. QED
    BY <1>1, <2>1, <2>2, Zenon DEF PacketEffect
<1>. QED
  BY <1>1, <1>2, <1>3, <1>4, Zenon DEF Reachable, Awake, PacketEffect

\* What a packet changes.
LEMMA OnReceivedRtpPacketEffect ==
  ASSUME IInv, NEW packet \in RtpPacket, OnReceivedRtpPacket(packet)
  PROVE  /\ UNCHANGED <<consumer, ready>>
         /\ \/ PacketEffect
            \/ UNCHANGED <<lastConsumed, checkpoint, latestExpected, queue,
                           consumptionAlarm>>
<1>1. PICK f \in {Expand(highestRtp, packet.frame_id)} :
        /\ UNCHANGED <<lastConsumed, consumer, ready>>
        /\ \/ IgnorePacket(f)
           \/ DropPacket(f, packet)
           \/ CollectPacket(f, packet)
  BY Zenon DEF OnReceivedRtpPacket
<1>2. packet.frame_id \in Int
  BY WidthAssumption DEF RtpPacket
<1>3. f \in Int
  BY <1>2, ExpandType, Zenon DEF IInv, TypeOK
<1>. QED
  BY <1>1, <1>3, DropPacketEffect, CollectPacketEffect, Zenon DEF IgnorePacket

-----------------------------------------------------------------------------
(* The scan *)

\* Frames that are given up or consumed move the frame pointers forward, and the
\* frames after them stay as they are.
LEMMA DropAllFramesBeforeKept ==
  ASSUME IInv, NEW f \in Int, f \in Active, f # lastConsumed + 1,
         \A g \in (lastConsumed + 1) .. (f - 1) : Entry(queue, g).capture = g,
         checkpoint = lastConsumed,
         DropAllFramesBefore(f),
         UNCHANGED <<latestExpected, delayChanges>>
  PROVE  Kept
<1>0. /\ lastConsumed \in Int /\ latestExpected \in Int
      /\ lastConsumed < f - 1 /\ f <= latestExpected /\ f - 1 <= latestExpected
      /\ f - 1 \in Int
  BY DEF IInv, TypeOK, Active
<1>1. /\ queue' = [s \in Slots |->
                     IF s \in {Slot(g) : g \in (lastConsumed + 1) .. (f - 1)}
                     THEN Reset(queue[s]) ELSE queue[s]]
      /\ lastConsumed' = f - 1
      /\ checkpoint' = CheckpointAfter(queue', f, latestExpected')
  BY Zenon DEF DropAllFramesBefore, AdvanceCheckpoint
<1>2. \A g \in Active' : Entry(queue', g) = Entry(queue, g)
  BY <1>0, <1>1, ReleaseStep, ZenonT(60)
<1>3. checkpoint' \in Int /\ f <= checkpoint'
  BY <1>0, <1>1, CheckpointAfterFacts, Zenon
<1>. QED
  BY <1>0, <1>1, <1>2, <1>3, SMTT(60) DEF Kept, Active

\* Skipping keeps the frames that remain as they are.
LEMMA AdvanceToNextFrameKept ==
  ASSUME IInv, NEW armed \in BOOLEAN, NEW playHead,
         AdvanceToNextFrame(armed, playHead)
  PROVE  Kept
<1>. DEFINE stops == ScanStops(playHead)
            f == Min(stops)
<1>0. /\ UNCHANGED <<latestExpected, delayChanges>>
      /\ \/ UNCHANGED <<lastConsumed, checkpoint, queue>>
         \/ /\ stops # {} /\ IsReady(f)
            /\ f # lastConsumed + 1 /\ DropAllFramesBefore(f)
  BY Zenon DEF AdvanceToNextFrame
<1>. HIDE DEF stops, f
<1>1. CASE UNCHANGED <<lastConsumed, checkpoint, queue>>
  BY <1>0, <1>1 DEF Kept, IInv, TypeOK
<1>2. CASE /\ stops # {} /\ IsReady(f)
           /\ f # lastConsumed + 1 /\ DropAllFramesBefore(f)
  <2>1. /\ f \in Active /\ f \in Int
        /\ \A g \in (lastConsumed + 1) .. (f - 1) : Entry(queue, g).capture = g
        /\ checkpoint = lastConsumed
    BY <1>2, ScanFacts, SMTT(60) DEF stops, f, Active
  <2>. QED
    BY <1>0, <1>2, <2>1, DropAllFramesBeforeKept, Zenon
<1>. QED
  BY <1>0, <1>1, <1>2, Zenon

\* A scan that reports no frame, and does not set consumption_alarm_, has come to
\* a frame that a packet has to arrive for.
LEMMA AdvanceToNextFrameAwake ==
  ASSUME IInv, NEW armed \in BOOLEAN, NEW playHead,
         AdvanceToNextFrame(armed, playHead)
  PROVE  Awake'
<1>. DEFINE stops == ScanStops(playHead)
            m == Min(stops)
<1>0. SUFFICES ASSUME ~ready', ~consumptionAlarm', NEW f \in Active', Reachable(f)'
               PROVE  FALSE
  BY Zenon DEF Awake
<1>1. /\ UNCHANGED <<lastConsumed, latestExpected, queue>>
      /\ stops # {} => ~IsReady(m) /\ Entry(queue, m).capture = null
  BY <1>0, Zenon DEF AdvanceToNextFrame
<1>2. f \in Active /\ Reachable(f)
  BY <1>0, <1>1, Zenon DEF Active, Reachable, IsReady, Entry, Slot, IsComplete
<1>3. /\ stops \subseteq Int /\ f \in Int /\ lastConsumed \in Int
      /\ \A g \in stops : lastConsumed + 1 <= g
      /\ f \in stops
  BY <1>2 DEF IInv, TypeOK, ScanStops, Active, IsSkippable, Reachable
<1>4. m \in stops /\ m <= f
  BY <1>3, MinFacts
<1>. HIDE DEF stops, m
<1>5. m \in (lastConsumed + 1) .. (f - 1)
  <2>1. m # f
    BY <1>1, <1>2, <1>3, Zenon DEF Reachable
  <2>. QED
    BY <1>3, <1>4, <2>1
<1>. QED
  BY <1>1, <1>2, <1>3, <1>5, Zenon DEF Reachable

\* Consuming keeps the frames that remain as they are.
LEMMA ConsumeNextFrameKept ==
  ASSUME IInv, ConsumeNextFrame
  PROVE  Kept
<1>. DEFINE n == lastConsumed + 1
<1>0. /\ queue' = [queue EXCEPT ![Slot(n)] = Reset(queue[Slot(n)])]
      /\ lastConsumed' = n /\ UNCHANGED <<checkpoint, latestExpected>>
      /\ lastConsumed \in Int /\ checkpoint \in Int /\ latestExpected \in Int
      /\ queue \in [Slots -> PendingFrame]
  BY Zenon DEF ConsumeNextFrame, IInv, TypeOK
<1>1. ASSUME NEW g \in (n + 1) .. latestExpected
      PROVE  Entry(queue', g) = Entry(queue, g)
  <2>1. Slot(g) # Slot(n)
    <3>1. /\ g \in Int /\ n \in Int /\ g # n
          /\ g - n < kMaxUnackedFrames /\ n - g < kMaxUnackedFrames
      BY <1>0, QueueSizeAssumption DEF IInv, FrameOrder
    <3>. QED
      BY <3>1, SlotInjective, Zenon
  <2>2. g \in Int /\ Slot(g) \in Slots
    BY <1>0, SlotType
  <2>. QED
    BY <1>0, <2>1, <2>2, Zenon DEF Entry
<1>2. /\ lastConsumed' >= lastConsumed /\ checkpoint' >= checkpoint
      /\ latestExpected' >= latestExpected
  BY <1>0
<1>3. \A g \in (lastConsumed' + 1) .. latestExpected :
        Entry(queue, g).chunks \subseteq Entry(queue', g).chunks
  <2>1. lastConsumed' = n
    BY <1>0, Zenon
  <2>. HIDE DEF n
  <2>. QED
    BY <1>1, <2>1, Zenon
<1>. QED
  BY <1>2, <1>3, Zenon DEF Kept

-----------------------------------------------------------------------------
(* The theorems *)

\* Every step keeps what there is of a frame that stays in the queue.
LEMMA NextKept ==
  ASSUME IInv, AloneNext
  PROVE  Kept
<1>0. /\ lastConsumed \in Int /\ checkpoint \in Int /\ latestExpected \in Int
      /\ consumptionAlarm \in BOOLEAN
  BY Zenon DEF IInv, TypeOK
<1>1. ASSUME UNCHANGED <<lastConsumed, checkpoint, latestExpected, queue>>
      PROVE  Kept
  BY <1>0, <1>1 DEF Kept
<1>2. ASSUME NEW packet \in Packets, OnReceivedRtpPacket(packet)
      PROVE  Kept
  BY <1>1, <1>2, PacketsAssumption, OnReceivedRtpPacketEffect, PacketKept, Zenon
<1>3. CASE OnReceivedSenderReport \/ SendScheduledRtcp \/ RequestKeyFrame
  BY <1>1, <1>3, Zenon DEF OnReceivedSenderReport, SendScheduledRtcp, RequestKeyFrame
<1>4. ASSUME NEW isSet, SetConsumer(isSet)
      PROVE  Kept
  BY <1>1, <1>4, Zenon DEF SetConsumer
<1>5. ASSUME NEW playHead, PollNextFrame(playHead) \/ CheckFrameReady(playHead)
      PROVE  Kept
  BY <1>0, <1>5, AdvanceToNextFrameKept, ZenonT(60) DEF PollNextFrame, CheckFrameReady
<1>6. CASE CheckWithoutConsumer
  BY <1>1, <1>6, Zenon DEF CheckWithoutConsumer
<1>7. CASE ConsumeNextFrame
  BY <1>7, ConsumeNextFrameKept, Zenon
<1>. QED
  BY <1>2, <1>3, <1>4, <1>5, <1>6, <1>7, Zenon DEF AloneNext

\* Every step leaves the consumer awake, or with nothing to consume.
LEMMA NextAwake ==
  ASSUME IInv, Awake, [AloneNext]_receiverVars
  PROVE  Awake'
<1>0. consumptionAlarm \in BOOLEAN
  BY Zenon DEF IInv, TypeOK
<1>1. ASSUME UNCHANGED <<lastConsumed, latestExpected, queue, consumer,
                         consumptionAlarm, ready>>
      PROVE  Awake'
  <2>1. \A f : IsReady(f)' <=> IsReady(f)
    BY <1>1, Zenon DEF IsReady, Entry, Slot, IsComplete
  <2>2. \A f : Entry(queue, f)' = Entry(queue, f)
    BY <1>1, Zenon DEF Entry, Slot
  <2>3. \A f : Reachable(f)' <=> Reachable(f)
    BY <1>1, <2>1, <2>2, Zenon DEF Reachable
  <2>4. Active' = Active
    BY <1>1, Zenon DEF Active
  <2>. QED
    BY <1>1, <2>3, <2>4, Zenon DEF Awake
<1>2. ASSUME NEW packet \in Packets, OnReceivedRtpPacket(packet)
      PROVE  Awake'
  BY <1>1, <1>2, PacketsAssumption, OnReceivedRtpPacketEffect, PacketAwake, Zenon
<1>3. CASE OnReceivedSenderReport \/ SendScheduledRtcp \/ RequestKeyFrame
  BY <1>1, <1>3, Zenon DEF OnReceivedSenderReport, SendScheduledRtcp, RequestKeyFrame
<1>4. ASSUME NEW isSet, SetConsumer(isSet)
      PROVE  Awake'
  BY <1>4, Zenon DEF SetConsumer, Awake
<1>5. ASSUME NEW playHead, PollNextFrame(playHead) \/ CheckFrameReady(playHead)
      PROVE  Awake'
  BY <1>0, <1>5, AdvanceToNextFrameAwake, ZenonT(60) DEF PollNextFrame, CheckFrameReady
<1>6. CASE CheckWithoutConsumer
  BY <1>6, Zenon DEF CheckWithoutConsumer, Awake
<1>7. CASE ConsumeNextFrame
  BY <1>7, Zenon DEF ConsumeNextFrame, Awake
<1>8. CASE UNCHANGED receiverVars
  BY <1>1, <1>8, Zenon DEF receiverVars
<1>. QED
  BY <1>2, <1>3, <1>4, <1>5, <1>6, <1>7, <1>8, Zenon DEF AloneNext

\* Whatever arrives in whatever order, last_frame_consumed_, the checkpoint and
\* latest_frame_expected_ never go back, and the collector of a frame that is
\* still in the queue keeps every packet it was given.
THEOREM ReceiverForgetsNothing == AloneSpec => NothingForgotten
<1>1. IInv /\ [AloneNext]_receiverVars => [Kept]_receiverVars
  BY NextKept, Zenon
<1>. QED
  BY <1>1, ReceiverInvariant, PTL DEF AloneSpec, NothingForgotten, Kept

\* A frame that AdvanceToNextFrame() would report now, or once the frames before
\* it are late, never waits for a consumer that nothing wakes up.
THEOREM NoWakeupIsLost == AloneSpec => []NoLostWakeup
<1>1. AloneInit => Awake
  BY Zenon DEF AloneInit, ReceiverInit, Awake
<1>2. IInv /\ Awake /\ [AloneNext]_receiverVars => Awake'
  BY NextAwake, Zenon
<1>3. IInv /\ Awake => NoLostWakeup
  <2>. DEFINE stops == ScanStops(latestExpected)
              m == Min(stops)
  <2>1. SUFFICES ASSUME IInv, Awake, consumer, ~ready, stops # {}, IsReady(m)
                 PROVE  consumptionAlarm
    BY Zenon DEF NoLostWakeup
  <2>2. /\ lastConsumed \in Int /\ latestExpected \in Int
        /\ stops \subseteq Active /\ stops \subseteq Int
        /\ \A g \in stops : lastConsumed + 1 <= g
        /\ \A g \in Active \ stops : IsSkippable(g, latestExpected)
    BY <2>1 DEF IInv, TypeOK, ScanStops, Active
  <2>3. m \in stops /\ \A g \in stops : m <= g
    BY <2>1, <2>2, MinFacts
  <2>. HIDE DEF stops, m
  <2>4. ASSUME NEW g \in (lastConsumed + 1) .. (m - 1)
        PROVE  ~IsReady(g) /\ Entry(queue, g).capture # null
    <3>1. g \in Active /\ g < m /\ g \in Int /\ m \in Int
      BY <2>2, <2>3 DEF Active
    <3>2. IsSkippable(g, latestExpected)
      BY <2>2, <2>3, <3>1
    <3>. QED
      BY <3>2, Zenon DEF IsSkippable
  <2>. QED
    BY <2>1, <2>2, <2>3, <2>4, Zenon DEF Awake, Reachable
<1>. QED
  BY <1>1, <1>2, <1>3, ReceiverInvariant, PTL DEF AloneSpec
=============================================================================
