------------------------- MODULE CastStreamingProofs ------------------------
(***************************************************************************)
(* A Sender and a Receiver that exchange packets through an unreliable      *)
(* network agree on what has arrived, whatever is lost, repeated, delayed   *)
(* or reordered, for queues, streams and frames of every size: the steps of *)
(* the Receiver keep the invariant that those of the Sender keep.  That     *)
(* they keep the Receiver's own invariant is shown in CastReceiverProofs.   *)
(***************************************************************************)
EXTENDS StreamingSenderProofs, CastReceiverProofs

-----------------------------------------------------------------------------
(* The steps of the Receiver *)

LEMMA HighestKept ==
  ASSUME HighestInv, UNCHANGED <<senderVars, latestExpected, highestRtp>>
  PROVE  HighestInv'
BY Zenon DEF HighestInv, senderVars, first

\* The steps that send feedback and leave the frames alone.
LEMMA FeedbackKeeps ==
  ASSUME SInv, SendRtcp, pli' \in BOOLEAN, pli => pli', senderReport' \in BOOLEAN,
         UNCHANGED <<lastConsumed, checkpoint, latestExpected, lastKeyReceived,
                     queue, delayChanges, highestRtp, playoutDelay, consumer,
                     consumptionAlarm, ready>>,
         UNCHANGED <<senderVars, stream, rtpNet>>
  PROVE  SInv'
<1>1. IInv'
  BY FeedbackOnlyInv, Zenon DEF SInv
<1>2. HighestInv'
  BY HighestKept, Zenon DEF SInv
<1>. QED
  BY <1>1, <1>2, QuietKeeps, Zenon

\* The steps of the Receiver other than those for packets.
LEMMA ReceiverStepKeeps ==
  /\ SInv
  /\ ReceiverStep
  => SInv'

\* The steps that send nothing and leave the frames alone.
<1>SilentKeeps.
  ASSUME SInv, consumer' \in BOOLEAN, consumptionAlarm' \in BOOLEAN,
         ready' \in BOOLEAN, ready' => lastConsumed < checkpoint,
         UNCHANGED <<lastConsumed, checkpoint, latestExpected, lastKeyReceived,
                     queue, delayChanges, senderReport, highestRtp, pli,
                     playoutDelay, rtcpAlarm, rtcpNet>>,
         UNCHANGED <<senderVars, stream, rtpNet>>
  PROVE  SInv'
  <2>. USE <1>SilentKeeps
  <2>1. IInv /\ TypeOK
    BY Zenon DEF SInv, IInv
  <2>2. TypeOK'
    BY <2>1, Zenon DEF TypeOK, Slots
  <2>3. IInv'
    BY <2>1, <2>2, QuietStep, Zenon
  <2>4. HighestInv'
    BY HighestKept, Zenon DEF SInv
  <2>. QED
    BY <2>3, <2>4, QuietKeeps, Zenon
<1>ConsumeNextFrameKeeps.
  ASSUME SInv, ConsumeNextFrame, UNCHANGED <<senderVars, stream, rtpNet>>
  PROVE  SInv'
  <2>. USE <1>ConsumeNextFrameKeeps
  <2>1. IInv /\ IInv'
    BY ConsumeNextFrameInv, Zenon DEF SInv
  <2>2. /\ UNCHANGED <<latestExpected, delayChanges, highestRtp, pli, checkpoint,
                       playoutDelay, rtcpNet>>
        /\ lastConsumed' = lastConsumed + 1
    BY Zenon DEF ConsumeNextFrame
  <2>3. lastConsumed <= lastConsumed' /\ checkpoint <= checkpoint'
    BY <2>2, Pointers
  <2>. QED
    BY <2>1, <2>2, <2>3, ConsumeNextFrameReleases, ReleaseKeeps, Zenon

\* Frames are skipped for a frame that is complete and does not depend on them.
<1>SkipKeeps.
  ASSUME SInv, NEW armed \in BOOLEAN, NEW playHead,
         AdvanceToNextFrame(armed, playHead), ScanStops(playHead) # {},
         NEW f, f = Min(ScanStops(playHead)), IsReady(f), f # lastConsumed + 1,
         DropAllFramesBefore(f), UNCHANGED <<senderVars, stream, rtpNet>>
  PROVE  SInv'
  <2>. USE <1>SkipKeeps
  <2>1. IInv /\ IInv' /\ TypeOK
    BY AdvanceToNextFrameInv, Zenon DEF SInv, IInv
  <2>2. /\ f \in Active /\ checkpoint = lastConsumed
        /\ \A g \in (lastConsumed + 1) .. (f - 1) : Entry(queue, g).capture = g
    BY <2>1, ScanFacts
  <2>3. /\ UNCHANGED <<latestExpected, delayChanges, highestRtp, pli>>
        /\ queue' = [s \in Slots |->
                       IF s \in {Slot(g) : g \in (lastConsumed + 1) .. (f - 1)}
                       THEN Reset(queue[s]) ELSE queue[s]]
        /\ lastConsumed' = f - 1
        /\ checkpoint' = CheckpointAfter(queue', f, latestExpected')
        /\ playoutDelay' = ResolveDelay(delayChanges', checkpoint')
        /\ SendRtcp
    BY Zenon DEF AdvanceToNextFrame, DropAllFramesBefore, AdvanceCheckpoint
  <2>4. /\ f \in Int /\ f - 1 \in Int /\ lastConsumed < f - 1 /\ lastConsumed < f
        /\ f <= latestExpected /\ f - 1 <= latestExpected
        /\ latestExpected \in Int /\ lastConsumed \in Int
    BY <2>2, Pointers DEF Active
  <2>5. \A g \in Active' : g \in Active /\ Entry(queue', g) = Entry(queue, g)
    BY <2>1, <2>2, <2>3, <2>4, ReleaseStep, Zenon
  <2>6. f <= checkpoint' /\ checkpoint' \in Int
    BY <2>3, <2>4, CheckpointAfterFacts, Zenon
  <2>7. lastConsumed <= lastConsumed' /\ checkpoint <= checkpoint'
    BY <2>2, <2>3, <2>4, <2>6
  <2>. QED
    BY <2>1, <2>2, <2>3, <2>5, <2>7, ReleaseKeeps, Zenon
<1>AdvanceToNextFrameKeeps.
  ASSUME SInv, NEW armed \in BOOLEAN, NEW playHead,
         AdvanceToNextFrame(armed, playHead),
         UNCHANGED <<senderVars, stream, rtpNet>>
  PROVE  SInv'
  <2>. USE <1>AdvanceToNextFrameKeeps
  <2>. DEFINE f == Min(ScanStops(playHead))
              nothing == UNCHANGED <<lastConsumed, checkpoint, queue,
                                     playoutDelay, rtcpAlarm, rtcpNet>>
  <2>0. IInv /\ IInv'
    BY AdvanceToNextFrameInv, Zenon DEF SInv
  <2>1. CASE nothing
    <3>1. UNCHANGED <<latestExpected, delayChanges, highestRtp, pli>>
      BY Zenon DEF AdvanceToNextFrame
    <3>2. HighestInv'
      BY <3>1, HighestKept, Zenon DEF SInv
    <3>. QED
      BY <2>0, <2>1, <3>1, <3>2, QuietKeeps, Zenon
  <2>2. CASE /\ ScanStops(playHead) # {} /\ IsReady(f) /\ f # lastConsumed + 1
             /\ DropAllFramesBefore(f)
    BY <2>2, <1>SkipKeeps, Zenon
  <2>. QED
    BY <2>1, <2>2, Zenon DEF AdvanceToNextFrame

<1>. SUFFICES ASSUME SInv, ReceiverStep
              PROVE  SInv'
  OBVIOUS
<1>0. /\ UNCHANGED <<senderVars, stream, rtpNet>> /\ IInv /\ TypeOK
      /\ (ready => lastConsumed < checkpoint)
      /\ pli \in BOOLEAN /\ senderReport \in BOOLEAN /\ consumer \in BOOLEAN
      /\ ready \in BOOLEAN
  BY Zenon DEF ReceiverStep, SInv, IInv, ReadyConsumable, TypeOK
<1>1. CASE SendScheduledRtcp
  BY <1>0, <1>1, FeedbackKeeps, Zenon DEF SendScheduledRtcp
<1>2. CASE RequestKeyFrame
  BY <1>0, <1>2, FeedbackKeeps, Zenon DEF RequestKeyFrame
<1>3. CASE SetConsumer(TRUE)
  BY <1>0, <1>3, <1>SilentKeeps, Zenon DEF SetConsumer
<1>4. ASSUME NEW playHead \in lastConsumed .. latestExpected, CheckFrameReady(playHead)
      PROVE  SInv'
  BY <1>0, <1>4, <1>AdvanceToNextFrameKeeps, Zenon DEF CheckFrameReady
<1>5. CASE CheckWithoutConsumer
  BY <1>0, <1>5, <1>SilentKeeps, Zenon DEF CheckWithoutConsumer
<1>6. CASE ConsumeNextFrame
  BY <1>0, <1>6, <1>ConsumeNextFrameKeeps, Zenon
<1>. QED
  BY <1>1, <1>2, <1>3, <1>4, <1>5, <1>6, Zenon DEF ReceiverStep

LEMMA DeliverSenderReportKeeps ==
  ASSUME SInv, DeliverSenderReport
  PROVE  SInv'
<1>1. pli \in BOOLEAN
  BY Zenon DEF SInv, IInv, TypeOK
<1>. QED
  BY <1>1, FeedbackKeeps, Zenon DEF DeliverSenderReport, OnReceivedSenderReport

-----------------------------------------------------------------------------
(* The packets the Receiver gets *)

\* What the Receiver may rely on for a packet that it takes for one of frame f.
Genuine(packet, f) ==
  /\ f \in first .. lastEnqueued
  /\ packet.max_packet_id + 1 = stream[f + 1].packets
  /\ packet.dependency = stream[f + 1].dependency
  /\ packet.packet_id = 0 => packet.new_playout_delay = DelayOf(f)

\* And for what it collects of the frame.
GenuineEntry(e, f) ==
  /\ e.chunks # {} => e.count = stream[f + 1].packets
  /\ 0 \in e.chunks => e.dependency = stream[f + 1].dependency

\* When the queue is extended nothing is collected.
LEMMA ExpectedGenuine ==
  ASSUME SInv, NEW f \in Int, ~IsIgnored(f),
         NEW g \in (lastConsumed + 1) .. LastExpected(f)
  PROVE  /\ g <= latestExpected
              => g \in Active /\ Entry(Expect(queue, f), g) = Entry(queue, g)
         /\ GenuineEntry(Entry(Expect(queue, f), g), g)
<1>0. /\ IInv /\ TypeOK /\ FrameOrder /\ QueueOwnership
      /\ lastConsumed \in Int /\ latestExpected \in Int
  BY Pointers, Zenon DEF SInv, IInv
<1>1. LastExpected(f) \in Int
  BY <1>0, ExpectBounds, Zenon
<1>2. g \in Int
  BY <1>0, <1>1
<1>3. CASE g <= latestExpected
  <2>1. g \in Active
    BY <1>0, <1>1, <1>3 DEF Active
  <2>2. Entry(Expect(queue, f), g) = Entry(queue, g)
    BY <1>0, <1>3, ExpectedEntry, Zenon
  <2>. QED
    BY <2>1, <2>2, ZenonT(60) DEF SInv, FramesGenuine, GenuineEntry
<1>4. CASE ~(g <= latestExpected)
  <2>1. g \in (latestExpected + 1) .. LastExpected(f)
    BY <1>0, <1>1, <1>4
  <2>2. /\ Entry(Expect(queue, f), g) =
             [Entry(queue, g) EXCEPT !.id = g, !.capture = null]
        /\ Entry(queue, g).chunks = {}
    BY <1>0, <2>1, ExpectNew, Zenon
  <2>3. Entry(queue, g) \in PendingFrame
    BY <1>0, <1>2, SlotType, Zenon DEF TypeOK, Entry
  <2>4. Entry(Expect(queue, f), g).chunks = {}
    BY ONLY <2>2, <2>3 DEF PendingFrame
  <2>. QED
    BY <1>4, <2>4, Zenon DEF GenuineEntry
<1>. QED
  BY <1>3, <1>4, Zenon

\* What remains to be shown once the queue has been extended for frame f, and its
\* entry has become e.
LEMMA PacketKeeps ==
  ASSUME SInv, IInv', UNCHANGED <<senderVars, stream, rtpNet>>,
         NEW f \in first .. lastEnqueued, ~IsIgnored(f),
         lastConsumed' = lastConsumed, latestExpected' = LastExpected(f),
         highestRtp' = IF f > highestRtp THEN f ELSE highestRtp,
         checkpoint <= checkpoint',
         NEW e, Entry(queue', f) = e, GenuineEntry(e, f),
         IsComplete(Entry(Expect(queue, f), f)) => IsComplete(e),
         \A g \in Active' :
           g # f => Entry(queue', g) = Entry(Expect(queue, f), g),
         rtcpNet' = rtcpNet \/ SendRtcp,
         pli /\ ~pli' => IsComplete(e) /\ e.dependency = kKeyFrame,
         DelayInv'
  PROVE  SInv'
<1>0. /\ IInv /\ TypeOK /\ FrameOrder /\ QueueOwnership
      /\ lastConsumed \in Int /\ checkpoint \in Int /\ latestExpected \in Int
      /\ lastEnqueued \in Int /\ highestRtp \in Int /\ lastConsumed <= checkpoint
      /\ latestExpected <= lastEnqueued /\ checkpoint' \in Int
  BY Pointers, Zenon DEF SInv, IInv, TypeOK
<1>1. f \in Int /\ first <= f /\ f <= lastEnqueued
  BY <1>0 DEF first
<1>. DEFINE last == LastExpected(f)
<1>2. /\ last \in Int /\ latestExpected <= last
      /\ f \in (checkpoint + 1) .. last /\ f \in (lastConsumed + 1) .. last
  BY <1>0, <1>1, ExpectBounds, Zenon
<1>3. last = f \/ last = latestExpected
  BY Zenon DEF LastExpected
<1>4. last <= lastEnqueued
  BY <1>0, <1>1, <1>3, Zenon
<1>5. HighestInv'
  <2>1. latestExpected <= highestRtp /\ (highestRtp <= lastEnqueued \/ highestRtp = first)
    BY Zenon DEF SInv, HighestInv
  <2>. DEFINE high == IF f > highestRtp THEN f ELSE highestRtp
  <2>2. last <= high /\ (high <= lastEnqueued \/ high = first)
    BY ONLY <1>0, <1>1, <1>3, <2>1
  <2>. HIDE DEF last
  <2>. QED
    BY <2>2, Zenon DEF HighestInv, senderVars, first, last
<1>6. Active' = (lastConsumed + 1) .. last
  BY Zenon DEF Active
<1>. HIDE DEF last
<1>7. ASSUME NEW g \in Active'
      PROVE  /\ g <= latestExpected => Entry(Expect(queue, f), g) = Entry(queue, g)
             /\ GenuineEntry(Entry(Expect(queue, f), g), g)
  BY <1>1, <1>6, ExpectedGenuine, Zenon DEF last
<1>8. ASSUME NEW g \in Int, Received(g)
      PROVE  Received(g)'
  <2>1. CASE g <= checkpoint
    <3>1. g <= checkpoint'
      BY ONLY <1>0, <2>1, checkpoint <= checkpoint', g \in Int
    <3>. QED
      BY <3>1, ReceivedNext, Zenon
  <2>2. CASE g <= latestExpected /\ IsComplete(Entry(queue, g)) /\ ~(g <= checkpoint)
    <3>1. g \in (lastConsumed + 1) .. last /\ g <= last
      BY <1>0, <1>2, <2>2
    <3>2. Entry(Expect(queue, f), g) = Entry(queue, g)
      BY <1>6, <1>7, <2>2, <3>1, Zenon
    <3>3. IsComplete(Entry(queue', g))
      BY <1>6, <2>2, <3>1, <3>2, Zenon
    <3>. QED
      BY <3>1, <3>3, ReceivedNext, ZenonT(60) DEF last
  <2>. QED
    BY <1>8, <2>1, <2>2, Zenon DEF Received
<1>9. ASSUME pli, ~pli'
      PROVE  \E g \in (checkpoint + 1) .. lastEnqueued :
               stream[g + 1].dependency = kKeyFrame
  <2>1. e \in PendingFrame
    BY <1>1, SlotType, Zenon DEF IInv, TypeOK, Entry
  <2>2. 0 \in e.chunks /\ e.dependency = kKeyFrame
    BY <1>9, <2>1, CompleteHasFirst, ZenonT(60)
  <2>3. f \in (checkpoint + 1) .. lastEnqueued
    BY <1>0, <1>1, <1>2
  <2>. QED
    BY <2>2, <2>3, Zenon DEF GenuineEntry
<1>10. ReceiverMoves
  BY <1>2, <1>4, <1>8, <1>9, Zenon DEF ReceiverMoves, last
<1>11. FramesGenuine'
  <2>1. ASSUME NEW g \in Active'
        PROVE  GenuineEntry(Entry(queue', g), g)
    <3>1. CASE g = f
      BY <3>1, Zenon
    <3>2. CASE g # f
      BY <1>7, <3>2, Zenon
    <3>. QED
      BY <3>1, <3>2, Zenon
  <2>. QED
    BY <2>1, Zenon DEF FramesGenuine, GenuineEntry, Entry, Slot
<1>. QED
  BY <1>5, <1>10, <1>11, ReceiverKeeps, ZenonT(60)

\* A packet of frame f keeps the record of the delays, if a change is recorded
\* with the first packet and only then.
LEMMA RecordedKept ==
  \A f \in first .. lastEnqueued : \A before :
    /\ SInv
    /\ UNCHANGED <<senderVars, stream>>
    /\ ~IsIgnored(f)
    /\ lastConsumed' = lastConsumed
    /\ latestExpected' = LastExpected(f)
    /\ \A g \in Active' :
         g # f => Entry(queue', g) = Entry(Expect(queue, f), g)
    /\ before = Entry(Expect(queue, f), f)
    /\ \/ /\ delayChanges' = delayChanges
          /\ Entry(queue', f).capture = f /\ DelayOf(f) > 0
               => before.capture = f
       \/ delayChanges' = RecordDelay(f, DelayOf(f)) /\ DelayOf(f) > 0
    => Recorded'

\* RecordNewTargetPlayoutDelay() prunes no change that is in effect for a frame
\* the queue may be asked about.
<1>PrunedIsSuperseded.
  ASSUME lastConsumed \in Int, delayChanges \in SUBSET (Int \X Nat),
         NEW f, NEW delay, delayChanges' = RecordDelay(f, delay),
         lastConsumed' = lastConsumed, NEW x \in Int
  PROVE  /\ Superseded(x) => Superseded(x)'
         /\ \A y : <<x, y>> \in delayChanges
                     => <<x, y>> \in delayChanges' \/ Superseded(x)'
  <2>. USE <1>PrunedIsSuperseded
  <2>. DEFINE next == lastConsumed - kMaxUnackedFrames + 1
              old == {d[1] : d \in {c \in delayChanges : c[1] <= next}}
  <2>0. /\ next \in Int /\ old \subseteq Int /\ \A y \in old : y <= next
        /\ \A c \in delayChanges : c[1] \in Int
    BY QueueSizeAssumption
  <2>. HIDE DEF next
  <2>1. ASSUME Superseded(x)
        PROVE  Superseded(x)'
    <3>1. PICK d \in delayChanges : x < d[1] /\ d[1] <= next
      BY <2>1, Zenon DEF Superseded, next
    <3>2. old # {}
      BY <3>1, Zenon
    <3>3. PICK top \in old : \A y \in old : y <= top
      BY <2>0, <3>2, IntMaximum, Zenon
    <3>4. PICK t \in delayChanges : t[1] = top /\ top <= next
      BY <3>3, Zenon
    <3>5. d[1] \in old
      BY <3>1, Zenon
    <3>6. x < t[1] /\ t[1] <= next
      BY <2>0, <3>1, <3>3, <3>4, <3>5, SMTT(60)
    <3>7. ~\E c \in delayChanges : t[1] < c[1] /\ c[1] <= next
      <4>1. SUFFICES ASSUME NEW c \in delayChanges, t[1] < c[1], c[1] <= next
                     PROVE  FALSE
        BY Zenon
      <4>2. c[1] \in old
        BY <4>1, Zenon
      <4>3. c[1] <= t[1] /\ c[1] \in Int /\ t[1] \in Int
        BY <2>0, <3>3, <3>4, <4>2, Zenon
      <4>. QED
        BY ONLY <4>1, <4>3
    <3>8. t \in delayChanges'
      BY <3>7, Zenon DEF RecordDelay, next
    <3>. QED
      BY <3>6, <3>8, Zenon DEF Superseded, next
  <2>2. ASSUME NEW y, <<x, y>> \in delayChanges, <<x, y>> \notin delayChanges'
        PROVE  Superseded(x)
    <3>1. PICK d \in delayChanges : <<x, y>>[1] < d[1] /\ d[1] <= next
      BY <2>2, Zenon DEF RecordDelay, next
    <3>2. <<x, y>>[1] = x
      OBVIOUS
    <3>. QED
      BY <3>1, <3>2, Zenon DEF Superseded, next
  <2>. QED
    BY <2>1, <2>2, Zenon

<1>. SUFFICES ASSUME SInv, UNCHANGED <<senderVars, stream>>,
                     NEW f \in first .. lastEnqueued, ~IsIgnored(f),
                     lastConsumed' = lastConsumed, latestExpected' = LastExpected(f),
                     \A g \in Active' :
                       g # f => Entry(queue', g) = Entry(Expect(queue, f), g),
                     NEW before, before = Entry(Expect(queue, f), f),
                     \/ /\ delayChanges' = delayChanges
                        /\ Entry(queue', f).capture = f /\ DelayOf(f) > 0
                             => before.capture = f
                     \/ delayChanges' = RecordDelay(f, DelayOf(f)) /\ DelayOf(f) > 0
              PROVE  Recorded'
  OBVIOUS
<1>0. /\ IInv /\ TypeOK /\ FrameOrder
      /\ lastConsumed \in Int /\ checkpoint \in Int /\ latestExpected \in Int
      /\ lastEnqueued \in Int /\ delayChanges \in SUBSET (Int \X Nat)
      /\ lastConsumed <= latestExpected
  <2>1. /\ lastConsumed \in Int /\ checkpoint \in Int /\ latestExpected \in Int
        /\ lastConsumed <= checkpoint /\ checkpoint <= latestExpected
    BY Pointers, Zenon
  <2>2. lastConsumed <= latestExpected
    BY ONLY <2>1
  <2>. QED
    BY <2>1, <2>2, Pointers, Zenon DEF SInv, IInv, TypeOK
<1>1. f \in Int /\ first <= f
  BY <1>0 DEF first
<1>. DEFINE last == LastExpected(f)
<1>2. /\ last \in Int /\ latestExpected <= last /\ f <= last
      /\ f \in (lastConsumed + 1) .. last
  <2>1. /\ last \in Int /\ latestExpected <= last
        /\ f \in (lastConsumed + 1) .. last
    BY <1>0, <1>1, ExpectBounds, Zenon
  <2>. HIDE DEF last
  <2>. QED
    BY <1>0, <2>1
<1>3. Active' = (lastConsumed + 1) .. last
  BY Zenon DEF Active
<1>. HIDE DEF last
<1>4. ASSUME NEW g \in first .. last, DelayOf(g) > 0,
             g <= lastConsumed \/ Entry(queue', g).capture = g,
             g = f => before.capture = f
      PROVE  <<g, DelayOf(g)>> \in delayChanges \/ Superseded(g)
  <2>0. g \in Int /\ first <= g /\ g <= last
    BY <1>2 DEF first
  <2>1. CASE g <= lastConsumed
    <3>1. g \in first .. latestExpected
      BY <1>0, <2>0, <2>1 DEF first
    <3>. QED
      BY <1>4, <2>1, <3>1, ZenonT(60) DEF SInv, DelayInv, Recorded
  <2>2. CASE ~(g <= lastConsumed)
    <3>1. g \in (lastConsumed + 1) .. last
      BY <1>0, <1>2, <2>0, <2>2
    <3>2. Entry(Expect(queue, f), g).capture = g
      BY <1>3, <1>4, <2>2, <3>1, Zenon
    <3>3. /\ g > latestExpected => Entry(Expect(queue, f), g).capture = null
          /\ g <= latestExpected => Entry(Expect(queue, f), g) = Entry(queue, g)
      BY <1>0, <1>1, <3>1, ExpectedEntry, Zenon DEF last
    <3>4. ~(g > latestExpected)
      BY <2>0, <3>2, <3>3, NullAssumption, Zenon
    <3>5. g \in first .. latestExpected /\ g <= latestExpected
      BY <1>0, <2>0, <3>4 DEF first
    <3>. QED
      BY <1>4, <3>2, <3>3, <3>5, Zenon DEF SInv, DelayInv, Recorded
  <2>. QED
    BY <2>1, <2>2, Zenon
<1>5. \A c \in delayChanges :
        \/ c = <<leader, InitialDelay>>
        \/ c[1] \in first .. last /\ c[2] = DelayOf(c[1]) /\ c[2] > 0
  <2>1. \A x \in first .. latestExpected : x \in first .. last
    BY <1>0, <1>2 DEF first
  <2>. QED
    BY <2>1, Zenon DEF SInv, DelayInv, Recorded
<1>6. f \in first .. last
  BY <1>1, <1>2 DEF first
<1>7. <<leader, InitialDelay>> \in delayChanges \/ Superseded(leader)
  BY Zenon DEF SInv, DelayInv, Recorded
<1>8. \A g : Entry(queue, g)' = Entry(queue', g)
  BY Zenon DEF Entry, Slot
<1>9. \A g : DelayOf(g)' = DelayOf(g)
  BY DelayKept, Zenon
<1>10. CASE /\ delayChanges' = delayChanges
            /\ Entry(queue', f).capture = f /\ DelayOf(f) > 0
                 => before.capture = f
  <2>1. \A x : Superseded(x)' <=> Superseded(x)
    BY <1>10, Zenon DEF Superseded
  <2>2. ASSUME NEW g \in first .. last, DelayOf(g) > 0,
               g <= lastConsumed \/ Entry(queue', g).capture = g
        PROVE  <<g, DelayOf(g)>> \in delayChanges \/ Superseded(g)
    <3>1. ~(f <= lastConsumed)
      BY <1>0, <1>1, <1>2
    <3>. QED
      BY <1>4, <1>10, <2>2, <3>1, Zenon
  <2>. QED
    BY <1>5, <1>7, <1>8, <1>9, <1>10, <2>1, <2>2, Zenon
       DEF Recorded, first, leader, last
<1>11. CASE delayChanges' = RecordDelay(f, DelayOf(f)) /\ DelayOf(f) > 0
  <2>1. \A x \in Int :
          /\ Superseded(x) => Superseded(x)'
          /\ \A y : <<x, y>> \in delayChanges
                      => <<x, y>> \in delayChanges' \/ Superseded(x)'
    BY <1>0, <1>11, <1>PrunedIsSuperseded, Zenon
  <2>2. ASSUME NEW g \in first .. last, DelayOf(g) > 0,
               g <= lastConsumed \/ Entry(queue', g).capture = g
        PROVE  <<g, DelayOf(g)>> \in delayChanges' \/ Superseded(g)'
    <3>1. CASE g = f
      BY <1>11, <3>1, Zenon DEF RecordDelay
    <3>2. CASE g # f
      <4>1. g \in Int
        BY <1>2 DEF first
      <4>2. <<g, DelayOf(g)>> \in delayChanges \/ Superseded(g)
        BY <1>4, <2>2, <3>2, ZenonT(60)
      <4>. QED
        BY <2>1, <4>1, <4>2, Zenon
    <3>. QED
      BY <3>1, <3>2, Zenon
  <2>3. ASSUME NEW c \in delayChanges'
        PROVE  \/ c = <<leader, InitialDelay>>
               \/ c[1] \in first .. last /\ c[2] = DelayOf(c[1]) /\ c[2] > 0
    <3>1. CASE c \in delayChanges
      BY <1>5, <3>1, Zenon
    <3>2. CASE c = <<f, DelayOf(f)>>
      <4>1. c[1] = f /\ c[2] = DelayOf(f)
        BY <3>2
      <4>. QED
        BY <1>6, <1>11, <4>1, Zenon
    <3>. QED
      BY <1>11, <3>1, <3>2, Zenon DEF RecordDelay
  <2>4. <<leader, InitialDelay>> \in delayChanges' \/ Superseded(leader)'
    <3>1. leader \in Int
      BY DEF leader
    <3>. QED
      BY <1>7, <2>1, <3>1, Zenon
  <2>. QED
    BY <1>8, <1>9, <2>2, <2>3, <2>4, Zenon DEF Recorded, first, leader, last
<1>. QED
  BY <1>10, <1>11, Zenon

\* Whatever packet arrives, and whenever.
LEMMA DeliverRtpKeeps ==
  \A f, p :
    /\ SInv
    /\ DeliverRtp(f, p)
    => SInv'

\* The Receiver expands the truncated frame ID of a packet to that of its frame:
\* the packet is neither too far ahead of the highest ID seen nor too old.
<1>PacketGenuine.
  ASSUME SInv, NEW f, NEW p, <<f, p>> \in rtpNet,
         NEW packet, packet = GeneratePacket(f, stream[f + 1], p)
  PROVE  /\ packet \in RtpPacket
         /\ Genuine(packet, f)
         /\ Expand(highestRtp, packet.frame_id) = f
  <2>. USE <1>PacketGenuine
  <2>1. /\ f \in first .. lastEnqueued
        /\ \/ f + PacketLifetime > lastEnqueued
           \/ f + kMaxUnackedFrames > lastEnqueued
        /\ p \in PacketIds(stream[f + 1])
    <3>1. <<f, p>>[1] = f /\ <<f, p>>[2] = p
      OBVIOUS
    <3>. QED
      BY <3>1, Zenon DEF SInv, RtpInv
  <2>. DEFINE frame == stream[f + 1]
  <2>2. /\ frame.packets \in Nat \ {0} /\ frame.packets <= kMaxAllowedFramePacketId
        /\ frame.dependency \in Dependencies /\ frame.new_playout_delay \in Nat
    BY <2>1, StreamType, Zenon DEF SInv
  <2>. HIDE DEF frame
  <2>3. p \in 0 .. (frame.packets - 1)
    BY <2>1, Zenon DEF PacketIds, frame
  <2>4. /\ packet.frame_id = LowerBits(f) /\ packet.packet_id = p
        /\ packet.max_packet_id = frame.packets - 1
        /\ packet.dependency = frame.dependency
        /\ packet.new_playout_delay = IF p = 0 THEN frame.new_playout_delay ELSE 0
    BY Zenon DEF GeneratePacket, frame
  <2>5. f \in Int /\ first <= f /\ f <= lastEnqueued
    BY <2>1, Pointers DEF first
  <2>6. packet \in RtpPacket
    <3>1. LowerBits(f) \in 0 .. (Width - 1)
      BY <2>5, DivMod, WidthAssumption DEF LowerBits
    <3>2. /\ p \in Nat /\ frame.packets - 1 \in Nat /\ p <= frame.packets - 1
          /\ frame.packets - 1 # kAllPacketsLost
      BY <2>2, <2>3 DEF kMaxAllowedFramePacketId, kAllPacketsLost
    <3>3. (IF p = 0 THEN frame.new_playout_delay ELSE 0) \in Nat
      BY <2>2
    <3>4. packet \in [frame_id : 0 .. (Width - 1), packet_id : Nat, max_packet_id : Nat,
                      dependency : Dependencies, new_playout_delay : Nat]
      BY <2>2, <3>1, <3>2, <3>3, Zenon DEF GeneratePacket, frame
    <3>. QED
      BY <2>4, <3>2, <3>4, Zenon DEF RtpPacket
  <2>7. Genuine(packet, f)
    <3>1. frame.packets - 1 + 1 = frame.packets
      BY <2>2
    <3>. QED
      BY <2>1, <2>4, <3>1, Zenon DEF Genuine, DelayOf, frame
  <2>8. Expand(highestRtp, LowerBits(f)) = f
    <3>. DEFINE d == MaxDistanceForExpansion
    <3>1. /\ d \in Nat /\ d + d < Width /\ Width \in Nat
          /\ kMaxUnackedFrames <= d /\ kMaxUnackedFrames \in Nat
          /\ PacketLifetime \in Nat /\ PacketLifetime + d <= Width
      BY Sizes, Zenon
    <3>. HIDE DEF d
    <3>2. /\ highestRtp \in Int /\ lastEnqueued \in Int
          /\ lastEnqueued <= highestRtp + kMaxUnackedFrames
      <4>1. /\ lastEnqueued \in Int /\ senderCheckpoint \in Int /\ checkpoint \in Int
            /\ latestExpected \in Int /\ highestRtp \in Int
            /\ lastEnqueued <= senderCheckpoint + kMaxUnackedFrames
            /\ senderCheckpoint <= checkpoint /\ checkpoint <= latestExpected
            /\ latestExpected <= highestRtp
        BY Pointers, Zenon DEF SInv, HighestInv
      <4>. QED
        BY ONLY <4>1, QueueSizeAssumption
    <3>3. highestRtp <= lastEnqueued \/ highestRtp = first
      BY Zenon DEF SInv, HighestInv
    <3>4. f <= highestRtp + d /\ highestRtp + d - f < Width /\ highestRtp + d \in Int
      BY ONLY <2>1, <2>5, <3>1, <3>2, <3>3 DEF first
    <3>5. ExpandLessThanOrEqual(highestRtp + d, LowerBits(f)) = f
      <4>1. PICK value \in Int : value = highestRtp + d
        BY <3>4, Zenon
      <4>2. f <= value /\ value - f < Width
        BY ONLY <2>5, <3>1, <3>2, <3>4, <4>1
      <4>3. ExpandLessThanOrEqual(value, LowerBits(f)) = f
        BY ONLY <2>5, <4>2, value \in Int, ExpandLessThanOrEqualInverts, Zenon
      <4>. QED
        BY <4>1, <4>3, Zenon
    <3>. QED
      BY <3>5, Zenon DEF Expand, d
  <2>. QED
    BY <2>4, <2>6, <2>7, <2>8, Zenon

\* The playout delay after a packet.
<1>PacketDelay.
  ASSUME SInv, IInv', UNCHANGED <<senderVars, stream>>, Recorded',
         latestExpected' <= lastEnqueued,
         \/ UNCHANGED <<checkpoint, playoutDelay>>
         \/ playoutDelay' = ResolveDelay(delayChanges', checkpoint')
  PROVE  DelayInv'
  <2>. USE <1>PacketDelay
  <2>1. CASE UNCHANGED <<checkpoint, playoutDelay>>
    BY <2>1, DelayKept, Zenon DEF SInv, DelayInv
  <2>2. CASE playoutDelay' = ResolveDelay(delayChanges', checkpoint')
    <3>1. StreamInv' /\ (latestExpected <= lastEnqueued)'
      BY Zenon DEF SInv, StreamInv, senderVars, leader, first
    <3>. QED
      BY <2>2, <3>1, CheckpointDelayNext, ZenonT(60)
  <2>. QED
    BY <2>1, <2>2, Zenon

\* A packet expands the queue up to a frame that was enqueued.
<1>ExpectedEnqueued.
  ASSUME SInv, NEW f \in first .. lastEnqueued
  PROVE  LastExpected(f) <= lastEnqueued
  <2>. USE <1>ExpectedEnqueued
  <2>1. f \in Int /\ f <= lastEnqueued /\ latestExpected <= lastEnqueued
    BY Pointers DEF first
  <2>. QED
    BY <2>1, Zenon DEF LastExpected
<1>DropPacketKeeps.
  ASSUME SInv, IInv', UNCHANGED <<senderVars, stream, rtpNet>>,
         NEW f \in first .. lastEnqueued, NEW packet, DropPacket(f, packet),
         highestRtp' = IF f > highestRtp THEN f ELSE highestRtp,
         lastConsumed' = lastConsumed
  PROVE  SInv'
  <2>. USE <1>DropPacketKeeps
  <2>. DEFINE e == Entry(queue', f)
  <2>1. /\ ~IsIgnored(f) /\ latestExpected' = LastExpected(f)
        /\ queue' = Expect(queue, f)
        /\ UNCHANGED <<checkpoint, delayChanges, pli, playoutDelay, rtcpNet>>
    BY Zenon DEF DropPacket
  <2>2. /\ checkpoint \in Int /\ f \in Int /\ checkpoint <= checkpoint'
        /\ IInv /\ TypeOK /\ FrameOrder
    BY <2>1, Pointers DEF SInv, IInv, first
  <2>3. e = Entry(Expect(queue, f), f)
    BY <2>1, Zenon DEF Entry
  <2>4. GenuineEntry(e, f)
    <3>1. f \in (lastConsumed + 1) .. LastExpected(f)
      BY <2>1, <2>2, ExpectBounds, Zenon
    <3>. QED
      BY <2>1, <2>2, <2>3, <3>1, ExpectedGenuine, Zenon
  <2>5. \A g \in Active' : g # f => Entry(queue', g) = Entry(Expect(queue, f), g)
    BY <2>1, Zenon DEF Entry
  <2>. HIDE DEF e
  <2>6. Recorded'
    BY <2>1, <2>3, <2>5, RecordedKept, ZenonT(60) DEF e
  <2>7. DelayInv'
    BY <2>1, <2>6, <1>ExpectedEnqueued, <1>PacketDelay, Zenon
  <2>. QED
    BY <2>1, <2>2, <2>3, <2>4, <2>5, <2>7, PacketKeeps, Zenon DEF e

\* What is collected is what was sent.
<1>CollectedGenuine.
  ASSUME NEW packet \in RtpPacket, NEW f, Genuine(packet, f),
         NEW before \in PendingFrame, GenuineEntry(before, f)
  PROVE  GenuineEntry(Collected(before, packet, f), f)
  <2>. USE <1>CollectedGenuine
  <2>. DEFINE e == Collected(before, packet, f)
  <2>1. /\ e.count = packet.max_packet_id + 1
        /\ e.chunks = before.chunks \cup {packet.packet_id}
        /\ e.dependency = IF packet.packet_id = 0 /\ 0 \notin before.chunks
                          THEN packet.dependency ELSE before.dependency
    BY DEF Collected, Collect, PendingFrame
  <2>. HIDE DEF e
  <2>2. 0 \in e.chunks => e.dependency = stream[f + 1].dependency
    BY <2>1, Zenon DEF Genuine, GenuineEntry
  <2>3. e.count = stream[f + 1].packets
    BY <2>1, Zenon DEF Genuine
  <2>. QED
    BY <2>2, <2>3, Zenon DEF GenuineEntry, e
<1>CollectPacketKeeps.
  ASSUME SInv, IInv', UNCHANGED <<senderVars, stream, rtpNet>>,
         NEW f \in first .. lastEnqueued, NEW packet \in RtpPacket,
         CollectPacket(f, packet), Genuine(packet, f),
         highestRtp' = IF f > highestRtp THEN f ELSE highestRtp,
         lastConsumed' = lastConsumed
  PROVE  SInv'
  <2>. USE <1>CollectPacketKeeps
  <2>. DEFINE before == Entry(Expect(queue, f), f)
              timed == Timed(before, packet)
              e == Collected(before, packet, f)
  <2>0. /\ ~IsIgnored(f) /\ ~IsComplete(before)
        /\ latestExpected' = LastExpected(f)
        /\ queue' = [Expect(queue, f) EXCEPT ![Slot(f)] = e]
        /\ delayChanges' = IF timed /\ packet.new_playout_delay > 0
                           THEN RecordDelay(f, packet.new_playout_delay)
                           ELSE delayChanges
        /\ WaitForMorePackets(f) \/ FrameCompleted(f)
    BY Zenon DEF CollectPacket, Collected, Timed
  <2>1. /\ f \in Int /\ IInv /\ TypeOK /\ FrameOrder
    BY Pointers DEF SInv, IInv, first
  <2>2. f \in (lastConsumed + 1) .. LastExpected(f)
    BY <2>0, <2>1, ExpectBounds, Zenon
  <2>3. /\ before \in PendingFrame /\ before.id = f /\ before.capture \in {null, f}
        /\ 0 \in before.chunks => before.capture = f
    BY <2>0, <2>1, <2>2, ExpectedEntry, ZenonT(60)
  <2>4. GenuineEntry(before, f)
    BY <2>0, <2>1, <2>2, ExpectedGenuine, Zenon
  <2>5. checkpoint <= checkpoint'
    <3>1. PacketEffect
      BY <2>1, CollectPacketEffect, Zenon
    <3>2. checkpoint' >= checkpoint /\ checkpoint \in Int /\ checkpoint' \in Int
      BY <2>1, <3>1, ZenonT(60) DEF PacketEffect, IInv, TypeOK
    <3>. QED
      BY ONLY <3>2
  <2>. HIDE DEF before
  <2>6. /\ e \in PendingFrame /\ e.id = f /\ e.capture \in {null, f}
        /\ 0 \in e.chunks => e.capture = f
    BY ONLY <2>1, <2>3, packet \in RtpPacket, CollectedEntry
  <2>7. GenuineEntry(e, f)
    BY <2>3, <2>4, <1>CollectedGenuine, ZenonT(60)
  <2>8. ~timed => e.capture = before.capture
    BY <2>3 DEF Collected, Collect, PendingFrame
  <2>. HIDE DEF e, timed
  <2>9. /\ Entry(queue', f) = e
        /\ \A g \in Active' : g # f => Entry(queue', g) = Entry(Expect(queue, f), g)
    BY <2>0, <2>1, <2>6, PacketStep, Zenon
  <2>10. /\ rtcpNet' = rtcpNet \/ SendRtcp
         /\ pli /\ ~pli' => IsComplete(e) /\ e.dependency = kKeyFrame
         /\ \/ UNCHANGED <<checkpoint, playoutDelay>>
            \/ playoutDelay' = ResolveDelay(delayChanges', checkpoint')
    <3>1. CASE WaitForMorePackets(f)
      BY <3>1, Zenon DEF WaitForMorePackets
    <3>2. CASE FrameCompleted(f)
      BY <2>9, <3>2, Zenon DEF FrameCompleted, AdvanceCheckpoint
    <3>. QED
      BY <2>0, <3>1, <3>2, Zenon
  <2>11. Recorded'
    <3>1. DelayOf(f) \in Nat /\ packet.new_playout_delay \in Nat
      BY StreamType, Zenon DEF SInv, DelayOf, RtpPacket
    <3>2. CASE timed /\ packet.new_playout_delay > 0
      <4>1. delayChanges' = RecordDelay(f, DelayOf(f)) /\ DelayOf(f) > 0
        BY <2>0, <3>2, Zenon DEF Genuine, Timed, timed
      <4>. QED
        BY <2>0, <2>9, <4>1, RecordedKept, Zenon DEF before
    <3>3. CASE ~(timed /\ packet.new_playout_delay > 0)
      <4>1. e.capture = f /\ DelayOf(f) > 0 => before.capture = f
        BY <2>8, <3>3, Zenon DEF Genuine, Timed, timed
      <4>2. delayChanges' = delayChanges
        BY <2>0, <3>3, Zenon
      <4>. QED
        BY <2>0, <2>9, <4>1, <4>2, RecordedKept, Zenon DEF before
    <3>. QED
      BY <3>2, <3>3, Zenon
  <2>12. DelayInv'
    BY <2>0, <2>10, <2>11, <1>ExpectedEnqueued, <1>PacketDelay, Zenon
  <2>. QED
    BY <2>0, <2>5, <2>7, <2>9, <2>10, <2>12, PacketKeeps, Zenon DEF before

<1>. SUFFICES ASSUME SInv, NEW f, NEW p, DeliverRtp(f, p)
              PROVE  SInv'
  OBVIOUS
<1>1. PICK packet : /\ packet = GeneratePacket(f, stream[f + 1], p)
                    /\ OnReceivedRtpPacket(packet)
  BY Zenon DEF DeliverRtp
<1>2. <<f, p>> \in rtpNet /\ UNCHANGED <<senderVars, stream, rtpNet>>
  BY Zenon DEF DeliverRtp
<1>3. /\ packet \in RtpPacket /\ Genuine(packet, f)
      /\ Expand(highestRtp, packet.frame_id) = f
  BY <1>1, <1>2, <1>PacketGenuine, Zenon
<1>4. f \in first .. lastEnqueued
  BY <1>3, Zenon DEF Genuine
<1>5. IInv'
  BY <1>1, <1>3, OnReceivedRtpPacketInv, Zenon DEF SInv
<1>6. /\ highestRtp' = IF f > highestRtp THEN f ELSE highestRtp
      /\ lastConsumed' = lastConsumed
      /\ \/ IgnorePacket(f)
         \/ DropPacket(f, packet)
         \/ CollectPacket(f, packet)
  BY <1>1, <1>3, Zenon DEF OnReceivedRtpPacket
<1>7. CASE IgnorePacket(f)
  <2>1. UNCHANGED <<lastConsumed, checkpoint, latestExpected, queue, delayChanges,
                    playoutDelay, pli, rtcpNet>>
    BY <1>6, <1>7, Zenon DEF IgnorePacket
  <2>2. HighestInv'
    <3>. DEFINE high == IF f > highestRtp THEN f ELSE highestRtp
    <3>1. /\ latestExpected \in Int /\ highestRtp \in Int /\ lastEnqueued \in Int
          /\ f \in Int /\ f <= lastEnqueued
      BY <1>4, Pointers DEF first
    <3>2. latestExpected <= highestRtp /\ (highestRtp <= lastEnqueued \/ highestRtp = first)
      BY Zenon DEF SInv, HighestInv
    <3>3. latestExpected <= high /\ (high <= lastEnqueued \/ high = first)
      BY ONLY <3>1, <3>2
    <3>. QED
      BY <1>2, <1>6, <2>1, <3>3, Zenon DEF HighestInv, senderVars, first
  <2>. QED
    BY <1>2, <1>5, <2>1, <2>2, QuietKeeps, Zenon
<1>8. CASE DropPacket(f, packet)
  BY <1>2, <1>4, <1>5, <1>6, <1>8, <1>DropPacketKeeps, Zenon
<1>9. CASE CollectPacket(f, packet)
  BY <1>2, <1>3, <1>4, <1>5, <1>6, <1>9, <1>CollectPacketKeeps, Zenon
<1>. QED
  BY <1>6, <1>7, <1>8, <1>9, Zenon

-----------------------------------------------------------------------------
(* The invariant *)

LEMMA InitKeeps ==
  Init => SInv
<1>InitStream.
  ASSUME Init
  PROVE  StreamInv /\ RtpInv /\ HighestInv /\ RtcpInv /\ FramesGenuine /\ KeyInv
         /\ NeverAhead /\ KeyFrameOnlyIfPictureLost
  <2>. USE <1>InitStream
  <2>1. /\ lastEnqueued = leader /\ senderCheckpoint = leader
        /\ senderLatestExpected = leader
        /\ checkpoint = leader /\ latestExpected = leader /\ lastConsumed = leader
        /\ highestRtp = first /\ rtcpNet = <<>> /\ stream = <<>> /\ rtpNet = {}
    BY Zenon DEF Init, SenderInit, ReceiverInit
  <2>2. leader = -1 /\ first = 0
    BY DEF leader, first
  <2>3. /\ first .. lastEnqueued = {} /\ Active = {} /\ DOMAIN rtcpNet = {}
        /\ ~(lastEnqueued >= first) /\ leader <= leader /\ leader <= first
        /\ leader \in Int
    BY <2>1, <2>2 DEF Active
  <2>4. StreamInv
    <3>1. stream \in Seq(Frame) /\ Len(stream) = lastEnqueued + 1
      BY <2>1, <2>2
    <3>. QED
      BY <2>1, <2>3, <3>1, ZenonT(60) DEF StreamInv
  <2>5. RtpInv /\ RtcpInv /\ FramesGenuine /\ KeyInv /\ KeyFrameOnlyIfPictureLost
    BY <2>1, <2>3, Zenon
       DEF RtpInv, RtcpInv, FramesGenuine, KeyInv, KeyFrameOnlyIfPictureLost
  <2>6. HighestInv /\ NeverAhead
    BY <2>1, <2>3, Zenon
       DEF HighestInv, NeverAhead, PointersAgree, CanceledOnlyIfReceived
  <2>. QED
    BY <2>4, <2>5, <2>6, Zenon
<1>InitSender.
  ASSUME Init
  PROVE  SenderInv
  <2>. USE <1>InitSender
  <2>1. /\ lastEnqueued = leader /\ senderCheckpoint = leader
        /\ senderLatestExpected = leader /\ lastEnqueuedKey = leader
        /\ pictureLostAt = leader /\ pendingFrames = [s \in Slots |-> IdleSlot]
        /\ framesInFlight = 0 /\ nextRtpSend = kSuspended
    BY Zenon DEF Init, SenderInit
  <2>2. leader = -1
    BY DEF leader
  <2>3. /\ (senderCheckpoint + 1) .. lastEnqueued = {}
        /\ ~(senderCheckpoint < lastEnqueued) /\ ~NeedsKickstart
        /\ leader \in Int /\ leader <= leader /\ leader \in leader .. leader
        /\ leader <= leader + kMaxUnackedFrames
    BY <2>1, <2>2, QueueSizeAssumption DEF NeedsKickstart
  <2>4. IdleSlot \in PendingSlot /\ IdleSlot.id = null
    BY Zenon DEF IdleSlot, PendingSlot
  <2>5. /\ pendingFrames \in [Slots -> PendingSlot] /\ DOMAIN pendingFrames = Slots
        /\ \A s \in Slots : pendingFrames[s].id = null
    BY <2>1, <2>4, Zenon
  <2>6. InFlight = {} /\ FramesToSend(pendingFrames) = {}
    BY <2>3, Zenon DEF InFlight, FramesToSend
  <2>7. framesInFlight = Cardinality(InFlight) /\ framesInFlight \in Nat
    <3>1. Cardinality({}) = 0
      BY FS_EmptySet, Zenon
    <3>2. 0 \in Nat
      OBVIOUS
    <3>. QED
      BY <2>1, <2>6, <3>1, <3>2, Zenon
  <2>8. SenderTypeOK
    BY <2>1, <2>3, <2>5, <2>7, Zenon DEF SenderTypeOK
  <2>9. NoLostSend
    BY <2>3, <2>6, Zenon DEF NoLostSend
  <2>10. \A s \in Slots : SlotInv(s)
    BY <2>5, Zenon DEF SlotInv
  <2>. QED
    BY <2>1, <2>3, <2>5, <2>7, <2>8, <2>9, <2>10, ZenonT(60) DEF SenderInv

<1>. SUFFICES ASSUME Init
              PROVE  SInv
  OBVIOUS
<1>1. IInv
  BY InitInv, Zenon DEF Init, AloneInit
<1>2. /\ checkpoint = leader /\ latestExpected = leader
      /\ delayChanges = {<<leader, InitialDelay>>} /\ playoutDelay = InitialDelay
  BY Zenon DEF Init, ReceiverInit
<1>3. first .. leader = {}
  BY DEF first, leader
<1>4. Recorded
  BY <1>2, <1>3, Zenon DEF Recorded
<1>5. SenderDelay(checkpoint) = InitialDelay
  BY <1>2, <1>3, Zenon DEF SenderDelay
<1>. QED
  BY <1>1, <1>2, <1>4, <1>5, <1>InitStream, <1>InitSender, Zenon DEF SInv, DelayInv

LEMMA NextKeeps ==
  ASSUME SInv, [Next]_vars
  PROVE  SInv'
<1>1. ASSUME lastEnqueued < MaxFrame, NEW choice \in FrameChoices[lastEnqueued + 1],
             Enqueue(choice)
      PROVE  SInv'
  BY <1>1, EnqueueKeeps, Zenon
<1>2. CASE SendRtp
  BY <1>2, SendRtpKeeps, Zenon
<1>3. CASE Suspend
  BY <1>3, SuspendKeeps, Zenon
<1>4. ASSUME NEW n \in rtpNet, DeliverRtp(n[1], n[2])
      PROVE  SInv'
  BY <1>4, DeliverRtpKeeps, Zenon
<1>5. CASE DeliverSenderReport
  BY <1>5, DeliverSenderReportKeeps, Zenon
<1>6. ASSUME NEW i \in DOMAIN rtcpNet,
             NEW resend \in SUBSET MissingBy(ReceivedFeedback(i)),
             DeliverRtcp(i, resend)
      PROVE  SInv'
  BY <1>6, DeliverRtcpKeeps, Zenon
<1>7. CASE ReceiverStep
  BY <1>7, ReceiverStepKeeps, Zenon
<1>8. CASE UNCHANGED vars
  BY <1>8, StutterKeeps, Zenon
<1>. QED
  BY <1>1, <1>2, <1>3, <1>4, <1>5, <1>6, <1>7, <1>8, Zenon DEF Next

\* The inductive invariant of a Sender and a Receiver in an unreliable network.
THEOREM StreamingInvariant == Spec => []SInv
<1>1. Init => SInv
  BY InitKeeps, Zenon
<1>2. SInv /\ [Next]_vars => SInv'
  BY NextKeeps, Zenon
<1>. QED
  BY <1>1, <1>2, PTL DEF Spec

-----------------------------------------------------------------------------
(* What it shows *)

\* The Sender never runs ahead of the Receiver: it gives up only frames that the
\* Receiver has or does not need, whatever feedback is lost, late or repeated.
THEOREM SenderNeverAhead == Spec => []NeverAhead
<1>1. SInv => NeverAhead
  BY Zenon DEF SInv
<1>. QED
  BY <1>1, StreamingInvariant, PTL

\* No packet is taken for one of another frame with the same truncated ID.
THEOREM FramesAreGenuine == Spec => []FramesGenuine
<1>1. SInv => FramesGenuine
  BY ZenonT(60) DEF SInv
<1>. QED
  BY <1>1, StreamingInvariant, PTL

\* Every frame is played out with the delay the Sender meant for it.
THEOREM PlayoutDelaysAgree == Spec => []DelaysAgree
<1>1. SInv => DelaysAgree
  <2>1. SUFFICES ASSUME SInv
                 PROVE  DelaysAgree
    BY Zenon
  <2>2. \A f \in lastConsumed .. checkpoint :
          ResolveDelay(delayChanges, f) = SenderDelay(f)
    <3>1. IInv /\ StreamInv /\ Recorded
      BY <2>1, Zenon DEF SInv, DelayInv
    <3>2. latestExpected <= lastEnqueued
      BY <2>1, Pointers, Zenon
    <3>. QED
      BY ONLY <3>1, <3>2, CheckpointDelays, Zenon
  <2>3. \A f \in (lastConsumed + 1) .. checkpoint : f \in lastConsumed .. checkpoint
    <3>1. lastConsumed \in Int /\ checkpoint \in Int
      BY <2>1, Pointers, Zenon
    <3>. QED
      BY ONLY <3>1
  <2>4. playoutDelay = SenderDelay(checkpoint)
    BY <2>1, ZenonT(60) DEF SInv, DelayInv
  <2>. QED
    BY ONLY <2>2, <2>3, <2>4, Zenon DEF DelaysAgree
<1>. QED
  BY <1>1, StreamingInvariant, PTL

\* The Sender asks for no key frame but the first unless the Receiver waits for
\* one.
THEOREM NoNeedlessKeyFrame == Spec => []KeyFrameOnlyIfPictureLost
<1>1. SInv => KeyFrameOnlyIfPictureLost
  BY Zenon DEF SInv
<1>. QED
  BY <1>1, StreamingInvariant, PTL

\* What the OSP_CHECKs of the Sender rely on holds whatever feedback comes in,
\* and the packet router never forgets a Sender that has something to send.
THEOREM SenderIsConsistent == Spec => []SenderConsistent
<1>SenderInvConsistent.
  ASSUME SInv
  PROVE  SenderConsistent
  <2>. USE <1>SenderInvConsistent
  <2>1. SenderTypeOK /\ NoLostSend /\ framesInFlight = Cardinality(InFlight)
    BY Zenon DEF SInv, SenderInv
  <2>2. /\ senderCheckpoint \in Int /\ lastEnqueued \in Int
        /\ senderLatestExpected \in Int /\ senderCheckpoint <= lastEnqueued
        /\ senderCheckpoint <= senderLatestExpected
    BY <2>1, Pointers, Zenon DEF SInv, SenderInv, SenderTypeOK
  <2>3. OldestInFlight
    <3>1. CASE senderCheckpoint < lastEnqueued
      BY <3>1, Zenon DEF SInv, SenderInv, OldestInFlight
    <3>2. CASE ~(senderCheckpoint < lastEnqueued)
      <4>1. (senderCheckpoint + 1) .. lastEnqueued = {}
        BY <2>2, <3>2
      <4>2. InFlight = {}
        BY <4>1, Zenon DEF InFlight
      <4>3. Cardinality({}) = 0
        BY FS_EmptySet, Zenon
      <4>4. ~(0 > 0)
        OBVIOUS
      <4>. QED
        BY <2>1, <4>2, <4>3, <4>4, Zenon DEF OldestInFlight
    <3>. QED
      BY <3>1, <3>2, Zenon
  <2>4. FlightAccounting
    BY <2>1, Zenon DEF SInv, SenderInv, SlotInv, FlightAccounting, InFlight, IsActive
  <2>5. KickstartPossible
    <3>1. SUFFICES ASSUME NeedsKickstart
                   PROVE  /\ IsActive(pendingFrames, lastEnqueued)
                          /\ FramesToSend(pendingFrames) = {} =>
                               LET slot == pendingFrames[Slot(lastEnqueued)]
                               IN  slot.sent = PacketIds(slot.frame)
      BY Zenon DEF KickstartPossible
    <3>2. /\ lastEnqueued \in (senderCheckpoint + 1) .. lastEnqueued
          /\ ~(lastEnqueued <= senderLatestExpected)
      BY <2>2, <3>1 DEF NeedsKickstart
    <3>3. IsActive(pendingFrames, lastEnqueued)
      BY <3>2, Zenon DEF SInv, SenderInv
    <3>4. PICK slot : slot = pendingFrames[Slot(lastEnqueued)]
      BY Zenon
    <3>5. slot.id = lastEnqueued /\ slot.id # null /\ Slot(lastEnqueued) \in Slots
      BY <2>2, <3>3, <3>4, SlotType, NullAssumption, Zenon DEF IsActive
    <3>6. slot.send_flags \cup slot.sent = PacketIds(slot.frame)
      BY <3>4, <3>5, Zenon DEF SInv, SenderInv, SlotInv
    <3>7. FramesToSend(pendingFrames) = {} => slot.send_flags = {}
      BY <3>2, <3>3, <3>4, Zenon DEF FramesToSend
    <3>8. FramesToSend(pendingFrames) = {} => slot.sent = PacketIds(slot.frame)
      BY <3>6, <3>7, Zenon
    <3>. QED
      BY <3>3, <3>4, <3>8, Zenon
  <2>. QED
    BY <2>1, <2>3, <2>4, <2>5, Zenon DEF SenderConsistent
<1>1. SInv => SenderConsistent
  BY <1>SenderInvConsistent, Zenon
<1>. QED
  BY <1>1, StreamingInvariant, PTL

\* In this network, too, the Receiver's queue is consistent.
THEOREM StreamingQueueConsistent == Spec => []QueueConsistent
<1>1. SInv => QueueConsistent
  BY Zenon DEF SInv, IInv, QueueConsistent
<1>. QED
  BY <1>1, StreamingInvariant, PTL

-----------------------------------------------------------------------------
(* What no step does *)

\* The action of SkipsAreDecodable.
Decodable ==
  lastConsumed' > lastConsumed /\ ~ready
    => ready' /\ stream[lastConsumed' + 2].dependency # kDependent

\* Frames are skipped only for a frame that the Sender encoded to be decodable
\* without them.
THEOREM SkipsDecodable == Spec => SkipsAreDecodable
<1>AdvanceDecodable.
  ASSUME SInv, NEW armed \in BOOLEAN, NEW playHead,
         AdvanceToNextFrame(armed, playHead)
  PROVE  Decodable
  <2>. USE <1>AdvanceDecodable
  <2>. DEFINE f == Min(ScanStops(playHead))
  <2>1. lastConsumed \in Int /\ IInv /\ TypeOK /\ queue \in [Slots -> PendingFrame]
    BY Zenon DEF SInv, IInv, TypeOK
  <2>2. CASE lastConsumed' = lastConsumed
    <3>1. ~(lastConsumed > lastConsumed)
      BY <2>1
    <3>. QED
      BY <2>2, <3>1, ZenonT(60) DEF Decodable
  <2>3. CASE /\ ScanStops(playHead) # {} /\ IsReady(f) /\ f # lastConsumed + 1
             /\ DropAllFramesBefore(f) /\ ready' = TRUE
    <3>1. PICK g : g = f
      BY Zenon
    <3>. HIDE DEF f
    <3>2. IsReady(g) /\ g # lastConsumed + 1 /\ lastConsumed' = g - 1 /\ ready'
      BY <2>3, <3>1, ZenonT(60) DEF DropAllFramesBefore
    <3>3. g \in Active
      BY <2>1, <2>3, <3>1, ScanFacts DEF f
    <3>4. g \in Int /\ (g - 1) + 2 = g + 1
      BY <2>1, <3>3, Pointers, SMTT(60) DEF Active
    <3>5. /\ IsComplete(Entry(queue, g)) /\ Entry(queue, g).dependency # kDependent
          /\ Entry(queue, g) \in PendingFrame
      BY <2>1, <3>2, <3>4, SlotType, Zenon DEF IsReady, Entry
    <3>6. 0 \in Entry(queue, g).chunks
      BY <3>5, CompleteHasFirst, Zenon
    <3>7. stream[g + 1].dependency # kDependent
      BY <3>3, <3>5, <3>6, Zenon DEF SInv, FramesGenuine
    <3>8. lastConsumed' + 2 = g + 1
      BY <3>2, <3>4, Zenon
    <3>. QED
      BY <3>2, <3>7, <3>8, ZenonT(60) DEF Decodable
  <2>. QED
    BY <2>2, <2>3, Zenon DEF AdvanceToNextFrame
<1>NextDecodable.
  ASSUME SInv, [Next]_vars
  PROVE  Decodable
  <2>. USE <1>NextDecodable
  <2>1. CASE lastConsumed' = lastConsumed \/ ready
    <3>1. ~(lastConsumed > lastConsumed)
      BY Pointers
    <3>. QED
      BY <2>1, <3>1, Zenon DEF Decodable
  <2>2. ASSUME NEW choice, Enqueue(choice)
        PROVE  lastConsumed' = lastConsumed
    BY <2>2, Zenon DEF Enqueue, receiverVars
  <2>3. SendRtp \/ Suspend \/ DeliverSenderReport => lastConsumed' = lastConsumed
    BY Zenon DEF SendRtp, Suspend, DeliverSenderReport, OnReceivedSenderReport,
                 receiverVars
  <2>4. ASSUME NEW n \in rtpNet, DeliverRtp(n[1], n[2])
        PROVE  lastConsumed' = lastConsumed
    BY <2>4, Zenon DEF DeliverRtp, OnReceivedRtpPacket
  <2>5. ASSUME NEW i, NEW resend, DeliverRtcp(i, resend)
        PROVE  lastConsumed' = lastConsumed
    BY <2>5, Zenon DEF DeliverRtcp
  <2>6. ASSUME NEW playHead, CheckFrameReady(playHead)
        PROVE  Decodable
    BY <2>6, <1>AdvanceDecodable, Zenon DEF CheckFrameReady
  <2>7. CASE ReceiverStep
    <3>1. SendScheduledRtcp \/ RequestKeyFrame \/ SetConsumer(TRUE)
          \/ CheckWithoutConsumer \/ ConsumeNextFrame
            => lastConsumed' = lastConsumed \/ ready
      BY Zenon DEF SendScheduledRtcp, RequestKeyFrame, SetConsumer,
                   CheckWithoutConsumer, ConsumeNextFrame
    <3>. QED
      BY <2>1, <2>6, <2>7, <3>1, Zenon DEF ReceiverStep
  <2>8. CASE UNCHANGED vars
    BY <2>1, <2>8, Zenon DEF vars, receiverVars
  <2>. QED
    BY <2>1, <2>2, <2>3, <2>4, <2>5, <2>7, <2>8, ZenonT(60) DEF Next
<1>1. SInv /\ [Next]_vars => [Decodable]_vars
  BY <1>NextDecodable, Zenon
<1>. QED
  BY <1>1, StreamingInvariant, PTL DEF Spec, SkipsAreDecodable, Decodable
=============================================================================
