---------------------- MODULE SenderPacketRouterProofs ----------------------
(***************************************************************************)
(* The invariants of SenderPacketRouter for any number of Senders, and any  *)
(* intervals and limits.                                                    *)
(***************************************************************************)
EXTENDS SenderPacketRouter, WellFoundedInduction, FiniteSetTheorems, TLAPS

-----------------------------------------------------------------------------
(* Naturals: least elements, induction and iteration up to a bound *)

\* A non-empty set of naturals has a least element.
LEMMA NatMinimum ==
  ASSUME NEW T, T \subseteq Nat, T # {}
  PROVE  \E x \in T : \A y \in T : x <= y
<1>1. PICK x \in T : \A y \in T : ~(<<y, x>> \in OpToRel(<, Nat))
  BY NatLessThanWellFounded, WFMin, Zenon
<1>2. ASSUME NEW y \in T
      PROVE  x <= y
  <2>1. x \in Nat /\ y \in Nat
    BY Zenon
  <2>2. y < x => <<y, x>> \in OpToRel(<, Nat)
    BY <2>1, Zenon DEF OpToRel
  <2>3. ~(y < x)
    BY <1>1, <2>2, Zenon
  <2>. QED
    BY <2>1, <2>3
<1>. QED
  BY <1>2, Zenon

\* Induction up to n.
LEMMA BoundedInduction ==
  ASSUME NEW n \in Nat, NEW T \in SUBSET (0 .. n), 0 \in T,
         \A i \in 1 .. n : i - 1 \in T => i \in T
  PROVE  T = 0 .. n
<1>. DEFINE Bad == (0 .. n) \ T
<1>1. SUFFICES ASSUME Bad # {} PROVE FALSE
  BY Zenon
<1>2. Bad \subseteq Nat
  OBVIOUS
<1>3. PICK m \in Bad : \A x \in Bad : m <= x
  BY <1>1, <1>2, NatMinimum, Zenon
<1>4. m \in 1 .. n /\ m - 1 \in 0 .. n
  OBVIOUS
<1>5. m - 1 \notin Bad
  <2>. HIDE DEF Bad
  <2>. QED
    BY <1>2, <1>3, <1>4
<1>. QED
  BY <1>4, <1>5, Zenon

\* The results of n steps that are made one after the other.
LEMMA Accumulate ==
  ASSUME NEW n \in Nat, NEW base \in Int, NEW step \in [1 .. n -> [Int -> Int]]
  PROVE  \E f \in [0 .. n -> Int] : f[0] = base /\ \A i \in 1 .. n : f[i] = step[i][f[i - 1]]
<1>. DEFINE Upto(m, f) == f[0] = base /\ \A i \in 1 .. m : f[i] = step[i][f[i - 1]]
            T == {m \in 0 .. n : \E f \in [0 .. m -> Int] : Upto(m, f)}
<1>1. 0 \in T
  <2>. DEFINE f == [i \in 0 .. 0 |-> base]
  <2>1. Upto(0, f) /\ f \in [0 .. 0 -> Int]
    OBVIOUS
  <2>2. 0 \in 0 .. n
    OBVIOUS
  <2>. HIDE DEF f, Upto
  <2>. QED
    BY <2>1, <2>2, Zenon
<1>2. ASSUME NEW m \in 1 .. n, m - 1 \in T
      PROVE  m \in T
  <2>1. PICK g \in [0 .. m - 1 -> Int] : Upto(m - 1, g)
    BY <1>2, Zenon
  <2>. DEFINE f == [i \in 0 .. m |-> IF i = m THEN step[m][g[m - 1]] ELSE g[i]]
  <2>2. m - 1 \in 0 .. m - 1 /\ g[m - 1] \in Int /\ step[m] \in [Int -> Int]
    OBVIOUS
  <2>3. step[m][g[m - 1]] \in Int
    BY <2>2, Zenon
  <2>4. f \in [0 .. m -> Int]
    BY <2>3
  <2>5. f[0] = base
    BY <2>1
  <2>6. ASSUME NEW i \in 1 .. m
        PROVE  f[i] = step[i][f[i - 1]]
    <3>1. i - 1 \in 0 .. m - 1 /\ f[i - 1] = g[i - 1]
      OBVIOUS
    <3>2. CASE i = m
      BY <3>1, <3>2
    <3>3. CASE i # m
      <4>1. i \in 1 .. m - 1
        BY <3>3
      <4>2. f[i] = g[i]
        BY <3>3
      <4>. QED
        BY <2>1, <3>1, <4>1, <4>2, Zenon
    <3>. QED
      BY <3>2, <3>3, Zenon
  <2>7. Upto(m, f)
    BY <2>5, <2>6, Zenon
  <2>. HIDE DEF f, Upto
  <2>. QED
    BY <2>4, <2>7
<1>3. T \in SUBSET (0 .. n)
  BY Zenon
<1>4. T = 0 .. n
  <2>. HIDE DEF T
  <2>. QED
    BY <1>1, <1>2, <1>3, BoundedInduction, Zenon
<1>5. n \in T
  <2>1. n \in 0 .. n
    OBVIOUS
  <2>. QED
    BY <1>4, <2>1, Zenon
<1>. QED
  BY <1>5, Zenon

\* What holds of an entry e whose Sender has c to send, at the time t: the Alarm,
\* which is due at a, is not too late for either of its times; the router asks the
\* Sender for RTP packets in time; there is a time for its next report just if it
\* has something to report. A report that is not due at once was not due in the
\* last burst, the functor of the Alarm, which is queued for f, is early enough
\* for it, and it is not late yet.
Timely(e, c, t, last, a, f) ==
  /\ \A x \in {e.next_rtcp_send_time, e.next_rtp_send_time} :
       x # kNever => a <= t \/ a <= x \/ a <= last + BurstInterval
  /\ e.next_rtp_send_time <= IF c.packets > 0 THEN kImmediately ELSE c.kickstart
  /\ c.has_report <=> e.next_rtcp_send_time # kNever
  /\ e.next_rtcp_send_time \notin {kImmediately, kNever} =>
       /\ last < e.next_rtcp_send_time
       /\ f <= e.next_rtcp_send_time \/ f <= last + BurstInterval
       /\ t < e.next_rtcp_send_time + BurstInterval + MaxLateness

\* The state of the router at the time t, with the entries, the time of the last
\* burst, the two times of the Alarm, whether packets are consumed, what the Senders
\* have to send, and the last burst.
Served(t, entries, last, a, f, takes, cs, b) ==
  /\ t \in 1 .. MaxTime /\ entries \in Seq(SenderEntry)
  /\ last \in -BurstInterval .. MaxTime /\ a \in SendTimes /\ f \in SendTimes
  /\ takes = (entries # <<>>) /\ cs \in [Ssrcs -> Client] /\ b \in Burst
  /\ InPriorityOrder(entries)
  /\ a # kNever => last + BurstInterval <= a
  /\ \A ssrc \in Ssrcs :
       (\A i \in DOMAIN entries : entries[i].receiver_ssrc # ssrc) => cs[ssrc] = Idle
  /\ \A i \in DOMAIN entries :
       Timely(entries[i], cs[entries[i].receiver_ssrc], t, last, a, f)

\* The inductive invariant.
RouterInv == Served(now, senders, lastBurst, alarm, fire, consuming, client, burst)

-----------------------------------------------------------------------------
(* Times *)

\* The later and the earlier of two times.
LEMMA OfTwo ==
  ASSUME NEW a \in Int, NEW b \in Int
  PROVE  /\ Max({a, b}) = IF a >= b THEN a ELSE b
         /\ Min({a, b}) = IF a <= b THEN a ELSE b
<1>1. \A x \in {a, b} : (\A y \in {a, b} : x >= y) <=> x = IF a >= b THEN a ELSE b
  OBVIOUS
<1>2. \A x \in {a, b} : (\A y \in {a, b} : x =< y) <=> x = IF a <= b THEN a ELSE b
  OBVIOUS
<1>3. (IF a >= b THEN a ELSE b) \in {a, b} /\ (IF a <= b THEN a ELSE b) \in {a, b}
  BY Zenon
<1>4. Max({a, b}) = IF a >= b THEN a ELSE b
  BY <1>1, <1>3, Zenon DEF Max
<1>5. Min({a, b}) = IF a <= b THEN a ELSE b
  BY <1>2, <1>3, Zenon DEF Min
<1>. QED
  BY <1>4, <1>5, Zenon

\* The constants are times that do not overlap.
LEMMA Bounds ==
  /\ kImmediately = 0 /\ kNever \in Nat /\ SendTimes = 0 .. kNever
  /\ MaxTime \in Nat \ {0} /\ MaxLateness \in Nat /\ MaxPackets \in Nat
  /\ BurstInterval \in Nat \ {0} /\ RtcpInterval \in Nat \ {0}
  /\ KickstartInterval \in Nat \ {0} /\ MaxPacketsPerBurst \in Nat \ {0}
  /\ kNever > MaxTime + RtcpInterval /\ kNever > MaxTime + KickstartInterval
  /\ kNever > MaxTime + BurstInterval
BY RouterAssumption DEF kImmediately, kNever, SendTimes

\* The fields of an entry.
LEMMA EntryFacts ==
  ASSUME NEW e \in SenderEntry
  PROVE  /\ e.receiver_ssrc \in Ssrcs /\ e.receiver_ssrc \in Nat
         /\ e.next_rtcp_send_time \in 0 .. kNever /\ e.next_rtp_send_time \in 0 .. kNever
         /\ e.next_rtcp_send_time \in Int /\ e.next_rtp_send_time \in Int
         /\ e = [receiver_ssrc |-> e.receiver_ssrc, next_rtcp_send_time |-> e.next_rtcp_send_time,
                 next_rtp_send_time |-> e.next_rtp_send_time]
<1>1. /\ e.receiver_ssrc \in Ssrcs
      /\ e.next_rtcp_send_time \in SendTimes /\ e.next_rtp_send_time \in SendTimes
      /\ e = [receiver_ssrc |-> e.receiver_ssrc, next_rtcp_send_time |-> e.next_rtcp_send_time,
              next_rtp_send_time |-> e.next_rtp_send_time]
  BY Zenon DEF SenderEntry
<1>2. e.receiver_ssrc \in Nat
  BY <1>1, RouterAssumption, Zenon
<1>3. /\ e.next_rtcp_send_time \in 0 .. kNever /\ e.next_rtp_send_time \in 0 .. kNever
      /\ e.next_rtcp_send_time \in Int /\ e.next_rtp_send_time \in Int
  BY <1>1, Bounds
<1>. QED
  BY <1>1, <1>2, <1>3, Zenon

\* The next time of an entry is the earlier of its two.
LEMMA NextSendFacts ==
  ASSUME NEW e \in SenderEntry
  PROVE  /\ NextSendTime(e) \in 0 .. kNever
         /\ NextSendTime(e) <= e.next_rtcp_send_time /\ NextSendTime(e) <= e.next_rtp_send_time
         /\ NextSendTime(e) \in {e.next_rtcp_send_time, e.next_rtp_send_time}
<1>. DEFINE a == e.next_rtcp_send_time
            b == e.next_rtp_send_time
<1>1. a \in 0 .. kNever /\ b \in 0 .. kNever /\ a \in Int /\ b \in Int
  BY EntryFacts, Zenon
<1>2. NextSendTime(e) = Min({a, b})
  BY Zenon DEF NextSendTime
<1>. HIDE DEF a, b
<1>3. Min({a, b}) = IF a <= b THEN a ELSE b
  BY <1>1, OfTwo, Zenon
<1>4. /\ NextSendTime(e) \in 0 .. kNever /\ NextSendTime(e) <= a /\ NextSendTime(e) <= b
      /\ NextSendTime(e) \in {a, b}
  BY <1>1, <1>2, <1>3, Bounds
<1>. QED
  BY <1>4, Zenon DEF a, b

\* ScheduleNextBurst() finds a time that is not too late for any of the Senders and
\* not too early for the interval.
LEMMA NextBurstFacts ==
  ASSUME NEW entries \in Seq(SenderEntry), NEW last \in -BurstInterval .. MaxTime
  PROVE  LET time == NextBurstTime(entries, last)
         IN  /\ time \in 0 .. kNever
             /\ time # kNever => last + BurstInterval <= time
             /\ \A i \in DOMAIN entries :
                  \A x \in {entries[i].next_rtcp_send_time, entries[i].next_rtp_send_time} :
                    x # kNever =>
                      time # kNever /\ (time <= x \/ time <= last + BurstInterval)
<1>. DEFINE S == {NextSendTime(entries[i]) : i \in DOMAIN entries} \union {kNever}
            earliest == Min(S)
            time == NextBurstTime(entries, last)
<1>1. \A i \in DOMAIN entries : entries[i] \in SenderEntry
  OBVIOUS
<1>2. S \subseteq 0 .. kNever /\ S # {} /\ kNever \in S /\ S \subseteq Nat
  BY <1>1, NextSendFacts, Bounds
<1>3. earliest \in S /\ \A y \in S : earliest <= y
  <2>. HIDE DEF S
  <2>1. \E x \in S : \A y \in S : x =< y
    BY <1>2, NatMinimum, Zenon
  <2>. QED
    BY <2>1, Zenon DEF Min
<1>4. earliest \in 0 .. kNever /\ earliest \in Int /\ last + BurstInterval \in Int
      /\ last + BurstInterval >= 0 /\ last + BurstInterval < kNever
  <2>. HIDE DEF S, earliest
  <2>. QED
    BY <1>2, <1>3, Bounds
<1>5. \A i \in DOMAIN entries : NextSendTime(entries[i]) \in S
  BY Zenon
<1>6. time = IF earliest = kNever THEN kNever ELSE Max({earliest, last + BurstInterval})
  BY Zenon DEF NextBurstTime
<1>. HIDE DEF S, earliest, time
<1>7. time = IF earliest = kNever THEN kNever
             ELSE IF earliest >= last + BurstInterval THEN earliest ELSE last + BurstInterval
  BY <1>4, <1>6, OfTwo
<1>8. ASSUME NEW i \in DOMAIN entries,
             NEW x \in {entries[i].next_rtcp_send_time, entries[i].next_rtp_send_time}, x # kNever
      PROVE  earliest <= x /\ x \in 0 .. kNever
  <2>1. NextSendTime(entries[i]) <= x /\ NextSendTime(entries[i]) \in 0 .. kNever /\ x \in 0 .. kNever
    BY <1>1, <1>8, NextSendFacts, EntryFacts, SMTT(60)
  <2>2. earliest <= NextSendTime(entries[i])
    BY <1>3, <1>5, Zenon
  <2>. QED
    BY <1>4, <2>1, <2>2, Bounds
<1>9. time \in 0 .. kNever /\ (time # kNever => last + BurstInterval <= time)
  BY <1>4, <1>7, Bounds
<1>10. ASSUME NEW i \in DOMAIN entries,
              NEW x \in {entries[i].next_rtcp_send_time, entries[i].next_rtp_send_time}, x # kNever
       PROVE  time # kNever /\ (time <= x \/ time <= last + BurstInterval)
  BY <1>4, <1>7, <1>8, <1>10, Bounds
<1>. QED
  BY <1>9, <1>10, Zenon DEF time

\* What the Alarm is set to.
LEMMA ScheduleFacts ==
  ASSUME NEW entries \in Seq(SenderEntry), NEW last \in -BurstInterval .. MaxTime,
         NEW queued \in SendTimes, now \in 1 .. MaxTime,
         ScheduleNextBurst(entries, last, queued)
  PROVE  /\ alarm' \in SendTimes /\ fire' \in SendTimes /\ fire' <= queued
         /\ fire' = alarm' \/ (fire' = queued /\ (alarm' = kNever \/ fire' < alarm'))
         /\ alarm' # kNever => last + BurstInterval <= alarm'
         /\ \A i \in DOMAIN entries :
              \A x \in {entries[i].next_rtcp_send_time, entries[i].next_rtp_send_time} :
                x # kNever =>
                  /\ fire' <= alarm'
                  /\ alarm' <= now \/ alarm' <= x \/ alarm' <= last + BurstInterval
<1>. DEFINE time == NextBurstTime(entries, last)
            at == Max({now, time})
<1>1. /\ time \in 0 .. kNever
      /\ time # kNever => last + BurstInterval <= time
      /\ \A i \in DOMAIN entries :
           \A x \in {entries[i].next_rtcp_send_time, entries[i].next_rtp_send_time} :
             x # kNever => time # kNever /\ (time <= x \/ time <= last + BurstInterval)
  BY NextBurstFacts, Zenon
<1>2. IF time = kNever THEN alarm' = kNever /\ fire' = queued
                       ELSE alarm' = at /\ fire' = Min({queued, at})
  BY Zenon DEF ScheduleNextBurst
<1>. HIDE DEF time
<1>3. at = (IF now >= time THEN now ELSE time) /\ at \in 0 .. kNever
  BY <1>1, OfTwo, Bounds
<1>. HIDE DEF at
<1>4. Min({queued, at}) = IF queued <= at THEN queued ELSE at
  <2>1. queued \in Int /\ at \in Int
    BY <1>3, Bounds
  <2>. QED
    BY <2>1, OfTwo, Zenon
<1>5. CASE time = kNever
  BY <1>1, <1>2, <1>5, Bounds
<1>6. CASE time # kNever
  <2>1. /\ alarm' = at /\ fire' \in 0 .. kNever /\ fire' <= queued /\ fire' <= alarm'
        /\ fire' = alarm' \/ (fire' = queued /\ fire' < alarm')
    BY <1>2, <1>3, <1>4, <1>6, Bounds
  <2>2. last + BurstInterval <= alarm'
    BY <1>1, <1>3, <1>6, <2>1, Bounds
  <2>3. ASSUME NEW i \in DOMAIN entries,
               NEW x \in {entries[i].next_rtcp_send_time, entries[i].next_rtp_send_time}, x # kNever
        PROVE  alarm' <= now \/ alarm' <= x \/ alarm' <= last + BurstInterval
    BY <1>1, <1>3, <2>1, <2>3
  <2>. QED
    BY <1>3, <2>1, <2>2, <2>3, Bounds, Zenon
<1>. QED
  BY <1>5, <1>6, Zenon

-----------------------------------------------------------------------------
(* The Senders *)

\* RouterInv a state later.
LEMMA RouterInvNext ==
  ASSUME Served(now', senders', lastBurst', alarm', fire', consuming', client', burst')
  PROVE  RouterInv'
BY Zenon DEF RouterInv, Served, InPriorityOrder, Timely, Idle, SenderEntry, SendTimes, Client,
             Burst, kNever, kImmediately

\* The router finds the entry of a Sender by its SSRC.
LEMMA FindFacts ==
  ASSUME RouterInv
  PROVE  /\ \A i, j \in DOMAIN senders :
              senders[i].receiver_ssrc = senders[j].receiver_ssrc => i = j
         /\ \A ssrc \in Registered :
              FindEntry(ssrc) \in DOMAIN senders /\ senders[FindEntry(ssrc)].receiver_ssrc = ssrc
         /\ \A i \in DOMAIN senders :
              /\ senders[i].receiver_ssrc \in Registered
              /\ FindEntry(senders[i].receiver_ssrc) = i
<1>1. senders \in Seq(SenderEntry) /\ InPriorityOrder(senders)
  BY Zenon DEF RouterInv, Served
<1>2. ASSUME NEW i \in DOMAIN senders
      PROVE  senders[i].receiver_ssrc \in Nat /\ i \in Nat
  BY <1>1, EntryFacts
<1>3. ASSUME NEW i \in DOMAIN senders, NEW j \in DOMAIN senders,
             senders[i].receiver_ssrc = senders[j].receiver_ssrc
      PROVE  i = j
  <2>1. ~(i < j) /\ ~(j < i)
    BY <1>1, <1>2, <1>3 DEF InPriorityOrder
  <2>. QED
    BY <1>2, <2>1
<1>4. ASSUME NEW ssrc \in Registered
      PROVE  FindEntry(ssrc) \in DOMAIN senders /\ senders[FindEntry(ssrc)].receiver_ssrc = ssrc
  BY Zenon DEF Registered, FindEntry
<1>5. \A i \in DOMAIN senders : senders[i].receiver_ssrc \in Registered
  BY Zenon DEF Registered
<1>. QED
  BY <1>3, <1>4, <1>5, Zenon

\* The fields of what a Sender has to send.
LEMMA ClientFacts ==
  ASSUME NEW c \in Client
  PROVE  /\ c.has_report \in BOOLEAN /\ c.packets \in 0 .. MaxPackets /\ c.kickstart \in 0 .. kNever
         /\ c = [has_report |-> c.has_report, packets |-> c.packets, kickstart |-> c.kickstart]
BY Bounds, Zenon DEF Client

\* The types of a new Sender and its entry.
LEMMA NewTypes ==
  /\ Idle \in Client
  /\ \A ssrc \in Ssrcs : NewEntry(ssrc) \in SenderEntry
BY Bounds DEF Idle, Client, NewEntry, SenderEntry

\* A new Sender asks for nothing yet.
LEMMA NewTimely ==
  ASSUME NEW ssrc, NEW t, NEW last, NEW a, NEW f
  PROVE  Timely(NewEntry(ssrc), Idle, t, last, a, f)
BY Bounds DEF Timely, NewEntry, Idle

\* A new Sender takes its place among the others, whose times stay what they are.
LEMMA CreatedServed ==
  ASSUME RouterInv, NEW ssrc \in Ssrcs, OnSenderCreated(ssrc)
  PROVE  RouterInv'
<1>. DEFINE entries == Append(senders, NewEntry(ssrc))
<1>0. /\ ssrc \notin Registered /\ InPriorityOrder(senders') /\ consuming' = TRUE
      /\ UNCHANGED <<now, lastBurst, alarm, fire, client, burst>>
  BY Zenon DEF OnSenderCreated, InPriorityOrder
<1>1. PICK order \in Bijection(DOMAIN entries, DOMAIN entries) :
        senders' = [i \in DOMAIN entries |-> entries[order[i]]]
  BY Zenon DEF OnSenderCreated
<1>2. senders \in Seq(SenderEntry) /\ NewEntry(ssrc) \in SenderEntry
  BY NewTypes, Zenon DEF RouterInv, Served
<1>3. /\ entries \in Seq(SenderEntry) /\ DOMAIN entries = 1 .. Len(senders) + 1
      /\ Len(senders) \in Nat /\ DOMAIN senders = 1 .. Len(senders)
      /\ \A i \in DOMAIN senders : entries[i] = senders[i]
      /\ entries[Len(senders) + 1] = NewEntry(ssrc)
  BY <1>2
<1>4. /\ order \in [DOMAIN entries -> DOMAIN entries]
      /\ \A w \in DOMAIN entries : \E v \in DOMAIN entries : order[v] = w
  <2>. HIDE DEF entries
  <2>. QED
    BY <1>1, Zenon DEF Bijection, Surjection
<1>. HIDE DEF entries
<1>5. /\ DOMAIN senders' = DOMAIN entries
      /\ \A i \in DOMAIN senders' : order[i] \in DOMAIN entries /\ senders'[i] = entries[order[i]]
  BY <1>1, <1>4, Zenon
<1>6. senders' \in Seq(SenderEntry) /\ senders' # <<>>
  <2>1. \A i \in DOMAIN entries : entries[i] \in SenderEntry
    BY <1>3
  <2>2. senders' \in [1 .. Len(senders) + 1 -> SenderEntry]
    BY <1>1, <1>3, <1>5, <2>1, Zenon
  <2>. QED
    BY <1>3, <2>2
<1>7. ASSUME NEW i \in DOMAIN senders'
      PROVE  \/ \E j \in DOMAIN senders : senders'[i] = senders[j]
             \/ senders'[i] = NewEntry(ssrc)
  BY <1>3, <1>5
<1>8. ASSUME NEW x \in Ssrcs, \A i \in DOMAIN senders' : senders'[i].receiver_ssrc # x
      PROVE  client[x] = Idle
  <2>1. ASSUME NEW j \in DOMAIN senders
        PROVE  senders[j].receiver_ssrc # x
    <3>1. j \in DOMAIN entries /\ entries[j] = senders[j]
      BY <1>3
    <3>2. PICK v \in DOMAIN entries : order[v] = j
      BY <1>4, <3>1, Zenon
    <3>. QED
      BY <1>5, <1>8, <3>1, <3>2
  <2>. QED
    BY <2>1, Zenon DEF RouterInv, Served
<1>9. client[ssrc] = Idle
  <2>1. \A i \in DOMAIN senders : senders[i].receiver_ssrc # ssrc
    BY <1>0, Zenon DEF Registered
  <2>. QED
    BY <2>1, Zenon DEF RouterInv, Served
<1>10. ASSUME NEW i \in DOMAIN senders'
       PROVE  Timely(senders'[i], client[senders'[i].receiver_ssrc], now, lastBurst, alarm, fire)
  <2>1. CASE \E j \in DOMAIN senders : senders'[i] = senders[j]
    BY <2>1, Zenon DEF RouterInv, Served
  <2>2. CASE senders'[i] = NewEntry(ssrc)
    <3>1. senders'[i].receiver_ssrc = ssrc
      BY <2>2 DEF NewEntry
    <3>. QED
      BY <1>9, <2>2, <3>1, NewTimely, Zenon
  <2>. QED
    BY <1>7, <2>1, <2>2, Zenon
<1>11. Served(now', senders', lastBurst', alarm', fire', consuming', client', burst')
  BY <1>0, <1>6, <1>8, <1>10, Zenon DEF RouterInv, Served
<1>. QED
  BY <1>11, RouterInvNext, Zenon

\* The length of a concatenation.
LEMMA ConcatLength ==
  ASSUME NEW S, NEW p \in Seq(S), NEW q \in Seq(S)
  PROVE  Len(p \o q) = Len(p) + Len(q)
OBVIOUS

\* The list without its k-th entry.
LEMMA RemoveFacts ==
  ASSUME NEW S, NEW s \in Seq(S), NEW k \in DOMAIN s
  PROVE  LET r == SubSeq(s, 1, k - 1) \o SubSeq(s, k + 1, Len(s))
         IN  /\ r \in Seq(S) /\ DOMAIN r = 1 .. Len(s) - 1 /\ Len(s) \in Nat
             /\ DOMAIN s = 1 .. Len(s)
             /\ \A i \in DOMAIN r : r[i] = s[IF i < k THEN i ELSE i + 1]
<1>. DEFINE p == SubSeq(s, 1, k - 1)
            q == SubSeq(s, k + 1, Len(s))
<1>1. Len(s) \in Nat /\ k \in 1 .. Len(s) /\ DOMAIN s = 1 .. Len(s)
  OBVIOUS
<1>2. /\ p \in Seq(S) /\ Len(p) = k - 1 /\ \A i \in 1 .. k - 1 : p[i] = s[i]
  BY <1>1
<1>3. /\ q \in Seq(S) /\ Len(q) = Len(s) - k /\ \A i \in 1 .. Len(s) - k : q[i] = s[k + i]
  BY <1>1, SMTT(30)
<1>. HIDE DEF p, q
<1>4. p \o q \in Seq(S) /\ Len(p \o q) = Len(s) - 1
  <2>1. p \o q \in Seq(S)
    BY <1>2, <1>3
  <2>2. Len(p \o q) = Len(p) + Len(q)
    BY <1>2, <1>3, ConcatLength, Zenon
  <2>3. Len(p) + Len(q) = Len(s) - 1
    BY <1>1, <1>2, <1>3
  <2>. QED
    BY <2>1, <2>2, <2>3, Zenon
<1>5. ASSUME NEW i \in 1 .. Len(s) - 1
      PROVE  (p \o q)[i] = s[IF i < k THEN i ELSE i + 1]
  <2>1. CASE i < k
    <3>1. i \in 1 .. k - 1 /\ (p \o q)[i] = p[i]
      BY <1>1, <1>2, <1>3, <2>1
    <3>. QED
      BY <1>2, <2>1, <3>1, Zenon
  <2>2. CASE ~(i < k)
    <3>1. i - (k - 1) \in 1 .. Len(s) - k
      BY <1>1, <2>2
    <3>2. (p \o q)[i] = q[i - (k - 1)]
      BY <1>1, <1>2, <1>3, <2>2, <3>1, SMTT(30)
    <3>3. q[i - (k - 1)] = s[k + (i - (k - 1))] /\ k + (i - (k - 1)) = i + 1
      BY <1>1, <1>3, <3>1
    <3>. QED
      BY <2>2, <3>2, <3>3, Zenon
  <2>. QED
    BY <2>1, <2>2, Zenon
<1>6. DOMAIN (p \o q) = 1 .. Len(s) - 1
  <2>. DEFINE r == p \o q
  <2>1. r \in Seq(S) /\ Len(r) = Len(s) - 1
    BY <1>4, Zenon
  <2>. HIDE DEF r
  <2>2. DOMAIN r = 1 .. Len(r)
    BY <2>1
  <2>3. DOMAIN r = 1 .. Len(s) - 1
    BY <2>1, <2>2, Zenon
  <2>. QED
    BY <2>3, Zenon DEF r
<1>. QED
  BY <1>1, <1>4, <1>5, <1>6, Zenon DEF p, q

\* The Senders that stay keep their order and their times.
LEMMA DestroyedServed ==
  ASSUME RouterInv, NEW ssrc \in Ssrcs, OnSenderDestroyed(ssrc)
  PROVE  RouterInv'
<1>. DEFINE k == FindEntry(ssrc)
            from(i) == IF i < k THEN i ELSE i + 1
<1>0. /\ ssrc \in Registered
      /\ senders' = SubSeq(senders, 1, k - 1) \o SubSeq(senders, k + 1, Len(senders))
      /\ consuming' = (senders' # <<>>) /\ client' = [client EXCEPT ![ssrc] = Idle]
      /\ UNCHANGED <<now, lastBurst, alarm, fire, burst>>
  BY Zenon DEF OnSenderDestroyed, Idle, kNever
<1>1. k \in DOMAIN senders /\ senders[k].receiver_ssrc = ssrc
  BY <1>0, FindFacts, Zenon
<1>2. senders \in Seq(SenderEntry) /\ client \in [Ssrcs -> Client] /\ InPriorityOrder(senders)
  BY Zenon DEF RouterInv, Served
<1>. HIDE DEF k
<1>3. /\ senders' \in Seq(SenderEntry) /\ DOMAIN senders' = 1 .. Len(senders) - 1
      /\ Len(senders) \in Nat /\ DOMAIN senders = 1 .. Len(senders)
      /\ \A i \in DOMAIN senders' : senders'[i] = senders[from(i)]
  BY <1>0, <1>1, <1>2, RemoveFacts, Zenon
<1>4. ASSUME NEW i \in DOMAIN senders'
      PROVE  from(i) \in DOMAIN senders /\ from(i) # k /\ i \in Nat
  BY <1>1, <1>3
<1>5. ASSUME NEW i \in DOMAIN senders', NEW j \in DOMAIN senders', i < j
      PROVE  from(i) < from(j)
  BY <1>1, <1>3, <1>5
<1>. HIDE DEF from
<1>6. InPriorityOrder(senders')
  BY <1>2, <1>3, <1>4, <1>5, Zenon DEF InPriorityOrder
<1>7. client' \in [Ssrcs -> Client]
  BY <1>0, <1>2, NewTypes, Zenon
<1>8. ASSUME NEW x \in Ssrcs, \A i \in DOMAIN senders' : senders'[i].receiver_ssrc # x
      PROVE  client'[x] = Idle
  <2>1. CASE x = ssrc
    BY <1>0, <1>2, <2>1, Zenon
  <2>2. CASE x # ssrc
    <3>1. ASSUME NEW j \in DOMAIN senders
          PROVE  senders[j].receiver_ssrc # x
      <4>1. CASE j = k
        BY <1>1, <2>2, <4>1, Zenon
      <4>2. CASE j # k
        <5>1. PICK i \in DOMAIN senders' : from(i) = j
          <6>1. CASE j < k
            <7>1. j \in DOMAIN senders' /\ from(j) = j
              BY <1>1, <1>3, <6>1 DEF from
            <7>. QED
              BY <7>1, Zenon
          <6>2. CASE ~(j < k)
            <7>1. j - 1 \in DOMAIN senders' /\ from(j - 1) = j
              BY <1>1, <1>3, <4>2, <6>2, SMTT(30) DEF from
            <7>. QED
              BY <7>1, Zenon
          <6>. QED
            BY <6>1, <6>2, Zenon
        <5>. QED
          BY <1>3, <1>8, <5>1, Zenon
      <4>. QED
        BY <4>1, <4>2, Zenon
    <3>2. client[x] = Idle
      BY <3>1, Zenon DEF RouterInv, Served
    <3>. QED
      BY <1>0, <1>2, <2>2, <3>2, Zenon
  <2>. QED
    BY <2>1, <2>2, Zenon
<1>9. ASSUME NEW i \in DOMAIN senders'
      PROVE  Timely(senders'[i], client'[senders'[i].receiver_ssrc], now, lastBurst, alarm, fire)
  <2>1. senders'[i] = senders[from(i)] /\ from(i) \in DOMAIN senders /\ from(i) # k
    BY <1>3, <1>4, Zenon
  <2>2. senders[from(i)].receiver_ssrc # ssrc
    BY <1>1, <2>1, FindFacts, Zenon
  <2>3. client'[senders'[i].receiver_ssrc] = client[senders[from(i)].receiver_ssrc]
    <3>1. senders[from(i)] \in SenderEntry
      BY <1>2, <2>1
    <3>2. senders[from(i)].receiver_ssrc \in Ssrcs
      BY <3>1, EntryFacts, Zenon
    <3>. QED
      BY <1>0, <1>2, <2>1, <2>2, <3>2, Zenon
  <2>. QED
    BY <2>1, <2>3, Zenon DEF RouterInv, Served
<1>10. Served(now', senders', lastBurst', alarm', fire', consuming', client', burst')
  BY <1>0, <1>3, <1>6, <1>7, <1>8, <1>9, Zenon DEF RouterInv, Served
<1>. QED
  BY <1>10, RouterInvNext, Zenon

-----------------------------------------------------------------------------
(* Requests, feedback and time *)

\* A request of the Sender of the k-th entry, which becomes e while it has c to send:
\* the Alarm is scheduled anew for all of the Senders.
LEMMA RequestServed ==
  ASSUME RouterInv, NEW k \in DOMAIN senders, NEW e \in SenderEntry, NEW c \in Client,
         e.receiver_ssrc = senders[k].receiver_ssrc,
         \/ /\ e.next_rtp_send_time = kImmediately
            /\ e.next_rtcp_send_time = senders[k].next_rtcp_send_time
            /\ c.has_report = client[e.receiver_ssrc].has_report
         \/ /\ e.next_rtcp_send_time = kImmediately
            /\ e.next_rtp_send_time = senders[k].next_rtp_send_time
            /\ c.has_report
            /\ c.packets = client[e.receiver_ssrc].packets
            /\ c.kickstart = client[e.receiver_ssrc].kickstart,
         senders' = [senders EXCEPT ![k] = e],
         client' = [client EXCEPT ![e.receiver_ssrc] = c],
         ScheduleNextBurst(senders', lastBurst, fire),
         UNCHANGED <<now, lastBurst, consuming, burst>>
  PROVE  RouterInv'
<1>1. /\ senders \in Seq(SenderEntry) /\ client \in [Ssrcs -> Client] /\ InPriorityOrder(senders)
      /\ now \in 1 .. MaxTime /\ lastBurst \in -BurstInterval .. MaxTime /\ fire \in SendTimes
      /\ consuming = (senders # <<>>) /\ burst \in Burst
      /\ \A i \in DOMAIN senders :
           Timely(senders[i], client[senders[i].receiver_ssrc], now, lastBurst, alarm, fire)
  BY Zenon DEF RouterInv, Served
<1>2. /\ senders' \in Seq(SenderEntry) /\ DOMAIN senders' = DOMAIN senders
      /\ senders'[k] = e /\ \A i \in DOMAIN senders : i # k => senders'[i] = senders[i]
      /\ senders' # <<>> /\ senders # <<>>
  BY <1>1
<1>3. \A i \in DOMAIN senders : senders'[i].receiver_ssrc = senders[i].receiver_ssrc
  BY <1>2, Zenon
<1>4. InPriorityOrder(senders')
  BY <1>1, <1>2, <1>3 DEF InPriorityOrder
<1>5. e.receiver_ssrc \in Ssrcs
  BY EntryFacts, Zenon
<1>6. /\ client' \in [Ssrcs -> Client] /\ client'[e.receiver_ssrc] = c
      /\ \A x \in Ssrcs : x # e.receiver_ssrc => client'[x] = client[x]
  BY <1>1, <1>5, Zenon
<1>7. ASSUME NEW x \in Ssrcs, \A i \in DOMAIN senders' : senders'[i].receiver_ssrc # x
      PROVE  client'[x] = Idle
  <2>1. \A i \in DOMAIN senders : senders[i].receiver_ssrc # x
    BY <1>2, <1>3, <1>7, Zenon
  <2>2. client[x] = Idle /\ x # e.receiver_ssrc
    BY <2>1, Zenon DEF RouterInv, Served
  <2>. QED
    BY <1>6, <2>2, Zenon
<1>8. /\ alarm' \in SendTimes /\ fire' \in SendTimes /\ fire' <= fire
      /\ alarm' # kNever => lastBurst + BurstInterval <= alarm'
      /\ \A i \in DOMAIN senders' :
           \A x \in {senders'[i].next_rtcp_send_time, senders'[i].next_rtp_send_time} :
             x # kNever =>
               alarm' <= now \/ alarm' <= x \/ alarm' <= lastBurst + BurstInterval
  BY <1>1, <1>2, ScheduleFacts, ZenonT(60)
<1>9. ASSUME NEW i \in DOMAIN senders'
      PROVE  Timely(senders'[i], client'[senders'[i].receiver_ssrc], now, lastBurst, alarm', fire')
  <2>. DEFINE y == senders'[i]
              z == client'[y.receiver_ssrc]
              y0 == senders[i]
              z0 == client[y.receiver_ssrc]
  <2>1. /\ y \in SenderEntry /\ y0 \in SenderEntry /\ y.receiver_ssrc = y0.receiver_ssrc
        /\ i \in DOMAIN senders
    BY <1>1, <1>2, <1>3
  <2>2. Timely(y0, z0, now, lastBurst, alarm, fire)
    BY <1>1, <2>1, Zenon
  <2>3. z \in Client /\ z0 \in Client
    BY <1>1, <1>6, <2>1, EntryFacts, SMTT(60)
  <2>4. \A x \in {y.next_rtcp_send_time, y.next_rtp_send_time} :
          x # kNever => alarm' <= now \/ alarm' <= x \/ alarm' <= lastBurst + BurstInterval
    BY <1>8, Zenon
  <2>5. \/ y = y0 /\ z = z0
        \/ /\ y.next_rtp_send_time = kImmediately
           /\ y.next_rtcp_send_time = y0.next_rtcp_send_time /\ z.has_report = z0.has_report
        \/ /\ y.next_rtcp_send_time = kImmediately
           /\ y.next_rtp_send_time = y0.next_rtp_send_time
           /\ z.has_report /\ z.packets = z0.packets /\ z.kickstart = z0.kickstart
    <3>1. CASE i = k
      BY <1>2, <1>6, <3>1
    <3>2. CASE i # k
      <4>1. y = y0
        BY <1>2, <2>1, <3>2, Zenon
      <4>2. y.receiver_ssrc # e.receiver_ssrc /\ y.receiver_ssrc \in Ssrcs
        BY <2>1, <3>2, <4>1, FindFacts, EntryFacts, Zenon
      <4>. QED
        BY <1>6, <4>1, <4>2, Zenon
    <3>. QED
      BY <3>1, <3>2, Zenon
  <2>. HIDE DEF y, z, y0, z0
  <2>6. y.next_rtp_send_time <= IF z.packets > 0 THEN kImmediately ELSE z.kickstart
    BY <2>2, <2>3, <2>5, Bounds, ClientFacts, SMTT(60) DEF Timely
  <2>7. z.has_report <=> y.next_rtcp_send_time # kNever
    BY <2>2, <2>5, Bounds DEF Timely
  <2>8. ASSUME y.next_rtcp_send_time \notin {kImmediately, kNever}
        PROVE  /\ lastBurst < y.next_rtcp_send_time
               /\ fire' <= y.next_rtcp_send_time \/ fire' <= lastBurst + BurstInterval
               /\ now < y.next_rtcp_send_time + BurstInterval + MaxLateness
    <3>1. y.next_rtcp_send_time = y0.next_rtcp_send_time
      BY <2>5, <2>8, Zenon
    <3>2. /\ lastBurst < y.next_rtcp_send_time
          /\ fire <= y.next_rtcp_send_time \/ fire <= lastBurst + BurstInterval
          /\ now < y.next_rtcp_send_time + BurstInterval + MaxLateness
      BY <2>2, <2>8, <3>1, Zenon DEF Timely
    <3>3. y.next_rtcp_send_time \in Int
      BY <2>1, EntryFacts, Zenon
    <3>4. fire \in Int /\ fire' \in Int /\ lastBurst + BurstInterval \in Int
      <4>1. SendTimes \subseteq Int /\ BurstInterval \in Int
        BY Bounds
      <4>. QED
        BY <1>1, <1>8, <4>1
    <3>5. fire' <= y.next_rtcp_send_time \/ fire' <= lastBurst + BurstInterval
      BY <1>8, <3>2, <3>3, <3>4
    <3>. QED
      BY <3>2, <3>5, Zenon
  <2>9. Timely(y, z, now, lastBurst, alarm', fire')
    BY <2>4, <2>6, <2>7, <2>8, Zenon DEF Timely
  <2>. QED
    BY <2>9, Zenon DEF y, z
<1>10. Served(now', senders', lastBurst', alarm', fire', consuming', client', burst')
  BY <1>1, <1>2, <1>4, <1>6, <1>7, <1>8, <1>9 DEF Served
<1>. QED
  BY <1>10, RouterInvNext, Zenon

\* RequestRtpSend() makes the Sender due for RTP packets at once.
LEMMA RequestRtpServed ==
  ASSUME RouterInv, NEW ssrc \in Ssrcs, NEW flagged \in 1 .. MaxPackets,
         RequestRtpSend(ssrc, flagged)
  PROVE  RouterInv'
<1>. DEFINE k == FindEntry(ssrc)
            e == [senders[k] EXCEPT !.next_rtp_send_time = kImmediately]
            c == [client[ssrc] EXCEPT !.packets = client[ssrc].packets + flagged]
<1>1. /\ ssrc \in Registered /\ client[ssrc].packets + flagged <= MaxPackets
      /\ client' = [client EXCEPT ![ssrc] = c] /\ senders' = [senders EXCEPT ![k] = e]
      /\ ScheduleNextBurst(senders', lastBurst, fire)
      /\ UNCHANGED <<now, lastBurst, consuming, burst>>
  BY Zenon DEF RequestRtpSend
<1>2. k \in DOMAIN senders /\ senders[k].receiver_ssrc = ssrc
  BY <1>1, FindFacts, Zenon
<1>. HIDE DEF k
<1>3. senders[k] \in SenderEntry /\ client[ssrc] \in Client
  BY <1>2 DEF RouterInv, Served
<1>4. /\ e \in SenderEntry /\ e.receiver_ssrc = ssrc /\ e.next_rtp_send_time = kImmediately
      /\ e.next_rtcp_send_time = senders[k].next_rtcp_send_time
  <2>1. kImmediately \in SendTimes
    BY Bounds
  <2>. QED
    BY <1>2, <1>3, <2>1, Zenon DEF SenderEntry
<1>5. c \in Client /\ c.has_report = client[ssrc].has_report
  <2>1. client[ssrc].packets + flagged \in 0 .. MaxPackets
    BY <1>1, <1>3, Bounds, ClientFacts, SMTT(60)
  <2>. QED
    BY <1>3, <2>1, Zenon DEF Client
<1>. HIDE DEF e, c
<1>. QED
  BY <1>1, <1>2, <1>4, <1>5, RequestServed, Zenon

\* RequestRtcpSend() makes the Sender due for a report at once.
LEMMA RequestRtcpServed ==
  ASSUME RouterInv, NEW ssrc \in Ssrcs, RequestRtcpSend(ssrc)
  PROVE  RouterInv'
<1>. DEFINE k == FindEntry(ssrc)
            e == [senders[k] EXCEPT !.next_rtcp_send_time = kImmediately]
            c == [client[ssrc] EXCEPT !.has_report = TRUE]
<1>1. /\ ssrc \in Registered
      /\ client' = [client EXCEPT ![ssrc] = c] /\ senders' = [senders EXCEPT ![k] = e]
      /\ ScheduleNextBurst(senders', lastBurst, fire)
      /\ UNCHANGED <<now, lastBurst, consuming, burst>>
  BY Zenon DEF RequestRtcpSend
<1>2. k \in DOMAIN senders /\ senders[k].receiver_ssrc = ssrc
  BY <1>1, FindFacts, Zenon
<1>. HIDE DEF k
<1>3. senders[k] \in SenderEntry /\ client[ssrc] \in Client
  BY <1>2 DEF RouterInv, Served
<1>4. /\ e \in SenderEntry /\ e.receiver_ssrc = ssrc /\ e.next_rtcp_send_time = kImmediately
      /\ e.next_rtp_send_time = senders[k].next_rtp_send_time
  <2>1. kImmediately \in SendTimes
    BY Bounds
  <2>. QED
    BY <1>2, <1>3, <2>1, Zenon DEF SenderEntry
<1>5. /\ c \in Client /\ c.has_report /\ c.packets = client[ssrc].packets
      /\ c.kickstart = client[ssrc].kickstart
  BY <1>3, Zenon DEF Client
<1>. HIDE DEF e, c
<1>. QED
  BY <1>1, <1>2, <1>4, <1>5, RequestServed, Zenon

\* Feedback only cancels what a Sender would have sent.
LEMMA FeedbackServed ==
  ASSUME RouterInv, NEW ssrc \in Ssrcs, OnReceivedPacket(ssrc)
  PROVE  RouterInv'
<1>1. PICK rest \in 0 .. client[ssrc].packets, kickstart \in {client[ssrc].kickstart, kNever} :
        client' = [client EXCEPT ![ssrc] =
                     [has_report |-> client[ssrc].has_report,
                      packets |-> rest, kickstart |-> kickstart]]
  BY Zenon DEF OnReceivedPacket
<1>2. UNCHANGED <<now, senders, lastBurst, alarm, fire, consuming, burst>> /\ ssrc \in Registered
  BY Zenon DEF OnReceivedPacket, routerVars
<1>. DEFINE c0 == client[ssrc]
            c == [has_report |-> c0.has_report, packets |-> rest, kickstart |-> kickstart]
<1>3. client \in [Ssrcs -> Client] /\ c0 \in Client /\ senders \in Seq(SenderEntry)
  BY Zenon DEF RouterInv, Served
<1>4. /\ c0.packets \in 0 .. MaxPackets /\ c0.kickstart \in 0 .. kNever
      /\ c0.has_report \in BOOLEAN
  BY <1>3, ClientFacts, Zenon
<1>5. /\ c \in Client /\ rest \in Nat /\ rest <= c0.packets /\ kickstart \in 0 .. kNever
      /\ c0.kickstart <= kickstart
  <2>1. rest \in 0 .. MaxPackets /\ rest \in Nat /\ rest <= c0.packets
    BY <1>4, Bounds
  <2>2. kickstart \in SendTimes /\ kickstart \in 0 .. kNever /\ c0.kickstart <= kickstart
    BY <1>4, Bounds
  <2>. QED
    BY <1>4, <2>1, <2>2, Zenon DEF Client
<1>6. /\ client' \in [Ssrcs -> Client] /\ client'[ssrc] = c
      /\ \A x \in Ssrcs : x # ssrc => client'[x] = client[x]
  BY <1>1, <1>3, <1>5, Zenon
<1>7. ASSUME NEW x \in Ssrcs, \A i \in DOMAIN senders : senders[i].receiver_ssrc # x
      PROVE  client'[x] = Idle
  <2>1. x # ssrc
    BY <1>2, <1>7, Zenon DEF Registered
  <2>2. client[x] = Idle
    BY <1>7, Zenon DEF RouterInv, Served
  <2>. QED
    BY <1>6, <2>1, <2>2, Zenon
<1>8. c.packets = rest /\ c.kickstart = kickstart /\ c.has_report = c0.has_report
  BY Zenon
<1>. HIDE DEF c, c0
<1>9. ASSUME NEW e \in SenderEntry, Timely(e, c0, now, lastBurst, alarm, fire)
      PROVE  Timely(e, c, now, lastBurst, alarm, fire)
  <2>1. e.next_rtp_send_time <= IF c0.packets > 0 THEN 0 ELSE c0.kickstart
    BY <1>9, Bounds, Zenon DEF Timely
  <2>2. e.next_rtp_send_time \in Nat /\ c0.kickstart \in Nat /\ c0.packets \in Nat
    BY <1>4, EntryFacts, Bounds, SMTT(60)
  <2>3. e.next_rtp_send_time <= IF c.packets > 0 THEN kImmediately ELSE c.kickstart
    BY <1>4, <1>5, <1>8, <2>1, <2>2, Bounds
  <2>. QED
    BY <1>8, <1>9, <2>3, Zenon DEF Timely
<1>10. ASSUME NEW i \in DOMAIN senders
       PROVE  Timely(senders[i], client'[senders[i].receiver_ssrc], now, lastBurst, alarm, fire)
  <2>1. /\ senders[i] \in SenderEntry /\ senders[i].receiver_ssrc \in Ssrcs
        /\ Timely(senders[i], client[senders[i].receiver_ssrc], now, lastBurst, alarm, fire)
    BY <1>3, EntryFacts DEF RouterInv, Served
  <2>2. CASE senders[i].receiver_ssrc = ssrc
    BY <1>6, <1>9, <2>1, <2>2, Zenon DEF c0
  <2>3. CASE senders[i].receiver_ssrc # ssrc
    BY <1>6, <2>1, <2>3, Zenon
  <2>. QED
    BY <2>2, <2>3, Zenon
<1>11. Served(now', senders', lastBurst', alarm', fire', consuming', client', burst')
  BY <1>2, <1>6, <1>7, <1>10, Zenon DEF RouterInv, Served
<1>. QED
  BY <1>11, RouterInvNext, Zenon

\* While the functor of the Alarm is not too late, no report is.
LEMMA TickServed ==
  ASSUME RouterInv, Tick
  PROVE  RouterInv'
<1>1. /\ now < MaxTime /\ now < fire + MaxLateness /\ now' = now + 1
      /\ UNCHANGED <<senders, lastBurst, alarm, fire, consuming, client, burst>>
  BY Zenon DEF Tick, routerVars
<1>2. /\ now \in 1 .. MaxTime /\ senders \in Seq(SenderEntry) /\ fire \in Nat /\ alarm \in Nat
      /\ lastBurst \in Int
  BY Bounds DEF RouterInv, Served
<1>3. ASSUME NEW e \in SenderEntry, NEW c, Timely(e, c, now, lastBurst, alarm, fire)
      PROVE  Timely(e, c, now + 1, lastBurst, alarm, fire)
  <2>1. e.next_rtcp_send_time \in Int /\ e.next_rtp_send_time \in Int
    BY EntryFacts, Zenon
  <2>2. ASSUME e.next_rtcp_send_time \notin {kImmediately, kNever}
        PROVE  now + 1 < e.next_rtcp_send_time + BurstInterval + MaxLateness
    <3>1. /\ lastBurst < e.next_rtcp_send_time
          /\ fire <= e.next_rtcp_send_time \/ fire <= lastBurst + BurstInterval
      BY <1>3, <2>2, Zenon DEF Timely
    <3>2. fire < e.next_rtcp_send_time + BurstInterval
      BY <1>2, <2>1, <3>1, Bounds
    <3>. QED
      BY <1>1, <1>2, <2>1, <3>2, Bounds
  <2>3. \A x \in {e.next_rtcp_send_time, e.next_rtp_send_time} :
          x # kNever => alarm <= now + 1 \/ alarm <= x \/ alarm <= lastBurst + BurstInterval
    BY <1>2, <1>3 DEF Timely
  <2>. QED
    BY <1>3, <2>2, <2>3, Zenon DEF Timely
<1>4. \A i \in DOMAIN senders :
        Timely(senders[i], client[senders[i].receiver_ssrc], now + 1, lastBurst, alarm, fire)
  BY <1>2, <1>3 DEF RouterInv, Served
<1>5. now + 1 \in 1 .. MaxTime
  BY <1>1, <1>2, Bounds
<1>6. Served(now', senders', lastBurst', alarm', fire', consuming', client', burst')
  BY <1>1, <1>4, <1>5, Zenon DEF RouterInv, Served
<1>. QED
  BY <1>6, RouterInvNext, Zenon

-----------------------------------------------------------------------------
(* Bursts *)

\* What the i-th Sender sends when x more packets may be sent.
LEMMA SentFacts ==
  ASSUME RouterInv, NEW i \in DOMAIN senders, NEW x \in Int
  PROVE  /\ Available(i) \in Nat /\ PacketsSent(i, x) \in Nat
         /\ PacketsSent(i, x) > 0 => IsAsked(i, x)
         /\ IsAsked(i, x) => x > 0 /\ PacketsSent(i, x) = IF Available(i) <= x THEN Available(i) ELSE x
         /\ ~IsAsked(i, x) => PacketsSent(i, x) = 0
<1>. DEFINE c == client[senders[i].receiver_ssrc]
<1>1. senders[i] \in SenderEntry /\ client \in [Ssrcs -> Client]
  BY DEF RouterInv, Served
<1>2. senders[i].receiver_ssrc \in Ssrcs
  BY <1>1, EntryFacts, Zenon
<1>3. c \in Client
  BY <1>1, <1>2, Zenon
<1>4. Available(i) = c.packets + (IF c.kickstart <= now THEN 1 ELSE 0)
  BY Zenon DEF Available
<1>. HIDE DEF c
<1>5. Available(i) \in Nat
  BY <1>3, <1>4, ClientFacts, Bounds
<1>6. Min({Available(i), x}) = IF Available(i) <= x THEN Available(i) ELSE x
  <2>1. Available(i) \in Int
    BY <1>5
  <2>. QED
    BY <2>1, OfTwo, Zenon
<1>7. IsAsked(i, x) => x > 0
  BY Zenon DEF IsAsked
<1>8. PacketsSent(i, x) = IF IsAsked(i, x) THEN Min({Available(i), x}) ELSE 0
  BY Zenon DEF PacketsSent
<1>. QED
  BY <1>5, <1>6, <1>7, <1>8

\* SendJustTheRtpPackets() asks one Sender after the other, and leaves the later
\* ones what the earlier have not used.
LEMMA LeftFacts ==
  ASSUME RouterInv, NEW budget \in Int
  PROVE  LET n == Len(senders)
             left == LeftAfter(budget)
         IN  /\ n \in Nat /\ DOMAIN senders = 1 .. n /\ left[0] = budget
             /\ \A i \in 0 .. n : left[i] \in Int
             /\ \A i \in 1 .. n : left[i] = left[i - 1] - PacketsSent(i, left[i - 1])
<1>. DEFINE n == Len(senders)
            step == [i \in 1 .. n |-> [x \in Int |-> x - PacketsSent(i, x)]]
            Eq(f) == f = [i \in 0 .. n |->
                            IF i = 0 THEN budget ELSE f[i - 1] - PacketsSent(i, f[i - 1])]
            left == LeftAfter(budget)
<1>1. n \in Nat /\ DOMAIN senders = 1 .. n
  BY DEF RouterInv, Served
<1>2. \A i \in 1 .. n : \A x \in Int : PacketsSent(i, x) \in Int
  BY <1>1, SentFacts
<1>3. step \in [1 .. n -> [Int -> Int]]
  BY <1>2
<1>. HIDE DEF n
<1>4. PICK f \in [0 .. n -> Int] : f[0] = budget /\ \A i \in 1 .. n : f[i] = step[i][f[i - 1]]
  <2>. HIDE DEF step
  <2>. QED
    BY <1>1, <1>3, Accumulate, Zenon
<1>5. ASSUME NEW i \in 0 .. n
      PROVE  f[i] = IF i = 0 THEN budget ELSE f[i - 1] - PacketsSent(i, f[i - 1])
  <2>1. CASE i = 0
    BY <1>4, <2>1, Zenon
  <2>2. CASE i # 0
    <3>1. i \in 1 .. n /\ i - 1 \in 0 .. n
      BY <1>1, <2>2
    <3>2. f[i - 1] \in Int
      BY <3>1, Zenon
    <3>3. step[i][f[i - 1]] = f[i - 1] - PacketsSent(i, f[i - 1])
      BY <3>1, <3>2, Zenon
    <3>. QED
      BY <1>4, <2>2, <3>1, <3>3, Zenon
  <2>. QED
    BY <2>1, <2>2, Zenon
<1>6. Eq(f)
  BY <1>5, Zenon
<1>7. Eq(CHOOSE g : Eq(g))
  <2>. HIDE DEF Eq
  <2>. QED
    BY <1>6, Zenon
<1>8. left = CHOOSE g : Eq(g)
  BY Zenon DEF LeftAfter, n
<1>9. Eq(left)
  BY <1>7, <1>8, Zenon
<1>. HIDE DEF left
<1>10. left[0] = budget
  BY <1>1, <1>9
<1>11. ASSUME NEW i \in 1 .. n
       PROVE  left[i] = left[i - 1] - PacketsSent(i, left[i - 1])
  BY <1>1, <1>9
<1>. DEFINE T == {i \in 0 .. n : left[i] \in Int}
<1>12. 0 \in T
  BY <1>1, <1>10
<1>13. ASSUME NEW i \in 1 .. n, i - 1 \in T
       PROVE  i \in T
  <2>1. i \in 0 .. n /\ left[i - 1] \in Int
    BY <1>1, <1>13
  <2>2. PacketsSent(i, left[i - 1]) \in Int
    BY <1>2, <2>1, Zenon
  <2>. QED
    BY <1>11, <2>1, <2>2
<1>14. T = 0 .. n
  <2>1. T \in SUBSET (0 .. n)
    BY Zenon
  <2>. HIDE DEF T
  <2>. QED
    BY <1>1, <1>12, <1>13, <2>1, BoundedInduction, Zenon
<1>15. \A i \in 0 .. n : left[i] \in Int
  BY <1>14, Zenon
<1>. QED
  BY <1>1, <1>10, <1>11, <1>15, Zenon DEF left, n

\* The later Senders are left no more than the earlier ones.
LEMMA LeftDecreases ==
  ASSUME RouterInv, NEW budget \in Int, NEW i \in 0 .. Len(senders), NEW j \in 0 .. Len(senders),
         i <= j
  PROVE  LeftAfter(budget)[j] <= LeftAfter(budget)[i]
<1>. DEFINE n == Len(senders)
            left == LeftAfter(budget)
            T == {m \in 0 .. n : i <= m => left[m] <= left[i]}
<1>1. /\ n \in Nat /\ DOMAIN senders = 1 .. n /\ \A m \in 0 .. n : left[m] \in Int
      /\ \A m \in 1 .. n : left[m] = left[m - 1] - PacketsSent(m, left[m - 1])
  BY LeftFacts, Zenon
<1>2. i \in 0 .. n /\ j \in 0 .. n
  BY Zenon
<1>. HIDE DEF n, left
<1>3. 0 \in T
  <2>1. i <= 0 => i = 0
    BY <1>1, <1>2
  <2>. QED
    BY <1>1, <1>2, <2>1
<1>4. ASSUME NEW m \in 1 .. n, m - 1 \in T
      PROVE  m \in T
  <2>1. m - 1 \in 0 .. n /\ m \in 0 .. n
    BY <1>1
  <2>2. PacketsSent(m, left[m - 1]) \in Nat
    BY <1>1, <2>1, SentFacts, Zenon
  <2>3. left[m] <= left[m - 1] /\ left[m] \in Int /\ left[m - 1] \in Int /\ left[i] \in Int
    BY <1>1, <1>2, <2>1, <2>2
  <2>4. CASE i <= m - 1
    BY <1>4, <2>1, <2>3, <2>4
  <2>5. CASE ~(i <= m - 1)
    <3>1. i <= m => i = m
      BY <1>2, <2>1, <2>5
    <3>. QED
      BY <2>1, <2>3, <3>1
  <2>. QED
    BY <2>4, <2>5, Zenon
<1>5. T = 0 .. n
  <2>1. T \in SUBSET (0 .. n)
    BY Zenon
  <2>. HIDE DEF T
  <2>. QED
    BY <1>1, <1>3, <1>4, <2>1, BoundedInduction, Zenon
<1>6. j \in T
  BY <1>2, <1>5, Zenon
<1>. QED
  BY <1>6, Zenon DEF left

\* A Sender after it has sent n packets.
LEMMA AfterFacts ==
  ASSUME RouterInv, NEW c \in Client, NEW n \in Nat
  PROVE  LET d == AfterSending(c, n)
         IN  /\ d \in Client /\ d.has_report = c.has_report
             /\ ResumeTime(d) \in SendTimes
             /\ ResumeTime(d) = IF d.packets > 0 THEN kImmediately ELSE d.kickstart
             /\ n = 0 => d = c
<1>. DEFINE p == IF n < c.packets THEN c.packets - n ELSE 0
            k == IF n > 0 /\ n >= c.packets THEN now + KickstartInterval ELSE c.kickstart
            d == AfterSending(c, n)
<1>1. c.packets \in 0 .. MaxPackets /\ c.kickstart \in 0 .. kNever /\ c.has_report \in BOOLEAN
  BY ClientFacts, Zenon
<1>2. now \in 1 .. MaxTime
  BY Zenon DEF RouterInv, Served
<1>3. p \in 0 .. MaxPackets /\ (n = 0 => p = c.packets)
  BY <1>1, Bounds
<1>4. k \in SendTimes /\ (n = 0 => k = c.kickstart)
  BY <1>1, <1>2, Bounds
<1>5. d = [has_report |-> c.has_report, packets |-> p, kickstart |-> k]
  BY Zenon DEF AfterSending
<1>. HIDE DEF p, k, d
<1>6. d.has_report = c.has_report /\ d.packets = p /\ d.kickstart = k /\ d \in Client
  BY <1>1, <1>3, <1>4, <1>5, Zenon DEF Client
<1>7. n = 0 => d = c
  BY <1>3, <1>4, <1>5, ClientFacts, Zenon
<1>8. ResumeTime(d) = IF d.packets > 0 THEN kImmediately ELSE d.kickstart
  BY Zenon DEF ResumeTime
<1>9. ResumeTime(d) \in SendTimes
  BY <1>4, <1>6, <1>8, Bounds
<1>. QED
  BY <1>6, <1>7, <1>8, <1>9, Zenon DEF d

\* What a burst does for the Sender of each entry: i is the entry, and left[i - 1] is
\* how many packets the Senders before it have left it.
LEMMA BurstFacts ==
  ASSUME RouterInv, SendBurstOfPackets
  PROVE  LET left == LeftAfter(MaxPacketsPerBurst - Cardinality(Reporting))
             c(i) == client[senders[i].receiver_ssrc]
             d(i) == AfterSending(c(i), PacketsSent(i, left[i - 1]))
         IN  /\ alarm <= now /\ lastBurst' = now /\ UNCHANGED <<now, consuming>>
             /\ ScheduleNextBurst(senders', now, kNever)
             /\ senders' = [i \in DOMAIN senders |-> senders'[i]]
             /\ \A i \in DOMAIN senders :
                  /\ senders'[i] =
                       [receiver_ssrc |-> senders[i].receiver_ssrc,
                        next_rtcp_send_time |->
                          IF i \in Reporting THEN now + RtcpInterval
                                             ELSE senders[i].next_rtcp_send_time,
                        next_rtp_send_time |->
                          IF IsAsked(i, left[i - 1]) THEN ResumeTime(d(i))
                                                     ELSE senders[i].next_rtp_send_time]
                  /\ client'[senders[i].receiver_ssrc] = d(i)
                  /\ burst'.packets[senders[i].receiver_ssrc] = PacketsSent(i, left[i - 1])
             /\ client' = [ssrc \in Ssrcs |-> client'[ssrc]]
             /\ \A ssrc \in Ssrcs \ Registered : client'[ssrc] = client[ssrc]
             /\ burst' = [reports |-> {senders[i].receiver_ssrc : i \in Reporting},
                          packets |-> burst'.packets]
             /\ burst'.packets = [ssrc \in Ssrcs |-> burst'.packets[ssrc]]
             /\ \A ssrc \in Ssrcs \ Registered : burst'.packets[ssrc] = 0
<1>. DEFINE left == LeftAfter(MaxPacketsPerBurst - Cardinality(Reporting))
            sent(i) == PacketsSent(i, left[i - 1])
            c(i) == client[senders[i].receiver_ssrc]
            d(i) == AfterSending(c(i), sent(i))
            packets == [ssrc \in Ssrcs |->
                          IF ssrc \in Registered THEN sent(FindEntry(ssrc)) ELSE 0]
<1>1. /\ alarm <= now /\ lastBurst' = now /\ UNCHANGED <<now, consuming>>
      /\ ScheduleNextBurst(senders', now, kNever)
      /\ client' = [ssrc \in Ssrcs |->
                      IF ssrc \in Registered THEN d(FindEntry(ssrc)) ELSE client[ssrc]]
      /\ senders' = [i \in DOMAIN senders |->
                       IF IsAsked(i, left[i - 1])
                         THEN [SendJustTheRtcpPackets[i] EXCEPT
                                 !.next_rtp_send_time = ResumeTime(d(i))]
                         ELSE SendJustTheRtcpPackets[i]]
      /\ burst' = [reports |-> {senders[i].receiver_ssrc : i \in Reporting}, packets |-> packets]
  BY Zenon DEF SendBurstOfPackets
<1>2. senders \in Seq(SenderEntry)
  BY Zenon DEF RouterInv, Served
<1>. HIDE DEF left, sent, d
<1>3. ASSUME NEW i \in DOMAIN senders
      PROVE  /\ senders[i].receiver_ssrc \in Ssrcs /\ senders[i].receiver_ssrc \in Registered
             /\ FindEntry(senders[i].receiver_ssrc) = i /\ senders[i] \in SenderEntry
  BY <1>2, FindFacts, EntryFacts
<1>4. \A i \in DOMAIN senders : client'[senders[i].receiver_ssrc] = d(i)
  BY <1>1, <1>3, Zenon
<1>5. packets = burst'.packets
  BY <1>1, Zenon
<1>6. \A i \in DOMAIN senders : packets[senders[i].receiver_ssrc] = sent(i)
  BY <1>3, Zenon
<1>7. ASSUME NEW i \in DOMAIN senders
      PROVE  senders'[i] =
               [receiver_ssrc |-> senders[i].receiver_ssrc,
                next_rtcp_send_time |->
                  IF i \in Reporting THEN now + RtcpInterval ELSE senders[i].next_rtcp_send_time,
                next_rtp_send_time |->
                  IF IsAsked(i, left[i - 1]) THEN ResumeTime(d(i))
                                             ELSE senders[i].next_rtp_send_time]
  <2>1. senders[i] = [receiver_ssrc |-> senders[i].receiver_ssrc,
                      next_rtcp_send_time |-> senders[i].next_rtcp_send_time,
                      next_rtp_send_time |-> senders[i].next_rtp_send_time]
    BY <1>3, EntryFacts, Zenon
  <2>2. SendJustTheRtcpPackets[i] =
          [receiver_ssrc |-> senders[i].receiver_ssrc,
           next_rtcp_send_time |->
             IF i \in Reporting THEN now + RtcpInterval ELSE senders[i].next_rtcp_send_time,
           next_rtp_send_time |-> senders[i].next_rtp_send_time]
    BY <2>1, Zenon DEF SendJustTheRtcpPackets
  <2>3. senders'[i] = IF IsAsked(i, left[i - 1])
                        THEN [SendJustTheRtcpPackets[i] EXCEPT
                                !.next_rtp_send_time = ResumeTime(d(i))]
                        ELSE SendJustTheRtcpPackets[i]
    BY <1>1, Zenon
  <2>. QED
    BY <2>2, <2>3
<1>8. /\ senders' = [i \in DOMAIN senders |-> senders'[i]]
      /\ client' = [ssrc \in Ssrcs |-> client'[ssrc]]
      /\ \A ssrc \in Ssrcs \ Registered : client'[ssrc] = client[ssrc]
  BY <1>1, Zenon
<1>9. packets = [ssrc \in Ssrcs |-> packets[ssrc]] /\ \A ssrc \in Ssrcs \ Registered : packets[ssrc] = 0
  BY Zenon
<1>10. burst' = [reports |-> {senders[i].receiver_ssrc : i \in Reporting},
                 packets |-> burst'.packets]
  BY <1>1, <1>5, Zenon
<1>. HIDE DEF packets
<1>. QED
  BY <1>1, <1>4, <1>5, <1>6, <1>7, <1>8, <1>9, <1>10, Zenon DEF d, sent, left

\* The reports of a burst leave so many packets.
LEMMA BudgetFacts ==
  ASSUME RouterInv
  PROVE  LET budget == MaxPacketsPerBurst - Cardinality(Reporting)
         IN  /\ IsFiniteSet(Reporting) /\ Cardinality(Reporting) \in Nat
             /\ budget \in Int /\ budget <= MaxPacketsPerBurst
<1>1. Len(senders) \in Nat /\ DOMAIN senders = 1 .. Len(senders)
  BY DEF RouterInv, Served
<1>2. IsFiniteSet(DOMAIN senders)
  BY <1>1, FS_Interval
<1>3. IsFiniteSet(Reporting)
  BY <1>2, FS_Subset, Zenon DEF Reporting
<1>4. Cardinality(Reporting) \in Nat
  BY <1>3, FS_CardinalityType, Zenon
<1>. QED
  BY <1>3, <1>4, Bounds

\* A burst leaves no Sender waiting for longer than it may, and the reports that were
\* due have been sent.
LEMMA BurstServed ==
  ASSUME RouterInv, SendBurstOfPackets
  PROVE  RouterInv'
<1>. DEFINE budget == MaxPacketsPerBurst - Cardinality(Reporting)
            left == LeftAfter(budget)
            sent(i) == PacketsSent(i, left[i - 1])
            c(i) == client[senders[i].receiver_ssrc]
            d(i) == AfterSending(c(i), sent(i))
            e(i) == senders[i]
            f(i) == senders'[i]
<1>1. /\ senders \in Seq(SenderEntry) /\ client \in [Ssrcs -> Client] /\ InPriorityOrder(senders)
      /\ now \in 1 .. MaxTime /\ consuming = (senders # <<>>)
      /\ Len(senders) \in Nat /\ DOMAIN senders = 1 .. Len(senders)
      /\ \A i \in DOMAIN senders : Timely(e(i), c(i), now, lastBurst, alarm, fire)
      /\ \A ssrc \in Ssrcs \ Registered : client[ssrc] = Idle
  BY DEF RouterInv, Served, Registered
<1>2. budget \in Int /\ budget <= MaxPacketsPerBurst
  BY BudgetFacts, Zenon
<1>3. /\ lastBurst' = now /\ now' = now /\ consuming' = consuming
      /\ ScheduleNextBurst(senders', now, kNever) /\ senders' = [i \in DOMAIN senders |-> f(i)]
      /\ \A i \in DOMAIN senders :
           /\ f(i) = [receiver_ssrc |-> e(i).receiver_ssrc,
                      next_rtcp_send_time |->
                        IF i \in Reporting THEN now + RtcpInterval ELSE e(i).next_rtcp_send_time,
                      next_rtp_send_time |->
                        IF IsAsked(i, left[i - 1]) THEN ResumeTime(d(i))
                                                   ELSE e(i).next_rtp_send_time]
           /\ client'[e(i).receiver_ssrc] = d(i)
           /\ burst'.packets[e(i).receiver_ssrc] = sent(i)
      /\ client' = [ssrc \in Ssrcs |-> client'[ssrc]]
      /\ \A ssrc \in Ssrcs \ Registered : client'[ssrc] = client[ssrc]
      /\ burst' = [reports |-> {senders[i].receiver_ssrc : i \in Reporting},
                   packets |-> burst'.packets]
      /\ burst'.packets = [ssrc \in Ssrcs |-> burst'.packets[ssrc]]
      /\ \A ssrc \in Ssrcs \ Registered : burst'.packets[ssrc] = 0
  BY BurstFacts, Zenon
<1>. HIDE DEF budget, left, f
<1>4. ASSUME NEW i \in DOMAIN senders
      PROVE  /\ left[i - 1] \in Int /\ sent(i) \in Nat /\ sent(i) <= MaxPacketsPerBurst
             /\ ~IsAsked(i, left[i - 1]) => sent(i) = 0
  <2>1. i \in 1 .. Len(senders) /\ i - 1 \in 0 .. Len(senders) /\ 0 \in 0 .. Len(senders) /\ 0 <= i - 1
    BY <1>1
  <2>2. left[i - 1] \in Int /\ left[0] = budget
    BY <1>2, <2>1, LeftFacts, Zenon DEF left
  <2>3. left[i - 1] <= left[0]
    BY <1>2, <2>1, LeftDecreases, Zenon DEF left
  <2>4. /\ sent(i) \in Nat /\ (~IsAsked(i, left[i - 1]) => sent(i) = 0)
        /\ IsAsked(i, left[i - 1]) => sent(i) = IF Available(i) <= left[i - 1] THEN Available(i) ELSE left[i - 1]
        /\ Available(i) \in Nat
    BY <2>2, SentFacts, Zenon
  <2>. QED
    BY <1>2, <2>2, <2>3, <2>4, Bounds
<1>. HIDE DEF sent
<1>5. ASSUME NEW i \in DOMAIN senders
      PROVE  /\ e(i) \in SenderEntry /\ e(i).receiver_ssrc \in Ssrcs /\ c(i) \in Client
             /\ e(i).next_rtcp_send_time \in 0 .. kNever /\ e(i).next_rtp_send_time \in 0 .. kNever
  <2>1. e(i) \in SenderEntry
    BY <1>1
  <2>2. e(i).receiver_ssrc \in Ssrcs
    BY <2>1, EntryFacts, Zenon
  <2>. QED
    BY <1>1, <2>1, <2>2, EntryFacts, Zenon
<1>6. ASSUME NEW i \in DOMAIN senders
      PROVE  /\ d(i) \in Client /\ d(i).has_report = c(i).has_report
             /\ ResumeTime(d(i)) \in SendTimes
             /\ ResumeTime(d(i)) = IF d(i).packets > 0 THEN kImmediately ELSE d(i).kickstart
             /\ sent(i) = 0 => d(i) = c(i)
  BY <1>4, <1>5, AfterFacts, Zenon
<1>. HIDE DEF d
<1>7. ASSUME NEW i \in DOMAIN senders
      PROVE  f(i) \in SenderEntry /\ f(i).receiver_ssrc = e(i).receiver_ssrc
  <2>1. now + RtcpInterval \in SendTimes /\ e(i).next_rtcp_send_time \in SendTimes
        /\ e(i).next_rtp_send_time \in SendTimes
    BY <1>1, <1>5, Bounds
  <2>. QED
    BY <1>3, <1>5, <1>6, <2>1, SMTT(30) DEF SenderEntry
<1>8. senders' \in Seq(SenderEntry) /\ InPriorityOrder(senders') /\ consuming' = (senders' # <<>>)
  <2>1. senders' \in [1 .. Len(senders) -> SenderEntry]
    BY <1>1, <1>3, <1>7, Zenon
  <2>2. senders' \in Seq(SenderEntry)
    BY <1>1, <2>1
  <2>3. InPriorityOrder(senders')
    BY <1>1, <1>3, <1>7, Zenon DEF InPriorityOrder, f
  <2>4. consuming' = (senders' # <<>>)
    BY <1>1, <1>3, <2>2
  <2>. QED
    BY <2>2, <2>3, <2>4, Zenon

<1>9. client' \in [Ssrcs -> Client] /\ burst'.packets \in [Ssrcs -> 0 .. MaxPacketsPerBurst]
  <2>1. ASSUME NEW ssrc \in Ssrcs
        PROVE  client'[ssrc] \in Client /\ burst'.packets[ssrc] \in 0 .. MaxPacketsPerBurst
    <3>1. CASE ssrc \in Registered
      <4>1. PICK i \in DOMAIN senders : e(i).receiver_ssrc = ssrc
        BY <3>1, FindFacts, Zenon
      <4>2. client'[ssrc] = d(i) /\ burst'.packets[ssrc] = sent(i)
        BY <1>3, <4>1, Zenon
      <4>3. sent(i) \in 0 .. MaxPacketsPerBurst
        BY <1>4, Bounds
      <4>. QED
        BY <1>6, <4>2, <4>3, Zenon
    <3>2. CASE ssrc \notin Registered
      <4>1. client'[ssrc] = client[ssrc] /\ burst'.packets[ssrc] = 0
        BY <1>3, <3>2, Zenon
      <4>2. 0 \in 0 .. MaxPacketsPerBurst
        BY Bounds
      <4>. QED
        BY <1>1, <4>1, <4>2, Zenon
    <3>. QED
      BY <3>1, <3>2, Zenon
  <2>. QED
    BY <1>3, <2>1, Zenon
<1>10. burst' \in Burst
  <2>1. {senders[i].receiver_ssrc : i \in Reporting} \in SUBSET Ssrcs
    BY <1>5, Zenon DEF Reporting
  <2>. QED
    BY <1>3, <1>9, <2>1 DEF Burst
<1>11. ASSUME NEW ssrc \in Ssrcs, \A i \in DOMAIN senders' : senders'[i].receiver_ssrc # ssrc
       PROVE  client'[ssrc] = Idle
  <2>1. \A i \in DOMAIN senders : senders[i].receiver_ssrc # ssrc
    BY <1>3, <1>7, <1>11, Zenon
  <2>2. ssrc \notin Registered
    BY <2>1, Zenon DEF Registered
  <2>. QED
    BY <1>1, <1>3, <2>2, Zenon
<1>12. /\ alarm' \in SendTimes /\ fire' \in SendTimes
       /\ alarm' # kNever => now + BurstInterval <= alarm'
       /\ \A i \in DOMAIN senders' :
            \A x \in {senders'[i].next_rtcp_send_time, senders'[i].next_rtp_send_time} :
              x # kNever =>
                /\ fire' <= alarm'
                /\ alarm' <= now \/ alarm' <= x \/ alarm' <= now + BurstInterval
  <2>1. now \in -BurstInterval .. MaxTime /\ kNever \in SendTimes
    BY <1>1, Bounds
  <2>. QED
    BY <1>1, <1>3, <1>8, <2>1, ScheduleFacts, Zenon
<1>13. ASSUME NEW i \in DOMAIN senders
       PROVE  Timely(f(i), d(i), now, now, alarm', fire')
  <2>1. /\ f(i).next_rtcp_send_time =
             IF i \in Reporting THEN now + RtcpInterval ELSE e(i).next_rtcp_send_time
        /\ f(i).next_rtp_send_time =
             IF IsAsked(i, left[i - 1]) THEN ResumeTime(d(i)) ELSE e(i).next_rtp_send_time
    BY <1>3
  <2>2. /\ e(i).next_rtp_send_time <= IF c(i).packets > 0 THEN kImmediately ELSE c(i).kickstart
        /\ c(i).has_report <=> e(i).next_rtcp_send_time # kNever
    BY <1>1, Zenon DEF Timely
  <2>3. \A x \in {f(i).next_rtcp_send_time, f(i).next_rtp_send_time} :
          x # kNever =>
            /\ fire' <= alarm'
            /\ alarm' <= now \/ alarm' <= x \/ alarm' <= now + BurstInterval
    BY <1>3, <1>12, Zenon DEF f
  <2>4. i \in Reporting <=> e(i).next_rtcp_send_time <= now /\ c(i).has_report
    BY Zenon DEF Reporting
  <2>5. /\ f(i).next_rtcp_send_time \in Int /\ f(i).next_rtp_send_time \in Int
        /\ alarm' \in Int /\ fire' \in Int /\ now \in Int
    BY <1>1, <1>7, <1>12, EntryFacts, Bounds
  <2>6. f(i).next_rtp_send_time <= IF d(i).packets > 0 THEN kImmediately ELSE d(i).kickstart
    <3>1. CASE IsAsked(i, left[i - 1])
      <4>1. f(i).next_rtp_send_time = IF d(i).packets > 0 THEN kImmediately ELSE d(i).kickstart
        BY <1>6, <2>1, <3>1, Zenon
      <4>. QED
        BY <2>5, <4>1
    <3>2. CASE ~IsAsked(i, left[i - 1])
      <4>1. d(i) = c(i)
        BY <1>4, <1>6, <3>2, SMTT(60)
      <4>. QED
        BY <2>1, <2>2, <3>2, <4>1, SMTT(60)
    <3>. QED
      BY <3>1, <3>2, Zenon
  <2>7. d(i).has_report <=> f(i).next_rtcp_send_time # kNever
    <3>1. now + RtcpInterval # kNever
      BY <1>1, Bounds
    <3>. QED
      BY <1>6, <2>1, <2>2, <2>4, <3>1, Zenon
  <2>8. ASSUME f(i).next_rtcp_send_time \notin {kImmediately, kNever}
        PROVE  /\ now < f(i).next_rtcp_send_time
               /\ fire' <= f(i).next_rtcp_send_time \/ fire' <= now + BurstInterval
               /\ now < f(i).next_rtcp_send_time + BurstInterval + MaxLateness
    <3>1. now < f(i).next_rtcp_send_time
      <4>1. CASE i \in Reporting
        BY <1>1, <2>1, <4>1, Bounds
      <4>2. CASE i \notin Reporting
        <5>1. f(i).next_rtcp_send_time = e(i).next_rtcp_send_time
          BY <2>1, <4>2, Zenon
        <5>2. ~(e(i).next_rtcp_send_time <= now)
          BY <2>2, <2>4, <2>8, <4>2, <5>1, Zenon
        <5>. QED
          BY <2>5, <5>1, <5>2
      <4>. QED
        BY <4>1, <4>2, Zenon
    <3>2. /\ fire' <= alarm'
          /\ alarm' <= now \/ alarm' <= f(i).next_rtcp_send_time \/ alarm' <= now + BurstInterval
      BY <2>3, <2>8, Zenon
    <3>. QED
      BY <2>5, <3>1, <3>2, Bounds
  <2>9. \A x \in {f(i).next_rtcp_send_time, f(i).next_rtp_send_time} :
          x # kNever => alarm' <= now \/ alarm' <= x \/ alarm' <= now + BurstInterval
    BY <2>3, Zenon
  <2>. QED
    BY <2>6, <2>7, <2>8, <2>9, Zenon DEF Timely
<1>14. ASSUME NEW i \in DOMAIN senders'
       PROVE  Timely(senders'[i], client'[senders'[i].receiver_ssrc], now, now, alarm', fire')
  <2>1. i \in DOMAIN senders /\ senders'[i] = f(i)
    BY <1>3, Zenon
  <2>2. client'[senders'[i].receiver_ssrc] = d(i)
    BY <1>3, <1>7, <2>1, Zenon
  <2>. QED
    BY <1>13, <2>1, <2>2, Zenon
<1>15. now \in -BurstInterval .. MaxTime
  BY <1>1, Bounds, SMTT(60)
<1>16. Served(now', senders', lastBurst', alarm', fire', consuming', client', burst')
  BY <1>1, <1>3, <1>8, <1>9, <1>10, <1>11, <1>12, <1>14, <1>15, SMTT(60) DEF Served
<1>. QED
  BY <1>16, RouterInvNext

-----------------------------------------------------------------------------
(* The invariants *)

\* The invariant holds before there is a Sender.
LEMMA InitServed == Init => RouterInv
<1>. SUFFICES ASSUME Init PROVE RouterInv
  BY Zenon
<1>1. /\ now = 1 /\ senders = <<>> /\ lastBurst = 0 - BurstInterval /\ alarm = kNever
      /\ fire = kNever /\ consuming = FALSE /\ client = [ssrc \in Ssrcs |-> Idle]
      /\ burst = NothingSent
  BY Zenon DEF Init, kImmediately
<1>2. now \in 1 .. MaxTime /\ lastBurst \in -BurstInterval .. MaxTime /\ kNever \in SendTimes
  BY <1>1, Bounds
<1>3. client \in [Ssrcs -> Client] /\ \A ssrc \in Ssrcs : client[ssrc] = Idle
  BY <1>1, NewTypes, Zenon
<1>4. burst \in Burst
  <2>1. 0 \in 0 .. MaxPacketsPerBurst
    BY Bounds
  <2>. QED
    BY <1>1, <2>1, Zenon DEF NothingSent, Burst
<1>5. senders \in Seq(SenderEntry) /\ DOMAIN senders = {} /\ consuming = (senders # <<>>)
  <2>1. senders \in Seq(SenderEntry) /\ DOMAIN senders = {}
    BY <1>1
  <2>2. consuming = (senders # <<>>)
    BY <1>1, Zenon
  <2>. QED
    BY <2>1, <2>2, Zenon
<1>6. InPriorityOrder(senders)
  BY <1>5, Zenon DEF InPriorityOrder
<1>. QED
  BY <1>1, <1>2, <1>3, <1>4, <1>5, <1>6, Zenon DEF RouterInv, Served

\* Every step keeps the invariant.
LEMMA NextServed == RouterInv /\ [Next]_vars => RouterInv'
<1>. SUFFICES ASSUME RouterInv, [Next]_vars PROVE RouterInv'
  BY Zenon
<1>1. CASE \E ssrc \in Ssrcs : OnSenderCreated(ssrc)
  BY <1>1, CreatedServed, Zenon
<1>2. CASE \E ssrc \in Ssrcs : OnSenderDestroyed(ssrc)
  BY <1>2, DestroyedServed, Zenon
<1>3. CASE \E ssrc \in Ssrcs, flagged \in 1 .. MaxPackets : RequestRtpSend(ssrc, flagged)
  BY <1>3, RequestRtpServed, Zenon
<1>4. CASE \E ssrc \in Ssrcs : RequestRtcpSend(ssrc)
  BY <1>4, RequestRtcpServed
<1>5. CASE \E ssrc \in Ssrcs : OnReceivedPacket(ssrc)
  BY <1>5, FeedbackServed
<1>6. CASE SendBurstOfPackets
  BY <1>6, BurstServed, Zenon
<1>8. CASE Tick
  BY <1>8, TickServed
<1>9. CASE UNCHANGED vars
  <2>1. UNCHANGED <<now, senders, lastBurst, alarm, fire, consuming, client, burst>>
    BY <1>9, Zenon DEF vars, routerVars
  <2>2. Served(now', senders', lastBurst', alarm', fire', consuming', client', burst')
    BY <2>1, Zenon DEF RouterInv
  <2>. QED
    BY <2>2, RouterInvNext, Zenon
<1>. QED
  BY <1>1, <1>2, <1>3, <1>4, <1>5, <1>6, <1>8, <1>9, Zenon DEF Next

\* RouterInv holds for as long as the router lives.
THEOREM RouterInvariant == Spec => []RouterInv
BY InitServed, NextServed, PTL DEF Spec

\* The functor is queued for the time of the Alarm. Only when the Alarm is set
\* anew while its functor is late, it is queued for an earlier one.
FunctorInv ==
  /\ fire # kNever => lastBurst + BurstInterval <= fire
  /\ fire = alarm \/ (fire < alarm /\ alarm <= now)

\* A Sender that asks for a send is served at the end of the interval or at once,
\* and a functor that is queued already is not earlier than the end of the interval.
LEMMA RequestFunctor ==
  ASSUME RouterInv, FunctorInv, ScheduleNextBurst(senders', lastBurst, fire),
         senders' \in Seq(SenderEntry), UNCHANGED <<now, lastBurst>>,
         NEW i \in DOMAIN senders',
         kImmediately \in {senders'[i].next_rtcp_send_time, senders'[i].next_rtp_send_time}
  PROVE  FunctorInv'
<1>1. /\ now \in 1 .. MaxTime /\ lastBurst \in -BurstInterval .. MaxTime
      /\ fire \in SendTimes
  BY Zenon DEF RouterInv, Served
<1>2. kImmediately # kNever
  BY Bounds
<1>3. /\ alarm' \in SendTimes /\ fire' \in SendTimes
      /\ fire' = alarm' \/ (fire' = fire /\ (alarm' = kNever \/ fire' < alarm'))
      /\ alarm' # kNever => lastBurst + BurstInterval <= alarm'
      /\ alarm' <= now \/ alarm' <= kImmediately \/ alarm' <= lastBurst + BurstInterval
  BY <1>1, <1>2, ScheduleFacts, Zenon
<1>4. alarm' # kNever
  BY <1>1, <1>3, Bounds
<1>5. /\ fire' # kNever => lastBurst + BurstInterval <= fire'
      /\ fire' = alarm' \/ (fire' < alarm' /\ alarm' <= now)
  BY <1>1, <1>3, <1>4, Bounds DEF FunctorInv
<1>. QED
  BY <1>5, Zenon DEF FunctorInv, kNever

\* Every step keeps it.
LEMMA NextFunctor == RouterInv /\ FunctorInv /\ RouterInv' /\ [Next]_vars => FunctorInv'
<1>. SUFFICES ASSUME RouterInv, FunctorInv, RouterInv', [Next]_vars PROVE FunctorInv'
  BY Zenon
<1>1. /\ now \in 1 .. MaxTime /\ lastBurst \in -BurstInterval .. MaxTime
      /\ fire \in SendTimes /\ alarm \in SendTimes /\ senders \in Seq(SenderEntry)
  BY Zenon DEF RouterInv, Served
<1>2. senders' \in Seq(SenderEntry)
  BY Zenon DEF RouterInv, Served, SenderEntry, SendTimes, kNever, kImmediately
<1>3. ASSUME UNCHANGED <<lastBurst, alarm, fire>>, now' = now \/ now' = now + 1
      PROVE  FunctorInv'
  <2>1. PICK t \in Int : t = now' /\ (alarm <= now => alarm <= t)
    BY <1>1, <1>3, Bounds
  <2>2. fire = alarm \/ (fire < alarm /\ alarm <= now')
    BY <2>1, Zenon DEF FunctorInv
  <2>. QED
    BY <1>3, <2>2, Zenon DEF FunctorInv, kNever
<1>4. CASE \E ssrc \in Ssrcs : OnSenderCreated(ssrc)
  BY <1>3, <1>4, Zenon DEF OnSenderCreated
<1>5. CASE \E ssrc \in Ssrcs : OnSenderDestroyed(ssrc)
  BY <1>3, <1>5, Zenon DEF OnSenderDestroyed
<1>6. CASE \E ssrc \in Ssrcs, flagged \in 1 .. MaxPackets : RequestRtpSend(ssrc, flagged)
  <2>1. PICK ssrc \in Registered :
          /\ senders' = [senders EXCEPT ![FindEntry(ssrc)].next_rtp_send_time = kImmediately]
          /\ ScheduleNextBurst(senders', lastBurst, fire)
          /\ UNCHANGED <<now, lastBurst>>
    BY <1>6, Zenon DEF RequestRtpSend
  <2>2. PICK k \in DOMAIN senders : k = FindEntry(ssrc)
    BY FindFacts, Zenon
  <2>3. k \in DOMAIN senders' /\ senders'[k].next_rtp_send_time = kImmediately
    <3>1. senders' = [senders EXCEPT ![k] = [senders[k] EXCEPT !.next_rtp_send_time = kImmediately]]
      BY <2>1, <2>2, Zenon
    <3>2. DOMAIN senders[k] = {"receiver_ssrc", "next_rtcp_send_time", "next_rtp_send_time"}
      <4>1. senders[k] \in SenderEntry
        BY <1>1
      <4>. QED
        BY <4>1 DEF SenderEntry
    <3>. QED
      BY <3>1, <3>2, Zenon
  <2>. QED
    BY <1>2, <2>1, <2>3, RequestFunctor, Zenon
<1>7. CASE \E ssrc \in Ssrcs : RequestRtcpSend(ssrc)
  <2>1. PICK ssrc \in Registered :
          /\ senders' = [senders EXCEPT ![FindEntry(ssrc)].next_rtcp_send_time = kImmediately]
          /\ ScheduleNextBurst(senders', lastBurst, fire)
          /\ UNCHANGED <<now, lastBurst>>
    BY <1>7, Zenon DEF RequestRtcpSend
  <2>2. PICK k \in DOMAIN senders : k = FindEntry(ssrc)
    BY FindFacts, Zenon
  <2>3. k \in DOMAIN senders' /\ senders'[k].next_rtcp_send_time = kImmediately
    <3>1. senders' = [senders EXCEPT ![k] = [senders[k] EXCEPT !.next_rtcp_send_time = kImmediately]]
      BY <2>1, <2>2, Zenon
    <3>2. DOMAIN senders[k] = {"receiver_ssrc", "next_rtcp_send_time", "next_rtp_send_time"}
      <4>1. senders[k] \in SenderEntry
        BY <1>1
      <4>. QED
        BY <4>1 DEF SenderEntry
    <3>. QED
      BY <3>1, <3>2, Zenon
  <2>. QED
    BY <1>2, <2>1, <2>3, RequestFunctor, Zenon
<1>8. CASE \E ssrc \in Ssrcs : OnReceivedPacket(ssrc)
  BY <1>3, <1>8, Zenon DEF OnReceivedPacket, routerVars
<1>9. CASE SendBurstOfPackets
  <2>1. lastBurst' = now /\ ScheduleNextBurst(senders', now, kNever) /\ now' = now
    BY <1>9, Zenon DEF SendBurstOfPackets
  <2>2. now \in -BurstInterval .. MaxTime /\ kNever \in SendTimes
    BY <1>1, Bounds
  <2>3. /\ alarm' \in SendTimes /\ fire' \in SendTimes
        /\ fire' = alarm' \/ (fire' = kNever /\ (alarm' = kNever \/ fire' < alarm'))
        /\ alarm' # kNever => now + BurstInterval <= alarm'
    BY <1>1, <1>2, <2>1, <2>2, ScheduleFacts, Zenon
  <2>4. fire' = alarm' /\ (fire' # kNever => now + BurstInterval <= fire')
    BY <1>1, <2>3, Bounds
  <2>. QED
    BY <2>1, <2>4, Zenon DEF FunctorInv, kNever
<1>10. CASE Tick
  BY <1>3, <1>10, Zenon DEF Tick, routerVars
<1>11. CASE UNCHANGED vars
  BY <1>3, <1>11, Zenon DEF vars, routerVars
<1>. QED
  BY <1>4, <1>5, <1>6, <1>7, <1>8, <1>9, <1>10, <1>11, Zenon DEF Next

\* FunctorInv holds for as long as the router lives.
LEMMA FunctorInvariant == Spec => []FunctorInv
<1>1. Init => FunctorInv
  BY Zenon DEF Init, FunctorInv
<1>. QED
  BY <1>1, NextFunctor, RouterInvariant, PTL DEF Spec

\* The latest of three times.
LEMMA OfThree ==
  ASSUME NEW a \in Int, NEW b \in Int, NEW c \in Int
  PROVE  LET m == Max({a, b, c}) IN m \in {a, b, c} /\ a <= m /\ b <= m /\ c <= m
<1>. DEFINE S == {a, b, c}
<1>1. \E x \in S : \A y \in S : x >= y
  <2>1. CASE a >= b /\ a >= c
    BY <2>1
  <2>2. CASE b >= a /\ b >= c
    BY <2>2
  <2>3. CASE c >= a /\ c >= b
    BY <2>3
  <2>. QED
    BY <2>1, <2>2, <2>3
<1>2. Max(S) \in S /\ \A y \in S : Max(S) >= y
  <2>. HIDE DEF S
  <2>. QED
    BY <1>1, Zenon DEF Max
<1>. QED
  BY <1>2, Zenon

\* SendersServed: Senders that come, go and ask for sends in any order are all covered
\* by the one Alarm of the router, whose functor never comes in vain, and none that
\* has something to send is suspended.
THEOREM SendersAreServed == Spec => []SendersServed
<1>1. ASSUME RouterInv, FunctorInv
      PROVE  SendersServed
  <2>1. TypeOK
    BY <1>1, Zenon DEF RouterInv, Served, TypeOK
  <2>2. NoSenderForgotten
    BY <1>1, Zenon DEF RouterInv, Served, Timely, NoSenderForgotten
  <2>3. ASSUME NEW i \in DOMAIN senders, NextSendTime(senders[i]) # kNever
        PROVE  alarm <= Max({now, NextSendTime(senders[i]), lastBurst + BurstInterval})
    <3>. DEFINE x == NextSendTime(senders[i])
                y == lastBurst + BurstInterval
    <3>1. senders[i] \in SenderEntry
      BY <2>1 DEF TypeOK
    <3>2. x \in 0 .. kNever /\ x \in {senders[i].next_rtcp_send_time, senders[i].next_rtp_send_time}
      BY <3>1, NextSendFacts, Zenon
    <3>3. alarm <= now \/ alarm <= x \/ alarm <= y
      BY <1>1, <2>3, <3>2, Zenon DEF RouterInv, Served, Timely
    <3>4. x \in Int /\ y \in Int /\ now \in Int /\ alarm \in Int
      BY <2>1, <3>2, Bounds DEF TypeOK
    <3>. HIDE DEF x, y
    <3>5. /\ now <= Max({now, x, y}) /\ x <= Max({now, x, y}) /\ y <= Max({now, x, y})
          /\ Max({now, x, y}) \in {now, x, y}
      BY <3>4, OfThree, Zenon
    <3>6. alarm <= Max({now, x, y})
      BY <3>3, <3>4, <3>5
    <3>. QED
      BY <3>6, Zenon DEF x, y
  <2>4. FunctorNotEarly
    <3>1. fire \in Int /\ alarm \in Int /\ now \in Int
      BY <2>1, Bounds DEF TypeOK
    <3>. QED
      BY <1>1, <3>1 DEF FunctorInv, FunctorNotEarly
  <2>. QED
    BY <2>1, <2>2, <2>3, <2>4, Zenon DEF SendersServed, BurstScheduled
<1>. QED
  BY <1>1, RouterInvariant, FunctorInvariant, PTL

\* ReportsOnTime: once a Sender has reported, its next report is late by less than a
\* burst interval and the lateness of the Alarm, however many RTP packets wait.
THEOREM ReportsAreOnTime == Spec => []ReportsOnTime
<1>1. ASSUME RouterInv
      PROVE  ReportsOnTime
  <2>1. ASSUME NEW i \in DOMAIN senders
        PROVE  /\ client[senders[i].receiver_ssrc].has_report =>
                    senders[i].next_rtcp_send_time # kNever
               /\ senders[i].next_rtcp_send_time # kImmediately =>
                    now < senders[i].next_rtcp_send_time + BurstInterval + MaxLateness
    <3>1. Timely(senders[i], client[senders[i].receiver_ssrc], now, lastBurst, alarm, fire)
          /\ now \in 1 .. MaxTime
      BY <1>1, Zenon DEF RouterInv, Served
    <3>2. now < kNever + BurstInterval + MaxLateness
      BY <3>1, Bounds
    <3>. QED
      BY <3>1, <3>2, Zenon DEF Timely
  <2>. QED
    BY <2>1, Zenon DEF ReportsOnTime
<1>. QED
  BY <1>1, RouterInvariant, PTL

\* BurstsSpaced: no two bursts are closer together than burst_interval_.
THEOREM BurstsAreSpaced == Spec => BurstsSpaced
<1>1. ASSUME RouterInv, [Next]_vars
      PROVE  [lastBurst' # lastBurst => lastBurst' >= lastBurst + BurstInterval]_vars
  <2>1. CASE SendBurstOfPackets
    <3>1. alarm <= now /\ lastBurst' = now
      BY <2>1, Zenon DEF SendBurstOfPackets
    <3>2. alarm \in SendTimes /\ now \in 1 .. MaxTime /\ lastBurst \in -BurstInterval .. MaxTime
          /\ (alarm # kNever => lastBurst + BurstInterval <= alarm)
      BY <1>1, Zenon DEF RouterInv, Served
    <3>. QED
      BY <3>1, <3>2, Bounds
  <2>2. CASE ~SendBurstOfPackets
    <3>1. lastBurst' = lastBurst
      BY <1>1, <2>2, Zenon DEF Next, vars, routerVars, OnSenderCreated, OnSenderDestroyed, RequestRtpSend,
                        RequestRtcpSend, OnReceivedPacket, Tick
    <3>. QED
      BY <3>1, Zenon
  <2>. QED
    BY <2>1, <2>2, Zenon
<1>. QED
  BY <1>1, RouterInvariant, PTL DEF Spec, BurstsSpaced

\* The packets of a burst are what the Senders were left and have not left.
LEMMA TotalFacts ==
  ASSUME RouterInv, NEW budget \in Int, NEW b,
         \A i \in 1 .. Len(senders) :
           b.packets[senders[i].receiver_ssrc] = PacketsSent(i, LeftAfter(budget)[i - 1])
  PROVE  LET rest == LeftAfter(budget)[Len(senders)]
         IN  /\ rest \in Int /\ TotalSent(b) = budget - rest
             /\ rest = budget \/ rest >= 0
<1>. DEFINE n == Len(senders)
            left == LeftAfter(budget)
            p(i) == b.packets[senders[i].receiver_ssrc]
            Eq(f) == f = [i \in 0 .. n |-> IF i = 0 THEN 0 ELSE f[i - 1] + p(i)]
            total == CHOOSE f : Eq(f)
            g == [i \in 0 .. n |-> budget - left[i]]
<1>1. /\ n \in Nat /\ DOMAIN senders = 1 .. n /\ left[0] = budget
      /\ \A i \in 0 .. n : left[i] \in Int
      /\ \A i \in 1 .. n : left[i] = left[i - 1] - PacketsSent(i, left[i - 1])
  BY LeftFacts, Zenon
<1>2. TotalSent(b) = total[n]
  BY SMTT(60) DEF TotalSent
<1>. HIDE DEF n, left
<1>3. ASSUME NEW i \in 1 .. n
      PROVE  /\ i - 1 \in 0 .. n /\ i \in 0 .. n /\ i # 0 /\ p(i) \in Nat
             /\ left[i] = left[i - 1] - p(i)
             /\ p(i) = 0 \/ p(i) <= left[i - 1]
  <2>1. i - 1 \in 0 .. n /\ i \in 0 .. n /\ i # 0
    BY <1>1
  <2>2. p(i) = PacketsSent(i, left[i - 1]) /\ left[i - 1] \in Int
    BY <1>1, <2>1, Zenon DEF n, left
  <2>. HIDE DEF p
  <2>3. PacketsSent(i, left[i - 1]) \in Nat
        /\ (PacketsSent(i, left[i - 1]) = 0 \/ PacketsSent(i, left[i - 1]) <= left[i - 1])
    <3>. DEFINE x == left[i - 1]
    <3>1. x \in Int /\ i \in DOMAIN senders
      BY <1>1, <2>2, Zenon
    <3>. HIDE DEF x
    <3>2. /\ Available(i) \in Nat /\ PacketsSent(i, x) \in Nat
          /\ IsAsked(i, x) => PacketsSent(i, x) = IF Available(i) <= x THEN Available(i) ELSE x
          /\ ~IsAsked(i, x) => PacketsSent(i, x) = 0
      BY <3>1, SentFacts, Zenon
    <3>3. PacketsSent(i, x) = 0 \/ PacketsSent(i, x) <= x
      BY <3>1, <3>2
    <3>. QED
      BY <3>2, <3>3, Zenon DEF x
  <2>. QED
    BY <1>1, <2>1, <2>2, <2>3, Zenon
<1>. HIDE DEF p
<1>4. Eq(g)
  <2>1. ASSUME NEW i \in 0 .. n
        PROVE  g[i] = IF i = 0 THEN 0 ELSE g[i - 1] + p(i)
    <3>1. CASE i = 0
      BY <1>1, <3>1
    <3>2. CASE i # 0
      <4>1. i \in 1 .. n
        BY <1>1, <3>2
      <4>2. g[i] = budget - left[i] /\ g[i - 1] = budget - left[i - 1]
        BY <1>3, <4>1, Zenon
      <4>3. left[i] \in Int /\ left[i - 1] \in Int
        BY <1>1, <1>3, <4>1, Zenon
      <4>. QED
        BY <1>3, <3>2, <4>1, <4>2, <4>3
    <3>. QED
      BY <3>1, <3>2, Zenon
  <2>. QED
    BY <2>1, Zenon
<1>5. Eq(total)
  <2>. HIDE DEF Eq
  <2>. QED
    BY <1>4, Zenon
<1>. HIDE DEF total, g
<1>6. total[0] = 0 /\ \A i \in 1 .. n : total[i] = total[i - 1] + p(i)
  <2>1. 0 \in 0 .. n
    BY <1>1
  <2>. QED
    BY <1>3, <1>5, <2>1, Zenon
<1>. HIDE DEF Eq
<1>. DEFINE T == {i \in 0 .. n : total[i] = budget - left[i] /\ (left[i] = budget \/ left[i] >= 0)}
<1>7. 0 \in T
  BY <1>1, <1>6
<1>8. ASSUME NEW i \in 1 .. n, i - 1 \in T
      PROVE  i \in T
  <2>1. /\ total[i - 1] = budget - left[i - 1] /\ (left[i - 1] = budget \/ left[i - 1] >= 0)
        /\ left[i - 1] \in Int /\ left[i] \in Int /\ i \in 0 .. n
    BY <1>1, <1>3, <1>8, Zenon
  <2>2. /\ total[i] = total[i - 1] + p(i) /\ left[i] = left[i - 1] - p(i) /\ p(i) \in Nat
        /\ p(i) = 0 \/ p(i) <= left[i - 1]
    BY <1>3, <1>6, Zenon
  <2>3. total[i] = budget - left[i] /\ (left[i] = budget \/ left[i] >= 0)
    BY <2>1, <2>2, SMTT(30)
  <2>. QED
    BY <2>1, <2>3, Zenon
<1>9. T = 0 .. n
  <2>1. T \in SUBSET (0 .. n)
    BY Zenon
  <2>. HIDE DEF T
  <2>. QED
    BY <1>1, <1>7, <1>8, <2>1, BoundedInduction, Zenon
<1>10. n \in T
  BY <1>1, <1>9
<1>. QED
  BY <1>1, <1>2, <1>10, SMTT(60) DEF n, left

\* Each of the reports is that of one entry.
LEMMA ReportsCounted ==
  ASSUME RouterInv
  PROVE  LET reports == {senders[i].receiver_ssrc : i \in Reporting}
         IN  Cardinality(reports) \in Nat /\ Cardinality(reports) <= Cardinality(Reporting)
<1>. DEFINE reports == {senders[i].receiver_ssrc : i \in Reporting}
            f == [i \in Reporting |-> senders[i].receiver_ssrc]
<1>1. f \in Surjection(Reporting, reports)
  <2>1. f \in [Reporting -> reports]
    BY Zenon
  <2>2. \A t \in reports : \E i \in Reporting : f[i] = t
    BY Zenon
  <2>. QED
    BY <2>1, <2>2, Zenon DEF Surjection
<1>2. IsFiniteSet(Reporting)
  BY BudgetFacts, Zenon
<1>. HIDE DEF f, reports
<1>3. IsFiniteSet(reports) /\ Cardinality(reports) <= Cardinality(Reporting)
  BY <1>1, <1>2, FS_Surjection, Zenon
<1>4. Cardinality(reports) \in Nat
  BY <1>3, FS_CardinalityType, Zenon
<1>. QED
  BY <1>3, <1>4, Zenon DEF reports

\* BurstsShared: the packets of a burst are within the limit, the reports included, and
\* a Sender sends some only if no more important one has to wait.
THEOREM BurstsAreShared == Spec => BurstsShared
<1>. DEFINE Shared ==
              LET sent == TotalSent(burst')
              IN  /\ sent > 0 => sent + Cardinality(burst'.reports) <= MaxPacketsPerBurst
                  /\ \A i, j \in DOMAIN senders :
                       /\ senders[i].receiver_ssrc < senders[j].receiver_ssrc
                       /\ senders[i].next_rtp_send_time <= now
                       /\ burst'.packets[senders[j].receiver_ssrc] > 0
                       => burst'.packets[senders[i].receiver_ssrc] = Available(i)
<1>1. ASSUME RouterInv, SendBurstOfPackets
      PROVE  Shared
  <2>. DEFINE budget == MaxPacketsPerBurst - Cardinality(Reporting)
              n == Len(senders)
              left == LeftAfter(budget)
              p(i) == burst'.packets[senders[i].receiver_ssrc]
  <2>1. Cardinality(Reporting) \in Nat /\ budget \in Int
    BY <1>1, BudgetFacts, Zenon
  <2>2. /\ \A i \in DOMAIN senders : p(i) = PacketsSent(i, left[i - 1])
        /\ burst'.reports = {senders[i].receiver_ssrc : i \in Reporting}
    BY <1>1, BurstFacts
  <2>3. /\ n \in Nat /\ DOMAIN senders = 1 .. n
        /\ \A i \in 0 .. n : left[i] \in Int
        /\ \A i \in 1 .. n : left[i] = left[i - 1] - PacketsSent(i, left[i - 1])
    <3>. HIDE DEF budget
    <3>. QED
      BY <1>1, <2>1, LeftFacts, Zenon
  <2>4. left[n] \in Int /\ TotalSent(burst') = budget - left[n] /\ (left[n] = budget \/ left[n] >= 0)
    <3>. HIDE DEF budget
    <3>1. \A i \in 1 .. n : burst'.packets[senders[i].receiver_ssrc] = PacketsSent(i, left[i - 1])
      BY <2>2, <2>3, Zenon
    <3>. QED
      BY <1>1, <2>1, <3>1, TotalFacts, Zenon
  <2>5. /\ Cardinality(burst'.reports) \in Nat
        /\ Cardinality(burst'.reports) <= Cardinality(Reporting)
    BY <1>1, <2>2, ReportsCounted, Zenon
  <2>6. TotalSent(burst') > 0 =>
          TotalSent(burst') + Cardinality(burst'.reports) <= MaxPacketsPerBurst
    <3>. HIDE DEF left, n
    <3>. QED
      BY <2>1, <2>4, <2>5, Bounds
  <2>. HIDE DEF budget, left, n, p
  <2>7. ASSUME NEW i \in DOMAIN senders, NEW j \in DOMAIN senders,
               senders[i].receiver_ssrc < senders[j].receiver_ssrc,
               senders[i].next_rtp_send_time <= now, p(j) > 0
        PROVE  p(i) = Available(i)
    <3>1. senders \in Seq(SenderEntry) /\ InPriorityOrder(senders)
      BY <1>1, Zenon DEF RouterInv, Served
    <3>2. senders[i].receiver_ssrc \in Nat /\ senders[j].receiver_ssrc \in Nat
      BY <3>1, EntryFacts
    <3>3. i < j
      <4>1. ~(j < i)
        BY <2>7, <3>1, <3>2 DEF InPriorityOrder
      <4>2. i # j
        BY <2>7, <3>2
      <4>. QED
        BY <2>3, <4>1, <4>2
    <3>4. i \in 0 .. n /\ i - 1 \in 0 .. n /\ j - 1 \in 0 .. n /\ i <= j - 1 /\ i \in 1 .. n
      BY <2>3, <3>3
    <3>5. left[i] \in Int /\ left[i - 1] \in Int /\ left[j - 1] \in Int
      BY <2>3, <3>4, SMTT(60)
    <3>6. left[j - 1] > 0
      <4>1. PacketsSent(j, left[j - 1]) > 0
        BY <2>2, <2>7, Zenon
      <4>. QED
        BY <1>1, <3>5, <4>1, SentFacts, Zenon
    <3>7. left[j - 1] <= left[i]
      BY <1>1, <2>1, <3>4, LeftDecreases, Zenon DEF left, n
    <3>8. /\ p(i) = PacketsSent(i, left[i - 1]) /\ p(i) \in Nat /\ left[i] = left[i - 1] - p(i)
          /\ IsAsked(i, left[i - 1]) =>
               p(i) = IF Available(i) <= left[i - 1] THEN Available(i) ELSE left[i - 1]
      <4>1. p(i) = PacketsSent(i, left[i - 1]) /\ left[i] = left[i - 1] - p(i)
        BY <2>2, <2>3, <3>4, Zenon
      <4>2. /\ PacketsSent(i, left[i - 1]) \in Nat
            /\ IsAsked(i, left[i - 1]) =>
                 PacketsSent(i, left[i - 1]) =
                   IF Available(i) <= left[i - 1] THEN Available(i) ELSE left[i - 1]
        BY <1>1, <3>5, SentFacts, Zenon
      <4>. QED
        BY <4>1, <4>2, Zenon
    <3>9. left[i - 1] > 0 /\ p(i) # left[i - 1]
      BY <3>5, <3>6, <3>7, <3>8
    <3>10. IsAsked(i, left[i - 1])
      BY <2>7, <3>9, Zenon DEF IsAsked
    <3>. QED
      BY <3>8, <3>9, <3>10, Zenon
  <2>. QED
    BY <2>6, <2>7, Zenon DEF p
<1>2. ASSUME RouterInv, [Next]_vars
      PROVE  [lastBurst' # lastBurst => Shared]_vars
  <2>1. CASE SendBurstOfPackets
    BY <1>1, <1>2, <2>1, Zenon
  <2>2. CASE ~SendBurstOfPackets
    <3>1. lastBurst' = lastBurst
      BY <1>2, <2>2 DEF Next, vars, routerVars, OnSenderCreated, OnSenderDestroyed, RequestRtpSend,
                        RequestRtcpSend, OnReceivedPacket, Tick
    <3>. QED
      BY <3>1, Zenon
  <2>. QED
    BY <2>1, <2>2, Zenon
<1>. QED
  BY <1>2, RouterInvariant, PTL DEF Spec, BurstsShared
=============================================================================
