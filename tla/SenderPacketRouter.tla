------------------------- MODULE SenderPacketRouter -------------------------
(***************************************************************************)
(* SenderPacketRouter collects the packets of the Senders of a session and  *)
(* sends them in bursts: at most one burst per interval and, reports apart, *)
(* at most so many packets per burst, those of the more important Senders   *)
(* first. The Senders, which hand out packets one by one, are reduced to    *)
(* how many packets they have flagged and when they want to kickstart. The  *)
(* Alarm is reduced to its two times, that of the task it was given and     *)
(* that of the functor it has queued, which the TaskRunner may run late.    *)
(***************************************************************************)
EXTENDS Clock, Sequences, FiniteSetsExt, Functions

CONSTANTS
  Ssrcs,               \* the SSRCs of Receivers; the lower, the more important
  MaxPacketsPerBurst,  \* max_packets_per_burst_
  BurstInterval,       \* burst_interval_
  RtcpInterval,        \* kRtcpReportInterval
  KickstartInterval,   \* how long a Sender waits before a Kickstart packet
  MaxLateness,         \* bound: how late the TaskRunner runs a task
  MaxPackets           \* bound: packets a Sender has flagged

ASSUME RouterAssumption ==
  /\ Ssrcs \subseteq Nat
  /\ {MaxPacketsPerBurst, BurstInterval, RtcpInterval, KickstartInterval}
       \subseteq Nat \ {0}
  /\ {MaxLateness, MaxPackets} \subseteq Nat /\ MaxTime \in Nat \ {0}

VARIABLES
  senders,       \* senders_
  lastBurst,     \* last_burst_time_
  alarm,         \* alarm_.alarm_time_, or kNever while alarm_ has no task
  fire,          \* alarm_.next_fire_time_, or kNever while no functor is queued
  consuming,     \* whether the environment delivers incoming packets
  client,        \* the Senders' side, for each SSRC
  burst          \* history: what was sent in the last burst

routerVars == <<senders, lastBurst, alarm, fire, consuming>>
vars == <<now, routerVars, client, burst>>

\* kImmediately, the least time there is, and kNever, the greatest.
kImmediately == 0
kNever == MaxTime + RtcpInterval + KickstartInterval + BurstInterval + 1

SendTimes == kImmediately .. kNever

SenderEntry == [receiver_ssrc : Ssrcs, next_rtcp_send_time : SendTimes,
                next_rtp_send_time : SendTimes]

\* What a Sender has to send: a report once it has a frame, RTP packets, and a
\* Kickstart packet at some time.
Client == [has_report : BOOLEAN, packets : 0 .. MaxPackets, kickstart : SendTimes]

\* A Sender that has nothing to send yet.
Idle == [has_report |-> FALSE, packets |-> 0, kickstart |-> kNever]

Registered == {senders[i].receiver_ssrc : i \in DOMAIN senders}

FindEntry(ssrc) ==
  CHOOSE i \in DOMAIN senders : senders[i].receiver_ssrc = ssrc

Burst == [reports : SUBSET Ssrcs, packets : [Ssrcs -> 0 .. MaxPacketsPerBurst]]

NothingSent == [reports |-> {}, packets |-> [ssrc \in Ssrcs |-> 0]]

Init ==
  /\ now = 1
  /\ senders = <<>>
  /\ lastBurst = kImmediately - BurstInterval
  /\ alarm = kNever
  /\ fire = kNever
  /\ consuming = FALSE
  /\ client = [ssrc \in Ssrcs |-> Idle]
  /\ burst = NothingSent

-----------------------------------------------------------------------------
NextSendTime(entry) == Min({entry.next_rtcp_send_time, entry.next_rtp_send_time})

\* Mutant: the interval between bursts is ignored.
NextBurstTimeAtOnce(entries, last) ==
  Min({NextSendTime(entries[i]) : i \in DOMAIN entries} \union {kNever})

\* Mutant: only the most important Sender is looked at.
NextBurstTimeOfFirst(entries, last) ==
  IF entries = <<>> \/ NextSendTime(entries[1]) = kNever
    THEN kNever
    ELSE Max({NextSendTime(entries[1]), last + BurstInterval})

\* When ScheduleNextBurst() wants the next burst: at the earliest time a Sender
\* asks for, but not before the interval is over.
NextBurstTime(entries, last) ==
  LET earliest == Min({NextSendTime(entries[i]) : i \in DOMAIN entries}
                        \union {kNever})
  IN IF earliest = kNever THEN kNever ELSE Max({earliest, last + BurstInterval})

\* Mutant: the functor that is queued is replaced by a later one.
ScheduleNextBurstAnew(entries, last, queued) ==
  LET time == NextBurstTime(entries, last)
  IN  IF time = kNever
        THEN alarm' = kNever /\ fire' = queued
        ELSE alarm' = Max({now, time}) /\ fire' = Max({now, time})

\* Alarm::Cancel() or Alarm::Schedule(). A functor queued for an earlier time
\* stays queued.
ScheduleNextBurst(entries, last, queued) ==
  LET time == NextBurstTime(entries, last)
  IN  IF time = kNever
        THEN alarm' = kNever /\ fire' = queued
        ELSE alarm' = Max({now, time}) /\ fire' = Min({queued, Max({now, time})})

\* The entry of a new Sender, which has asked for nothing.
NewEntry(ssrc) ==
  [receiver_ssrc |-> ssrc, next_rtcp_send_time |-> kNever, next_rtp_send_time |-> kNever]

\* Senders in the order of their priority, as operator<() of SenderEntry has it.
InPriorityOrder(entries) ==
  \A i, j \in DOMAIN entries :
    i < j => entries[i].receiver_ssrc < entries[j].receiver_ssrc

\* Mutant: the list is not sorted.
OnSenderCreatedUnsorted(ssrc) ==
  /\ ssrc \notin Registered
  /\ senders' = Append(senders, NewEntry(ssrc))
  /\ consuming' = TRUE
  /\ UNCHANGED <<now, lastBurst, alarm, fire, client, burst>>

OnSenderCreated(ssrc) ==
  /\ ssrc \notin Registered
  /\ LET entries == Append(senders, NewEntry(ssrc))
     IN  \E order \in Bijection(DOMAIN entries, DOMAIN entries) :
           senders' = [i \in DOMAIN entries |-> entries[order[i]]]
  /\ InPriorityOrder(senders')
  /\ consuming' = TRUE
  /\ UNCHANGED <<now, lastBurst, alarm, fire, client, burst>>

\* The destructor of a Sender; another one may use its SSRC later.
OnSenderDestroyed(ssrc) ==
  /\ ssrc \in Registered
  /\ senders' = SubSeq(senders, 1, FindEntry(ssrc) - 1)
                  \o SubSeq(senders, FindEntry(ssrc) + 1, Len(senders))
  /\ consuming' = (senders' # <<>>)
  /\ client' = [client EXCEPT ![ssrc] = Idle]
  /\ UNCHANGED <<now, lastBurst, alarm, fire, burst>>

\* RequestRtpSend(): a Sender has flagged `flagged` more packets.
RequestRtpSend(ssrc, flagged) ==
  /\ ssrc \in Registered
  /\ client[ssrc].packets + flagged <= MaxPackets
  /\ client' = [client EXCEPT ![ssrc].packets = @ + flagged]
  /\ senders' = [senders EXCEPT ![FindEntry(ssrc)].next_rtp_send_time = kImmediately]
  /\ ScheduleNextBurst(senders', lastBurst, fire)
  /\ UNCHANGED <<now, lastBurst, consuming, burst>>

\* RequestRtcpSend(), by a Sender that has just got a frame to report on.
RequestRtcpSend(ssrc) ==
  /\ ssrc \in Registered
  /\ client' = [client EXCEPT ![ssrc].has_report = TRUE]
  /\ senders' = [senders EXCEPT ![FindEntry(ssrc)].next_rtcp_send_time = kImmediately]
  /\ ScheduleNextBurst(senders', lastBurst, fire)
  /\ UNCHANGED <<now, lastBurst, consuming, burst>>

\* OnReceivedPacket() hands feedback to the Sender it is for, which cancels
\* what it need not send any more and tells the router nothing of it.
OnReceivedPacket(ssrc) ==
  /\ consuming
  /\ ssrc \in Registered
  /\ \E rest \in 0 .. client[ssrc].packets,
        kickstart \in {client[ssrc].kickstart, kNever} :
       client' = [client EXCEPT ![ssrc] =
                    [has_report |-> client[ssrc].has_report,
                     packets |-> rest, kickstart |-> kickstart]]
  /\ UNCHANGED <<now, routerVars, burst>>

-----------------------------------------------------------------------------
\* SendJustTheRtcpPackets(): who sends a report now, and the entries after it.
Reporting ==
  {i \in DOMAIN senders : /\ senders[i].next_rtcp_send_time <= now
                          /\ client[senders[i].receiver_ssrc].has_report}

SendJustTheRtcpPackets ==
  [i \in DOMAIN senders |->
     IF i \in Reporting
       THEN [senders[i] EXCEPT !.next_rtcp_send_time = now + RtcpInterval]
       ELSE senders[i]]

\* The packets GetRtpPacketForImmediateSend() has for the i-th Sender now: the
\* flagged ones, and then the Kickstart packet if its time has come.
Available(i) ==
  LET c == client[senders[i].receiver_ssrc]
  IN c.packets + (IF c.kickstart <= now THEN 1 ELSE 0)

\* Whether the i-th Sender is asked for packets, and how many it sends, when
\* `left` packets may still be sent.
IsAsked(i, left) == left > 0 /\ senders[i].next_rtp_send_time <= now

PacketsSent(i, left) ==
  IF IsAsked(i, left) THEN Min({Available(i), left}) ELSE 0

\* SendJustTheRtpPackets(): how many packets may still be sent after the i-th
\* Sender, of `budget`.
LeftAfter(budget) ==
  LET left[i \in 0 .. Len(senders)] ==
        IF i = 0 THEN budget ELSE left[i - 1] - PacketsSent(i, left[i - 1])
  IN left

\* A Sender after it has sent n packets. If packets went out, and no feedback
\* has made it unnecessary, the last one is repeated by a Kickstart packet.
AfterSending(c, n) ==
  [has_report |-> c.has_report,
   packets |-> IF n < c.packets THEN c.packets - n ELSE 0,
   kickstart |-> IF n > 0 /\ n >= c.packets THEN now + KickstartInterval ELSE c.kickstart]

\* GetRtpResumeTime().
ResumeTime(c) == IF c.packets > 0 THEN kImmediately ELSE c.kickstart

\* Alarm::TryInvoke() calls SendBurstOfPackets() and has no functor meanwhile. It
\* would queue a functor that comes before the Alarm's time again, but here none
\* does (FunctorNotEarly).
SendBurstOfPackets ==
  /\ fire <= now /\ alarm <= now
  /\ LET budget == MaxPacketsPerBurst - Cardinality(Reporting)
         left == LeftAfter(budget)
         sent(i) == PacketsSent(i, left[i - 1])
         after(i) == AfterSending(client[senders[i].receiver_ssrc], sent(i))
     IN /\ client' = [ssrc \in Ssrcs |->
                        IF ssrc \in Registered THEN after(FindEntry(ssrc))
                                               ELSE client[ssrc]]
        /\ senders' = [i \in DOMAIN senders |->
                         IF IsAsked(i, left[i - 1])
                           THEN [SendJustTheRtcpPackets[i] EXCEPT
                                   !.next_rtp_send_time = ResumeTime(after(i))]
                           ELSE SendJustTheRtcpPackets[i]]
        /\ burst' = [reports |-> {senders[i].receiver_ssrc : i \in Reporting},
                     packets |-> [ssrc \in Ssrcs |->
                                    IF ssrc \in Registered
                                      THEN sent(FindEntry(ssrc)) ELSE 0]]
  /\ lastBurst' = now
  /\ ScheduleNextBurst(senders', now, kNever)
  /\ UNCHANGED <<now, consuming>>

\* Time passes; the TaskRunner runs the functor late by MaxLateness at most.
Tick ==
  /\ now < MaxTime
  /\ now < fire + MaxLateness
  /\ now' = now + 1
  /\ UNCHANGED <<routerVars, client, burst>>

Next ==
  \/ \E ssrc \in Ssrcs : OnSenderCreated(ssrc)
  \/ \E ssrc \in Ssrcs : OnSenderDestroyed(ssrc)
  \/ \E ssrc \in Ssrcs, flagged \in 1 .. MaxPackets : RequestRtpSend(ssrc, flagged)
  \/ \E ssrc \in Ssrcs : RequestRtcpSend(ssrc)
  \/ \E ssrc \in Ssrcs : OnReceivedPacket(ssrc)
  \/ SendBurstOfPackets
  \/ Tick

Spec == Init /\ [][Next]_vars

-----------------------------------------------------------------------------
\* The members have their types, and packets are consumed as long as there is
\* a Sender to take them.
TypeOK ==
  /\ now \in 1 .. MaxTime
  /\ senders \in Seq(SenderEntry)
  /\ lastBurst \in -BurstInterval .. MaxTime
  /\ alarm \in SendTimes /\ fire \in SendTimes
  /\ consuming = (senders # <<>>)
  /\ client \in [Ssrcs -> Client]
  /\ burst \in Burst

\* While a Sender waits for its time to send, the Alarm is scheduled for that
\* time, or for the end of the current interval if that is later.
BurstScheduled ==
  \A i \in DOMAIN senders :
    NextSendTime(senders[i]) # kNever =>
      alarm <= Max({now, NextSendTime(senders[i]), lastBurst + BurstInterval})

\* A Sender with something to send is not suspended: the router will ask it.
NoSenderForgotten ==
  \A i \in DOMAIN senders :
    LET c == client[senders[i].receiver_ssrc]
    IN senders[i].next_rtp_send_time <=
         IF c.packets > 0 THEN kImmediately ELSE c.kickstart

\* However often the Alarm is set anew, the functor that it has queued does not
\* come before the burst is due.
FunctorNotEarly == fire <= now => alarm <= now

\* Senders come, go and ask for sends in any order: the router takes packets for
\* as long as it has Senders, its one Alarm covers all of them, its functor does
\* not come in vain, and no Sender that has something to send is suspended.
SendersServed == TypeOK /\ BurstScheduled /\ NoSenderForgotten /\ FunctorNotEarly

\* "The minimum amount of time between burst-sends": requests, reports and late
\* alarms never bring two bursts closer together than burst_interval_.
BurstsSpaced ==
  [][lastBurst' # lastBurst => lastBurst' >= lastBurst + BurstInterval]_vars

\* The packets of all Senders in a burst.
TotalSent(b) ==
  LET total[i \in 0 .. Len(senders)] ==
        IF i = 0 THEN 0 ELSE total[i - 1] + b.packets[senders[i].receiver_ssrc]
  IN total[Len(senders)]

\* "Higher priority Senders' RTP packets are sent first": a Sender sends packets
\* in a burst only if no more important one has to wait for the next burst, and
\* if all of them, with the reports, are within the limit.  Reports are sent in
\* any case.
BurstsShared ==
  [][lastBurst' # lastBurst =>
       LET sent == TotalSent(burst')
       IN  /\ sent > 0 => sent + Cardinality(burst'.reports) <= MaxPacketsPerBurst
           /\ \A i, j \in DOMAIN senders :
                /\ senders[i].receiver_ssrc < senders[j].receiver_ssrc
                /\ senders[i].next_rtp_send_time <= now
                /\ burst'.packets[senders[j].receiver_ssrc] > 0
                => burst'.packets[senders[i].receiver_ssrc] = Available(i)]_vars

\* "RTCP sending will repeat at regular intervals": once a Sender has reported,
\* its next report is late by less than a burst interval and the lateness of
\* the Alarm, however many RTP packets wait.
ReportsOnTime ==
  \A i \in DOMAIN senders :
    LET entry == senders[i]
    IN /\ client[entry.receiver_ssrc].has_report => entry.next_rtcp_send_time # kNever
       /\ entry.next_rtcp_send_time # kImmediately =>
            now < entry.next_rtcp_send_time + BurstInterval + MaxLateness
=============================================================================
