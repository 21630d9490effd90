-------------------------- MODULE SchedulingProofs --------------------------
(***************************************************************************)
(* What runs by the clock.                                                  *)
(*                                                                          *)
(* Alarm, for any number of functors and any times: its pointers are        *)
(* paired, a scheduled task has a functor that fires in time, and every     *)
(* step is one of OneShotTimer.                                             *)
(*                                                                          *)
(* TaskRunner: no task is lost, run twice or run out of turn, for any       *)
(* number of tasks, delays and wakeups.                                     *)
(***************************************************************************)
EXTENDS Alarm, TaskRunner, WellFoundedInduction, FiniteSetTheorems, TLAPS

-----------------------------------------------------------------------------
(* Alarm *)

\* Only the task of the latest call can be scheduled, and it has not run.
LatestTaskOnly ==
  scheduledTask # NoTask => scheduledTask = calls /\ calls \notin fired

AlarmInv == AlarmTypeOK /\ PointersPaired /\ FiringQueued /\ LatestTaskOnly

\* A new Alarm has nothing scheduled and nothing queued.
LEMMA InitInv == AlarmInit => AlarmInv
  BY AlarmAssumption
  DEF AlarmInit, AlarmInv, AlarmTypeOK, PointersPaired, FiringQueued, LatestTaskOnly, NoTask,
      NoFunctor, Times, Functor, NoTaskQueued

\* ScheduleWithTask() keeps a functor that is early enough.
LEMMA KeepFunctorInv ==
  ASSUME AlarmInv, NEW at \in Times, ScheduleWithTask(at), KeepsFire(alarmTime')
  PROVE  AlarmInv'
<1>1. /\ UNCHANGED <<now, exists, fired, queuedFire, nextFireTime, posted>>
      /\ calls' = calls + 1 /\ calls < MaxCalls
      /\ scheduledTask' = calls'
      /\ alarmTime' = IF at < now THEN now ELSE at
      /\ exists
  BY DEF ScheduleWithTask
<1>2. AlarmTypeOK'
  BY <1>1, AlarmAssumption DEF AlarmInv, AlarmTypeOK, Times
<1>3. PointersPaired'
  BY <1>1, Zenon DEF AlarmInv, PointersPaired
<1>4. FiringQueued'
  <2>1. queuedFire # NoFunctor /\ nextFireTime <= alarmTime'
    BY DEF KeepsFire
  <2>2. queuedFire \in Functors /\ posted[queuedFire].due = nextFireTime
    BY <2>1 DEF AlarmInv, AlarmTypeOK, FiringQueued, NoFunctor
  <2> QED
    BY <1>1, <2>1, <2>2 DEF FiringQueued
<1>5. LatestTaskOnly'
  BY <1>1, AlarmAssumption DEF AlarmInv, AlarmTypeOK, LatestTaskOnly
<1> QED
  BY <1>2, <1>3, <1>4, <1>5 DEF AlarmInv

\* A functor that is posted while no other one in `queue` points to the Alarm
\* is the one the Alarm and nothing else points to.
LEMMA InvokeLaterPairs ==
  ASSUME AlarmTypeOK, NEW queue \in [Functors -> Functor], NEW f \in Functors,
         NEW fireTime \in Times, exists', InvokeLater(queue, f, fireTime),
         \A g \in Functors : ~queue[g].alarm
  PROVE  /\ posted' \in [Functors -> Functor]
         /\ queuedFire' \in Functors /\ queuedFire' # NoFunctor
         /\ nextFireTime' = fireTime
         /\ posted'[queuedFire'].due = fireTime
         /\ PointersPaired'
<1>1. [queued |-> TRUE, alarm |-> TRUE, due |-> fireTime] \in Functor
  BY DEF Functor
<1>2. /\ posted' \in [Functors -> Functor]
      /\ posted'[f] = [queued |-> TRUE, alarm |-> TRUE, due |-> fireTime]
      /\ \A g \in Functors \ {f} : posted'[g] = queue[g]
  BY <1>1 DEF InvokeLater
<1>3. queuedFire' = f /\ f # NoFunctor /\ nextFireTime' = fireTime
  BY AlarmAssumption DEF InvokeLater, NoFunctor
<1>4. ASSUME NEW g \in Functors
      PROVE  posted'[g].alarm <=> (posted'[g].queued /\ queuedFire' = g)
  <2>1. CASE g = f
    BY <1>2, <1>3, <2>1
  <2>2. CASE g # f
    BY <1>2, <1>3, <2>2
  <2> QED
    BY <2>1, <2>2
<1> QED
  BY <1>2, <1>3, <1>4 DEF PointersPaired

\* queued_fire_->Cancel() leaves no functor that points to the Alarm.
LEMMA CancelFireUnpairs ==
  ASSUME AlarmTypeOK, PointersPaired, queuedFire # NoFunctor
  PROVE  /\ CancelFire(posted) \in [Functors -> Functor]
         /\ \A g \in Functors : ~CancelFire(posted)[g].alarm
<1>1. queuedFire \in Functors
  BY DEF AlarmTypeOK
<1>2. CancelFire(posted) =
        [posted EXCEPT ![queuedFire] = [posted[queuedFire] EXCEPT !.alarm = FALSE]]
  BY DEF CancelFire
<1>3. [posted[queuedFire] EXCEPT !.alarm = FALSE] \in Functor
  BY <1>1, Zenon DEF AlarmTypeOK, Functor
<1>4. CancelFire(posted) \in [Functors -> Functor]
  BY <1>1, <1>2, <1>3 DEF AlarmTypeOK
<1>5. ASSUME NEW g \in Functors
      PROVE  ~CancelFire(posted)[g].alarm
  <2>1. CASE g = queuedFire
    BY <1>1, <1>2, <2>1 DEF AlarmTypeOK, Functor
  <2>2. CASE g # queuedFire
    BY <1>1, <1>2, <2>2 DEF AlarmTypeOK, PointersPaired
  <2> QED
    BY <2>1, <2>2
<1> QED
  BY <1>4, <1>5

\* Without a queued functor of its own, no functor points to the Alarm.
LEMMA NonePointsBack ==
  ASSUME AlarmTypeOK, PointersPaired, queuedFire = NoFunctor
  PROVE  \A g \in Functors : ~posted[g].alarm
  BY AlarmAssumption DEF PointersPaired, NoFunctor
\* ScheduleWithTask() posts a functor, and cancels one that would be too late.
LEMMA NewFunctorInv ==
  ASSUME AlarmInv, NEW at \in Times, ScheduleWithTask(at), ~KeepsFire(alarmTime')
  PROVE  AlarmInv'
<1> DEFINE queue == IF queuedFire = NoFunctor THEN posted ELSE CancelFire(posted)
<1>1. /\ UNCHANGED <<now, exists, fired>>
      /\ calls' = calls + 1 /\ calls < MaxCalls
      /\ scheduledTask' = calls'
      /\ alarmTime' = IF at < now THEN now ELSE at
      /\ exists
  BY DEF ScheduleWithTask
<1>2. PICK f \in Functors : InvokeLater(queue, f, alarmTime')
  BY DEF ScheduleWithTask
<1>3. alarmTime' \in Times
  BY <1>1 DEF AlarmInv, AlarmTypeOK
<1>4. queue \in [Functors -> Functor] /\ \A g \in Functors : ~queue[g].alarm
  <2>1. CASE queuedFire = NoFunctor
    BY <2>1, NonePointsBack DEF AlarmInv, AlarmTypeOK
  <2>2. CASE queuedFire # NoFunctor
    BY <2>2, CancelFireUnpairs DEF AlarmInv
  <2> QED
    BY <2>1, <2>2
<1> HIDE DEF queue
<1>5. /\ posted' \in [Functors -> Functor]
      /\ queuedFire' \in Functors /\ queuedFire' # NoFunctor
      /\ nextFireTime' = alarmTime'
      /\ posted'[queuedFire'].due = alarmTime'
      /\ PointersPaired'
  BY <1>1, <1>2, <1>3, <1>4, InvokeLaterPairs DEF AlarmInv
<1>6. AlarmTypeOK'
  BY <1>1, <1>3, <1>5, AlarmAssumption DEF AlarmInv, AlarmTypeOK
<1>7. FiringQueued'
  BY <1>1, <1>3, <1>5 DEF FiringQueued, Times
<1>8. LatestTaskOnly'
  BY <1>1, AlarmAssumption DEF AlarmInv, AlarmTypeOK, LatestTaskOnly
<1> QED
  BY <1>5, <1>6, <1>7, <1>8 DEF AlarmInv

\* Cancel() only forgets the task; the functor will find nothing to do.
LEMMA CancelInv == ASSUME AlarmInv, Cancel PROVE AlarmInv'
  BY DEF Cancel, clientVars, AlarmInv, AlarmTypeOK, PointersPaired, FiringQueued,
         LatestTaskOnly, NoTask

\* The destructor leaves no functor that points to the Alarm.
LEMMA DestroyInv ==
  ASSUME AlarmInv, Destroy
  PROVE  AlarmInv'
<1>1. posted' \in [Functors -> Functor] /\ \A g \in Functors : ~posted'[g].alarm
  <2>1. CASE queuedFire = NoFunctor
    BY <2>1, NonePointsBack DEF AlarmInv, AlarmTypeOK, Destroy
  <2>2. CASE queuedFire # NoFunctor
    BY <2>2, CancelFireUnpairs DEF AlarmInv, Destroy
  <2> QED
    BY <2>1, <2>2
<1>2. queuedFire' = NoFunctor /\ scheduledTask' = NoTask
  BY DEF Destroy
<1>3. AlarmTypeOK'
  <2>1. exists' \in BOOLEAN
    BY Zenon DEF Destroy
  <2>2. UNCHANGED <<now, calls, fired, alarmTime, nextFireTime>>
    BY DEF Destroy
  <2>3. scheduledTask' \in 0 .. calls
    BY <1>2, AlarmAssumption DEF AlarmInv, AlarmTypeOK, NoTask
  <2> QED
    BY <1>1, <1>2, <2>1, <2>2, <2>3, Zenon DEF AlarmInv, AlarmTypeOK
<1>4. PointersPaired'
  BY <1>1, <1>2, AlarmAssumption DEF PointersPaired, NoFunctor
<1> QED
  BY <1>2, <1>3, <1>4 DEF AlarmInv, FiringQueued, LatestTaskOnly

\* The functor that runs leaves the queue; it runs the task, posts itself again
\* or finds nothing to do.
LEMMA RunFunctorInv ==
  ASSUME AlarmInv, NEW f \in Functors, RunFunctor(f)
  PROVE  AlarmInv'
<1> DEFINE queue == [posted EXCEPT ![f] = NoTaskQueued]
<1>1. NoTaskQueued \in Functor
  BY AlarmAssumption DEF NoTaskQueued, Functor, Times
<1>2. /\ queue \in [Functors -> Functor]
      /\ queue[f] = NoTaskQueued
      /\ \A g \in Functors \ {f} : queue[g] = posted[g]
  BY <1>1 DEF AlarmInv, AlarmTypeOK
<1>3. UNCHANGED <<now, exists, calls, alarmTime>> /\ posted[f].queued
  BY DEF RunFunctor
<1>4. ~NoTaskQueued.alarm /\ ~NoTaskQueued.queued
  BY DEF NoTaskQueued
<1>5. \/ posted[f].alarm /\ TryInvoke(f, queue)
      \/ /\ ~posted[f].alarm
         /\ posted' = queue
         /\ UNCHANGED <<scheduledTask, queuedFire, nextFireTime, fired>>
  BY DEF RunFunctor
<1> HIDE DEF queue
<1>6. CASE posted[f].alarm /\ TryInvoke(f, queue)
  <2>1. queuedFire = f /\ exists
    BY <1>6, AlarmAssumption DEF AlarmInv, PointersPaired, NoFunctor
  <2>2. \A g \in Functors : ~queue[g].alarm
    BY <1>2, <1>4, <2>1 DEF AlarmInv, PointersPaired
  <2>3. CASE scheduledTask # NoTask /\ now < alarmTime
    <3>1. InvokeLater(queue, f, alarmTime) /\ UNCHANGED <<scheduledTask, fired>>
      BY <1>6, <2>3 DEF TryInvoke, AlarmInv, AlarmTypeOK, Times
    <3>2. /\ posted' \in [Functors -> Functor]
          /\ queuedFire' \in Functors /\ queuedFire' # NoFunctor
          /\ nextFireTime' = alarmTime
          /\ posted'[queuedFire'].due = alarmTime
          /\ PointersPaired'
      BY <1>2, <1>3, <2>1, <2>2, <3>1, InvokeLaterPairs DEF AlarmInv, AlarmTypeOK
    <3>3. AlarmTypeOK'
      BY <1>3, <3>1, <3>2 DEF AlarmInv, AlarmTypeOK
    <3>4. FiringQueued'
      BY <1>3, <2>1, <3>2 DEF AlarmInv, AlarmTypeOK, FiringQueued, Times
    <3> QED
      BY <1>3, <3>1, <3>2, <3>3, <3>4 DEF AlarmInv, LatestTaskOnly
  <2>4. CASE scheduledTask = NoTask \/ now >= alarmTime
    <3>1. /\ queuedFire' = NoFunctor /\ posted' = queue
          /\ scheduledTask' = NoTask /\ UNCHANGED nextFireTime
          /\ fired' \subseteq fired \union ({scheduledTask} \ {NoTask})
      BY <1>6, <2>4 DEF TryInvoke, AlarmInv, AlarmTypeOK, Times
    <3>2. AlarmTypeOK'
      BY <1>2, <1>3, <3>1, AlarmAssumption DEF AlarmInv, AlarmTypeOK, NoTask, NoFunctor
    <3>3. PointersPaired'
      BY <2>2, <3>1, AlarmAssumption DEF PointersPaired, NoFunctor
    <3> QED
      BY <3>1, <3>2, <3>3 DEF AlarmInv, FiringQueued, LatestTaskOnly
  <2> QED
    BY <2>3, <2>4 DEF AlarmInv, AlarmTypeOK, Times
<1>7. CASE /\ ~posted[f].alarm
           /\ posted' = queue
           /\ UNCHANGED <<scheduledTask, queuedFire, nextFireTime, fired>>
  <2>1. queuedFire # f
    BY <1>7, AlarmAssumption DEF AlarmInv, PointersPaired, NoFunctor
  <2>2. AlarmTypeOK'
    BY <1>2, <1>3, <1>7 DEF AlarmInv, AlarmTypeOK
  <2>3. queuedFire # NoFunctor => queuedFire \in Functors \ {f}
    BY <2>1 DEF AlarmInv, AlarmTypeOK
  <2>4. PointersPaired'
    BY <1>2, <1>3, <1>4, <1>7, <2>1, <2>3 DEF AlarmInv, PointersPaired
  <2>5. FiringQueued'
    BY <1>2, <1>3, <1>7, <2>3 DEF AlarmInv, FiringQueued
  <2> QED
    BY <1>3, <1>7, <2>2, <2>4, <2>5 DEF AlarmInv, LatestTaskOnly
<1> QED
  BY <1>5, <1>6, <1>7
\* Time passing changes nothing else.
LEMMA TickInv == ASSUME AlarmInv, AlarmTick PROVE AlarmInv'
<1>1. /\ now < MaxTime /\ now' = now + 1
      /\ UNCHANGED <<exists, calls, fired, scheduledTask, alarmTime, queuedFire,
                     nextFireTime, posted>>
  BY DEF AlarmTick, clientVars
<1>2. AlarmTypeOK'
  BY <1>1, AlarmAssumption DEF AlarmInv, AlarmTypeOK, Times
<1> QED
  BY <1>1, <1>2, Zenon
  DEF AlarmInv, PointersPaired, FiringQueued, LatestTaskOnly

\* Every step of the Alarm, its client and the TaskRunner keeps the invariant.
LEMMA NextInv == ASSUME AlarmInv, [AlarmNext]_alarmVars PROVE AlarmInv'
<1>1. CASE \E at \in Times : ScheduleWithTask(at)
  BY <1>1, KeepFunctorInv, NewFunctorInv, Zenon
<1>2. CASE Cancel
  BY <1>2, CancelInv
<1>3. CASE Destroy
  BY <1>3, DestroyInv
<1>4. CASE \E f \in Functors : RunFunctor(f)
  BY <1>4, RunFunctorInv, Zenon
<1>5. CASE AlarmTick
  BY <1>5, TickInv
<1>6. CASE UNCHANGED alarmVars
  BY <1>6, Zenon DEF alarmVars, clientVars, AlarmInv, AlarmTypeOK, PointersPaired, FiringQueued,
              LatestTaskOnly
<1> QED
  BY <1>1, <1>2, <1>3, <1>4, <1>5, <1>6, Zenon DEF AlarmNext

\* The invariant of an Alarm and its functors.
THEOREM AlarmInvariant == AlarmSpec => []AlarmInv
  BY InitInv, NextInv, PTL DEF AlarmSpec

\* No OSP_CHECK of CancelableFunctor fails, and no functor points to an Alarm
\* that was destroyed.
THEOREM FunctorsPaired == AlarmSpec => []PointersPaired
  BY AlarmInvariant, PTL DEF AlarmInv

\* A scheduled task always has a functor in the queue of the TaskRunner that
\* fires at its time or earlier.
THEOREM FiringNeverMissing == AlarmSpec => []FiringQueued
  BY AlarmInvariant, PTL DEF AlarmInv

\* Both at once, as the run of the Alarm checks it.
THEOREM FunctorsAlwaysAgree == AlarmSpec => []FunctorsAgree
  BY AlarmInvariant, PTL DEF AlarmInv, FunctorsAgree

\* The members of an Alarm keep their types.
THEOREM AlarmTypes == AlarmSpec => []AlarmTypeOK
  BY AlarmInvariant, PTL DEF AlarmInv

-----------------------------------------------------------------------------
\* A new Alarm is a new timer.
LEMMA TimerStarts == AlarmInit => Timer!Init
  BY AlarmAssumption DEF AlarmInit, Timer!Init, NoTask, Times

\* Every step of an Alarm is a step of the timer, or one the client of the
\* timer cannot see.
LEMMA TimerSteps ==
  ASSUME AlarmInv, [AlarmNext]_alarmVars
  PROVE  [Timer!Next]_Timer!timerVars
<1> USE DEF Timer!timerVars
<1>1. ASSUME NEW at \in Times, ScheduleWithTask(at)
      PROVE  Timer!Next
  <2>1. Timer!Schedule(at)
    BY <1>1 DEF ScheduleWithTask, Timer!Schedule
  <2> QED
    BY <2>1 DEF Timer!Next
<1>2. CASE Cancel
  <2>1. Timer!Cancel
    BY <1>2 DEF Cancel, clientVars, Timer!Cancel
  <2> QED
    BY <2>1 DEF Timer!Next
<1>3. CASE Destroy
  <2>1. Timer!Destroy
    BY <1>3 DEF Destroy, Timer!Destroy
  <2> QED
    BY <2>1 DEF Timer!Next
<1>4. ASSUME NEW f \in Functors, RunFunctor(f)
      PROVE  [Timer!Next]_Timer!timerVars
  <2>1. UNCHANGED <<now, exists, calls, alarmTime>>
    BY <1>4 DEF RunFunctor
  <2>2. CASE UNCHANGED <<scheduledTask, fired>>
    BY <2>1, <2>2
  <2>3. CASE ~UNCHANGED <<scheduledTask, fired>>
    <3>1. /\ posted[f].alarm
          /\ scheduledTask # NoTask /\ now >= alarmTime
          /\ scheduledTask' = NoTask /\ fired' = fired \union {scheduledTask}
      BY <1>4, <2>3 DEF RunFunctor, TryInvoke
    <3>2. exists /\ scheduledTask \notin fired
      BY <3>1 DEF AlarmInv, FiringQueued, LatestTaskOnly
    <3>3. Timer!Run
      BY <2>1, <3>1, <3>2 DEF Timer!Run, AlarmInv, AlarmTypeOK, Times
    <3> QED
      BY <3>3 DEF Timer!Next
  <2> QED
    BY <2>2, <2>3
<1>5. CASE AlarmTick
  <2>1. Timer!Tick
    BY <1>5 DEF AlarmTick, clientVars, Timer!Tick, AlarmInv, AlarmTypeOK, Times
  <2> QED
    BY <2>1 DEF Timer!Next
<1>6. CASE UNCHANGED alarmVars
  BY <1>6 DEF alarmVars, clientVars
<1> QED
  BY <1>1, <1>2, <1>3, <1>4, <1>5, <1>6 DEF AlarmNext

\* An Alarm implements a one-shot timer: a task runs once at most, never before
\* its time, and never after it was cancelled, replaced or the Alarm destroyed.
THEOREM AlarmIsTimer == AlarmSpec => ImplementsTimer
<1>1. AlarmInit => Timer!Init
  BY TimerStarts
<1>2. AlarmInv /\ [AlarmNext]_alarmVars => [Timer!Next]_Timer!timerVars
  BY TimerSteps
<1> QED
  BY <1>1, <1>2, AlarmInvariant, PTL DEF AlarmSpec, ImplementsTimer, Timer!Spec

-----------------------------------------------------------------------------
(* TaskRunner *)

\* A non-empty set of naturals has a least element.
LEMMA NatMinimum ==
  ASSUME NEW T, T \subseteq Nat, T # {}
  PROVE  \E x \in T : \A y \in T : x <= y
<1>1. PICK x \in T : \A y \in T : ~(<<y, x>> \in OpToRel(<, Nat))
  BY NatLessThanWellFounded, WFMin, Zenon
<1>2. ASSUME NEW y \in T
      PROVE  x <= y
  <2>1. x \in Nat /\ y \in Nat
    OBVIOUS
  <2>2. y < x => <<y, x>> \in OpToRel(<, Nat)
    BY <2>1 DEF OpToRel
  <2>3. ~(y < x)
    BY <1>1, <2>2, Zenon
  <2>. QED
    BY <2>1, <2>3
<1>. QED
  BY <1>2

\* Tasks a and b in the order of delayed_tasks_, with these due times.
Before(dues, a, b) == dues[a] < dues[b] \/ (dues[a] = dues[b] /\ a <= b)

\* Of n posted tasks those in o have left the map of delayed tasks, in this order,
\* and those in later are in it.  What makes the order an invariant is the last
\* conjunct: whatever stays in the map is due after everything taken from it.
InTurn(o, later, dues, n, time) ==
  /\ \A i, j \in DOMAIN o : o[i] = o[j] => i = j
  /\ \A i \in DOMAIN o : o[i] \notin later
  /\ \A t \in 1 .. n : t \in later \/ \E i \in DOMAIN o : o[i] = t
  /\ \A i, j \in DOMAIN o :
       i < j /\ (dues[o[i]] = 0) = (dues[o[j]] = 0) => Before(dues, o[i], o[j])
  /\ \A i \in DOMAIN o : dues[o[i]] <= time
  /\ \A t \in later : dues[t] > 0
  /\ \A i \in DOMAIN o : \A t \in later : dues[o[i]] < dues[t]

\* The tasks that have run, those that run now and those that wait to, in this
\* order, have left the map.
RunnerInv == RunnerTypeOK /\ InTurn(Order, delayed, due, Len(kind), now)

-----------------------------------------------------------------------------
(* Sequences *)

\* Concatenation, element by element.
LEMMA ConcatFacts ==
  ASSUME NEW S, NEW p \in Seq(S), NEW q \in Seq(S)
  PROVE  /\ p \o q \in Seq(S) /\ Len(p) \in Nat /\ Len(q) \in Nat
         /\ DOMAIN p = 1 .. Len(p) /\ DOMAIN q = 1 .. Len(q)
         /\ DOMAIN (p \o q) = 1 .. Len(p) + Len(q) /\ Len(p \o q) = Len(p) + Len(q)
         /\ \A i \in DOMAIN p : (p \o q)[i] = p[i]
         /\ \A i \in 1 .. Len(q) : (p \o q)[Len(p) + i] = q[i]
         /\ \A i \in DOMAIN (p \o q) :
              \/ i \in DOMAIN p
              \/ i > Len(p) /\ i - Len(p) \in DOMAIN q /\ (p \o q)[i] = q[i - Len(p)]
OBVIOUS

\* Appending, element by element.
LEMMA AppendFacts ==
  ASSUME NEW S, NEW q \in Seq(S), NEW m \in S
  PROVE  /\ Append(q, m) \in Seq(S) /\ Len(q) \in Nat /\ DOMAIN q = 1 .. Len(q)
         /\ DOMAIN Append(q, m) = 1 .. Len(q) + 1 /\ Len(Append(q, m)) = Len(q) + 1
         /\ \A i \in DOMAIN q : Append(q, m)[i] = q[i]
         /\ Append(q, m)[Len(q) + 1] = m
OBVIOUS

\* Swapping a queue with an empty one.
LEMMA EmptyMoves ==
  ASSUME NEW S, NEW a \in Seq(S), NEW c \in Seq(S)
  PROVE  a \o <<>> \o c = a \o c \o <<>>
OBVIOUS

\* A sequence over a smaller set.
LEMMA SeqWithin ==
  ASSUME NEW S, NEW T, S \subseteq T, NEW q \in Seq(S)
  PROVE  q \in Seq(T)
OBVIOUS

-----------------------------------------------------------------------------
(* The order of the tasks *)

\* A task posted without a delay comes last.
LEMMA PostedInTurn ==
  ASSUME NEW n \in Nat, NEW o \in Seq(1 .. n), NEW later \in SUBSET (1 .. n),
         NEW dues \in Seq(Nat), Len(dues) = n, NEW time \in Nat,
         InTurn(o, later, dues, n, time)
  PROVE  InTurn(Append(o, n + 1), later, Append(dues, 0), n + 1, time)
<1>. DEFINE p == Append(o, n + 1)
            new == Append(dues, 0)
<1>1. /\ p \in Seq(1 .. n + 1) /\ Len(o) \in Nat /\ DOMAIN o = 1 .. Len(o)
      /\ DOMAIN p = 1 .. Len(o) + 1
      /\ \A i \in DOMAIN o : p[i] = o[i] /\ o[i] \in 1 .. n
      /\ p[Len(o) + 1] = n + 1
      /\ \A i \in DOMAIN p : i \in DOMAIN o \/ i = Len(o) + 1
  <2>1. o \in Seq(1 .. n + 1)
    BY SeqWithin
  <2>. QED
    BY <2>1, AppendFacts, SMTT(30)
<1>2. /\ \A t \in 1 .. n : new[t] = dues[t] /\ dues[t] \in Nat
      /\ new[n + 1] = 0
  BY AppendFacts
<1>. HIDE DEF p, new
<1>0. /\ \A i, j \in DOMAIN o : o[i] = o[j] => i = j
      /\ \A i \in DOMAIN o : o[i] \notin later
  BY DEF InTurn
<1>3. \A i, j \in DOMAIN p : p[i] = p[j] => i = j
  <2>1. \A i \in DOMAIN o : p[i] # n + 1
    BY <1>1
  <2>. QED
    BY <1>0, <1>1, <2>1, Zenon
<1>4. \A i \in DOMAIN p : p[i] \notin later
  <2>1. n + 1 \notin later
    OBVIOUS
  <2>. QED
    BY <1>0, <1>1, <2>1, Zenon
<1>5. \A t \in 1 .. n + 1 : t \in later \/ \E i \in DOMAIN p : p[i] = t
  <2>1. \A t \in 1 .. n + 1 : t \in 1 .. n \/ t = n + 1
    OBVIOUS
  <2>2. Len(o) + 1 \in DOMAIN p /\ \A i \in DOMAIN o : i \in DOMAIN p
    BY <1>1
  <2>. QED
    BY <1>1, <2>1, <2>2, Zenon DEF InTurn
<1>6. \A i, j \in DOMAIN p :
        i < j /\ (new[p[i]] = 0) = (new[p[j]] = 0) => Before(new, p[i], p[j])
  <2>1. SUFFICES ASSUME NEW i \in DOMAIN p, NEW j \in DOMAIN p, i < j,
                        (new[p[i]] = 0) = (new[p[j]] = 0)
                 PROVE  Before(new, p[i], p[j])
    OBVIOUS
  <2>2. i \in DOMAIN o
    BY <1>1, <2>1
  <2>3. CASE j \in DOMAIN o
    <3>1. p[i] = o[i] /\ p[j] = o[j] /\ o[i] \in 1 .. n /\ o[j] \in 1 .. n
      BY <1>1, <2>2, <2>3
    <3>2. new[p[i]] = dues[o[i]] /\ new[p[j]] = dues[o[j]]
      <4>1. new[o[i]] = dues[o[i]] /\ new[o[j]] = dues[o[j]]
        BY <1>2, <3>1, Zenon
      <4>. QED
        BY <3>1, <4>1, Zenon
    <3>3. Before(dues, o[i], o[j])
      BY <2>1, <2>2, <2>3, <3>2, Zenon DEF InTurn
    <3>. QED
      BY <3>1, <3>2, <3>3 DEF Before
  <2>4. CASE j = Len(o) + 1
    <3>1. p[i] = o[i] /\ o[i] \in 1 .. n /\ p[j] = n + 1
      BY <1>1, <2>2, <2>4
    <3>2. new[p[j]] = 0
      BY <1>2, <3>1
    <3>3. new[p[i]] = 0
      BY <2>1, <3>2
    <3>. QED
      BY <3>1, <3>2, <3>3 DEF Before
  <2>. QED
    BY <1>1, <2>3, <2>4
<1>7. ASSUME NEW i \in DOMAIN p
      PROVE  new[p[i]] <= time /\ \A t \in later : new[p[i]] < new[t]
  <2>1. CASE i \in DOMAIN o
    <3>1. new[p[i]] = dues[o[i]] /\ \A t \in later : new[t] = dues[t]
      BY <1>1, <1>2, <2>1, Zenon
    <3>. QED
      BY <2>1, <3>1, Zenon DEF InTurn
  <2>2. CASE i = Len(o) + 1
    BY <1>1, <1>2, <2>2 DEF InTurn
  <2>. QED
    BY <1>1, <2>1, <2>2
<1>8. \A t \in later : new[t] > 0
  BY <1>2 DEF InTurn
<1>. QED
  BY <1>3, <1>4, <1>5, <1>6, <1>7, <1>8, Zenon DEF InTurn, p, new

\* A task posted with a delay is due after all those that have been taken over.
LEMMA DelayedInTurn ==
  ASSUME NEW n \in Nat, NEW o \in Seq(1 .. n), NEW later \in SUBSET (1 .. n),
         NEW dues \in Seq(Nat), Len(dues) = n, NEW time \in Nat,
         InTurn(o, later, dues, n, time), NEW d \in Nat, d > time
  PROVE  InTurn(o, later \cup {n + 1}, Append(dues, d), n + 1, time)
<1>. DEFINE new == Append(dues, d)
<1>1. \A i \in DOMAIN o : o[i] \in 1 .. n
  OBVIOUS
<1>2. /\ \A t \in 1 .. n : new[t] = dues[t] /\ dues[t] \in Nat
      /\ new[n + 1] = d
  BY AppendFacts, SMTT(30)
<1>. HIDE DEF new
<1>3. \A i \in DOMAIN o : o[i] \notin later \cup {n + 1}
  BY <1>1 DEF InTurn
<1>4. \A t \in 1 .. n + 1 : t \in later \cup {n + 1} \/ \E i \in DOMAIN o : o[i] = t
  <2>1. \A t \in 1 .. n + 1 : t \in 1 .. n \/ t = n + 1
    OBVIOUS
  <2>. QED
    BY <2>1, Zenon DEF InTurn
<1>5. \A i, j \in DOMAIN o :
        i < j /\ (new[o[i]] = 0) = (new[o[j]] = 0) => Before(new, o[i], o[j])
  <2>1. SUFFICES ASSUME NEW i \in DOMAIN o, NEW j \in DOMAIN o, i < j,
                        (new[o[i]] = 0) = (new[o[j]] = 0)
                 PROVE  Before(new, o[i], o[j])
    OBVIOUS
  <2>2. new[o[i]] = dues[o[i]] /\ new[o[j]] = dues[o[j]]
    BY <1>1, <1>2, Zenon
  <2>3. Before(dues, o[i], o[j])
    BY <2>1, <2>2, Zenon DEF InTurn
  <2>. QED
    BY <2>2, <2>3 DEF Before
<1>6. \A i \in DOMAIN o : new[o[i]] <= time
  BY <1>1, <1>2, SMTT(30) DEF InTurn
<1>7. \A t \in later \cup {n + 1} : new[t] > 0
  BY <1>2 DEF InTurn
<1>8. \A i \in DOMAIN o : \A t \in later \cup {n + 1} : new[o[i]] < new[t]
  <2>1. SUFFICES ASSUME NEW i \in DOMAIN o, NEW t \in later \cup {n + 1}
                 PROVE  new[o[i]] < new[t]
    OBVIOUS
  <2>2. CASE t \in later
    BY <1>1, <1>2, <2>2, Zenon DEF InTurn
  <2>3. CASE t = n + 1
    BY <1>1, <1>2, <1>6, <2>3, SMTT(30)
  <2>. QED
    BY <2>2, <2>3
<1>. QED
  BY <1>3, <1>4, <1>5, <1>6, <1>7, <1>8, Zenon DEF InTurn, new

\* The tasks that have come due are taken over in the order of their due times.
LEMMA ScheduledInTurn ==
  ASSUME NEW n \in Nat, NEW o \in Seq(1 .. n), NEW later \in SUBSET (1 .. n),
         NEW dues \in Seq(Nat), Len(dues) = n, NEW time \in Nat,
         InTurn(o, later, dues, n, time),
         NEW S \in SUBSET later, S = {t \in later : dues[t] <= time},
         NEW order \in Seq(S), \A i, j \in DOMAIN order : order[i] = order[j] => i = j,
         \A t \in S : \E i \in DOMAIN order : order[i] = t,
         \A i, j \in DOMAIN order : i < j => Before(dues, order[i], order[j])
  PROVE  InTurn(o \o order, later \ S, dues, n, time)
<1>. DEFINE p == o \o order
<1>1. /\ \A t \in 1 .. n : dues[t] \in Nat
      /\ \A i \in DOMAIN o : o[i] \in 1 .. n
      /\ \A i \in DOMAIN order : order[i] \in S
  <2>1. ASSUME NEW T, NEW q \in Seq(T)
        PROVE  Len(q) \in Nat /\ \A i \in 1 .. Len(q) : q[i] \in T
    OBVIOUS
  <2>2. DOMAIN o = 1 .. Len(o) /\ DOMAIN order = 1 .. Len(order)
    OBVIOUS
  <2>. QED
    BY <2>1, <2>2, Zenon
<1>2. /\ Len(o) \in Nat /\ Len(order) \in Nat
      /\ DOMAIN o = 1 .. Len(o) /\ DOMAIN order = 1 .. Len(order)
      /\ DOMAIN p = 1 .. Len(o) + Len(order)
      /\ \A i \in DOMAIN o : p[i] = o[i]
      /\ \A i \in 1 .. Len(order) : p[Len(o) + i] = order[i]
      /\ \A i \in DOMAIN p :
           \/ i \in DOMAIN o
           \/ i > Len(o) /\ i - Len(o) \in DOMAIN order /\ p[i] = order[i - Len(o)]
  <2>1. order \in Seq(1 .. n)
    BY SeqWithin, Zenon
  <2>. QED
    BY <2>1, ConcatFacts
<1>. HIDE DEF p
<1>3. \A i, j \in DOMAIN p : p[i] = p[j] => i = j
  <2>1. SUFFICES ASSUME NEW i \in DOMAIN p, NEW j \in DOMAIN p, p[i] = p[j], i # j
                 PROVE  FALSE
    OBVIOUS
  <2>2. CASE i \in DOMAIN o /\ j \in DOMAIN o
    BY <1>2, <2>1, <2>2 DEF InTurn
  <2>3. CASE i \in DOMAIN o /\ j \notin DOMAIN o
    BY <1>1, <1>2, <2>1, <2>3 DEF InTurn
  <2>4. CASE i \notin DOMAIN o /\ j \in DOMAIN o
    BY <1>1, <1>2, <2>1, <2>4 DEF InTurn
  <2>5. CASE i \notin DOMAIN o /\ j \notin DOMAIN o
    BY <1>2, <2>1, <2>5
  <2>. QED
    BY <2>2, <2>3, <2>4, <2>5
<1>4. \A i \in DOMAIN p : p[i] \notin later \ S
  <2>1. \A i \in DOMAIN o : o[i] \notin later
    BY DEF InTurn
  <2>2. ASSUME NEW i \in DOMAIN p, i \in DOMAIN o
        PROVE  p[i] \notin later \ S
    BY <1>2, <2>1, <2>2, Zenon
  <2>3. ASSUME NEW i \in DOMAIN p, i - Len(o) \in DOMAIN order, p[i] = order[i - Len(o)]
        PROVE  p[i] \notin later \ S
    BY <1>1, <2>3, Zenon
  <2>. QED
    BY <1>2, <2>2, <2>3, Zenon
<1>5. \A t \in 1 .. n : t \in later \ S \/ \E i \in DOMAIN p : p[i] = t
  <2>1. SUFFICES ASSUME NEW t \in 1 .. n, t \notin later \ S
                 PROVE  \E i \in DOMAIN p : p[i] = t
    OBVIOUS
  <2>2. CASE t \in S
    <3>1. PICK i \in DOMAIN order : order[i] = t
      BY <2>2
    <3>2. Len(o) + i \in DOMAIN p /\ p[Len(o) + i] = t
      BY <1>2, <3>1
    <3>. QED
      BY <3>2
  <2>3. CASE t \notin S
    <3>1. PICK i \in DOMAIN o : o[i] = t
      BY <2>1, <2>3, Zenon DEF InTurn
    <3>2. i \in DOMAIN p /\ p[i] = t
      BY <1>2, <3>1
    <3>. QED
      BY <3>2
  <2>. QED
    BY <2>2, <2>3
<1>6. ASSUME NEW i \in DOMAIN p
      PROVE  dues[p[i]] <= time /\ \A t \in later \ S : dues[p[i]] < dues[t]
  <2>1. CASE i \in DOMAIN o
    BY <1>2, <2>1, Zenon DEF InTurn
  <2>2. CASE i \notin DOMAIN o
    <3>1. p[i] \in S
      BY <1>1, <1>2, <2>2
    <3>2. dues[p[i]] <= time /\ p[i] \in 1 .. n
      BY <3>1, Zenon
    <3>3. ASSUME NEW t \in later \ S
          PROVE  dues[p[i]] < dues[t]
      <4>1. dues[t] > time
        BY <1>1, <3>3
      <4>. QED
        BY <1>1, <3>2, <4>1
    <3>. QED
      BY <3>2, <3>3
  <2>. QED
    BY <2>1, <2>2
<1>7. \A i, j \in DOMAIN p :
        i < j /\ (dues[p[i]] = 0) = (dues[p[j]] = 0) => Before(dues, p[i], p[j])
  <2>1. SUFFICES ASSUME NEW i \in DOMAIN p, NEW j \in DOMAIN p, i < j,
                        (dues[p[i]] = 0) = (dues[p[j]] = 0)
                 PROVE  Before(dues, p[i], p[j])
    OBVIOUS
  <2>2. CASE i \in DOMAIN o /\ j \in DOMAIN o
    BY <1>2, <2>1, <2>2, Zenon DEF InTurn
  <2>3. CASE i \in DOMAIN o /\ j \notin DOMAIN o
    <3>1. p[i] = o[i] /\ p[j] \in later
      BY <1>1, <1>2, <2>3
    <3>. QED
      BY <2>3, <3>1, Zenon DEF InTurn, Before
  <2>4. CASE i \notin DOMAIN o
    <3>1. /\ i - Len(o) \in DOMAIN order /\ j - Len(o) \in DOMAIN order
          /\ i - Len(o) < j - Len(o)
          /\ p[i] = order[i - Len(o)] /\ p[j] = order[j - Len(o)]
      <4>1. j \notin DOMAIN o
        BY <1>2, <2>1, <2>4
      <4>2. i - Len(o) < j - Len(o)
        BY <1>2, <2>1
      <4>. QED
        BY <1>2, <2>4, <4>1, <4>2
    <3>. QED
      BY <3>1
  <2>. QED
    BY <2>2, <2>3, <2>4
<1>8. \A t \in later \ S : dues[t] > 0
  BY DEF InTurn
<1>. QED
  BY <1>3, <1>4, <1>5, <1>6, <1>7, <1>8, Zenon DEF InTurn, p

\* Time passes.
LEMMA LaterInTurn ==
  ASSUME NEW n \in Nat, NEW o \in Seq(1 .. n), NEW later, NEW dues \in Seq(Nat), Len(dues) = n,
         NEW time \in Nat, InTurn(o, later, dues, n, time)
  PROVE  InTurn(o, later, dues, n, time + 1)
<1>1. \A i \in DOMAIN o : dues[o[i]] <= time + 1
  <2>1. \A i \in DOMAIN o : dues[o[i]] \in Nat
    OBVIOUS
  <2>. QED
    BY <2>1, SMTT(30) DEF InTurn
<1>. QED
  BY <1>1, Zenon DEF InTurn

-----------------------------------------------------------------------------
(* The steps *)

\* What RunnerTypeOK says of the queues.
LEMMA QueueFacts ==
  ASSUME RunnerInv
  PROVE  /\ Len(kind) \in Nat /\ Posted = 1 .. Len(kind) /\ now \in Nat
         /\ tasks \in Seq(1 .. Len(kind)) /\ running \in Seq(1 .. Len(kind))
         /\ ran \in Seq(1 .. Len(kind)) /\ Order \in Seq(1 .. Len(kind))
         /\ delayed \in SUBSET (1 .. Len(kind))
         /\ due \in Seq(Nat) /\ Len(due) = Len(kind)
         /\ InTurn(Order, delayed, due, Len(kind), now)
<1>1. RunnerTypeOK /\ InTurn(Order, delayed, due, Len(kind), now)
  BY DEF RunnerInv
<1>2. Len(kind) \in Nat /\ Posted = 1 .. Len(kind) /\ now \in Nat
  <2>1. kind \in Seq(Kinds) /\ now \in 1 .. MaxTime
    BY <1>1, Zenon DEF RunnerTypeOK
  <2>2. Posted = DOMAIN kind
    BY Zenon DEF Posted
  <2>. QED
    BY <2>1, <2>2, TaskRunnerAssumption
<1>3. /\ tasks \in Seq(1 .. Len(kind)) /\ running \in Seq(1 .. Len(kind))
      /\ ran \in Seq(1 .. Len(kind)) /\ delayed \in SUBSET (1 .. Len(kind))
  BY <1>1, <1>2, Zenon DEF RunnerTypeOK
<1>4. Order \in Seq(1 .. Len(kind))
  BY <1>3 DEF Order
<1>5. due \in Seq(Nat) /\ Len(due) = Len(kind)
  <2>1. Immediately .. MaxTime \subseteq Nat
    BY TaskRunnerAssumption DEF Immediately
  <2>2. due \in Seq(Immediately .. MaxTime) /\ Len(due) = Len(kind)
    BY <1>1, Zenon DEF RunnerTypeOK
  <2>. QED
    BY <2>1, <2>2, SeqWithin, Zenon
<1>. QED
  BY <1>1, <1>2, <1>3, <1>4, <1>5

\* The sleep ends within the bound.
LEMMA SleepUntilFacts ==
  ASSUME RunnerInv
  PROVE  SleepUntil \in 1 .. Never
<1>. DEFINE first == {due[t] : t \in delayed}
            limit == IF hasWaiter THEN {now + WaiterTimeout, MaxTime} ELSE {}
            S == first \union limit \union {Never}
<1>1. Never \in Nat \ {0} /\ MaxTime \in Nat \ {0} /\ WaiterTimeout \in Nat \ {0}
  BY TaskRunnerAssumption DEF Never
<1>2. \A t \in delayed : due[t] \in Nat \ {0}
  <2>1. \A t \in delayed : due[t] > 0 /\ t \in 1 .. Len(kind)
    BY QueueFacts DEF InTurn
  <2>. QED
    BY <2>1, QueueFacts
<1>3. S \subseteq Nat \ {0} /\ Never \in S
  BY <1>1, <1>2, QueueFacts, SMTT(30)
<1>. HIDE DEF S
<1>4. PICK m \in S : \A x \in S : m <= x
  BY <1>3, NatMinimum, Zenon
<1>5. Min(S) \in S /\ \A x \in S : Min(S) <= x
  BY <1>4, Zenon DEF Min
<1>6. SleepUntil = Min(S)
  BY Zenon DEF SleepUntil, S
<1>7. Min(S) \in Nat \ {0} /\ Min(S) <= Never
  BY <1>3, <1>5, Zenon
<1>. QED
  BY <1>1, <1>6, <1>7

Places == {"idle", "schedule", "grab", "run", "unlocked", "sleep", "check"}

\* The part of RunnerTypeOK about the thread.
Thread ==
  /\ hasWaiter \in BOOLEAN
  /\ isRunning \in BOOLEAN
  /\ pc \in Places
  /\ deadline \in 1 .. Never
  /\ signals \in {"not running", "not signaled", "signaled"}
  /\ (pc = "run") = (running # <<>>)
  /\ pc = "idle" => ~isRunning
  /\ deadline # Never => pc \in {"unlocked", "sleep"}

\* The part of RunnerTypeOK about the queues.
Queues ==
  /\ now \in 1 .. MaxTime
  /\ kind \in Seq(Kinds) /\ Len(kind) <= MaxTasks
  /\ due \in Seq(Immediately .. MaxTime) /\ Len(due) = Len(kind)
  /\ tasks \in Seq(1 .. Len(kind))
  /\ delayed \subseteq 1 .. Len(kind)
  /\ running \in Seq(1 .. Len(kind))
  /\ ran \in Seq(1 .. Len(kind))

\* The invariant in its parts, now and after a step.
LEMMA RunnerInvParts ==
  /\ RunnerInv <=> Thread /\ Queues /\ InTurn(Order, delayed, due, Len(kind), now)
  /\ RunnerInv' <=> Thread' /\ Queues' /\ InTurn(Order', delayed', due', Len(kind'), now')
<1>1. ASSUME NEW S, NEW q \in Seq(S)
      PROVE  DOMAIN q = 1 .. Len(q)
  OBVIOUS
<1>2. RunnerTypeOK <=> Thread /\ Queues
  BY <1>1, Zenon DEF RunnerTypeOK, Thread, Queues, Posted, Places
<1>3. RunnerTypeOK' <=> Thread' /\ Queues'
  BY <1>1, Zenon DEF RunnerTypeOK, Thread, Queues, Posted, Places
<1>. QED
  BY <1>2, <1>3, Zenon DEF RunnerInv, InTurn, Before

\* The first state.
LEMMA InitRunnerInv == RunnerInit => RunnerInv
<1>1. SUFFICES ASSUME RunnerInit PROVE RunnerInv
  OBVIOUS
<1>2. /\ kind = <<>> /\ due = <<>> /\ tasks = <<>> /\ delayed = {} /\ running = <<>> /\ ran = <<>>
      /\ now = 1
  BY <1>1, Zenon DEF RunnerInit
<1>3. Order = <<>> /\ Len(kind) = 0
  BY <1>2 DEF Order
<1>4. InTurn(Order, delayed, due, Len(kind), now)
  BY <1>2, <1>3, SMTT(60) DEF InTurn
<1>5. Queues
  BY <1>2, TaskRunnerAssumption DEF Queues
<1>6. Thread
  <2>1. Never \in 1 .. Never
    BY TaskRunnerAssumption DEF Never
  <2>2. hasWaiter \in BOOLEAN
    BY <1>1, TaskRunnerAssumption, Zenon DEF RunnerInit
  <2>3. isRunning = FALSE /\ pc = "idle" /\ deadline = Never /\ signals = "not running"
    BY <1>1, Zenon DEF RunnerInit
  <2>. QED
    BY <1>2, <2>1, <2>2, <2>3, Zenon DEF Thread, Places
<1>. QED
  BY <1>4, <1>5, <1>6, RunnerInvParts

\* A step of the thread that leaves the queues as they are.
LEMMA ThreadStep ==
  ASSUME RunnerInv, Thread', UNCHANGED <<now, queueVars, running, ran>>
  PROVE  RunnerInv'
<1>1. Queues /\ InTurn(Order, delayed, due, Len(kind), now)
  BY RunnerInvParts
<1>2. /\ now' = now /\ kind' = kind /\ due' = due /\ tasks' = tasks /\ delayed' = delayed
      /\ running' = running /\ ran' = ran
  BY DEF queueVars
<1>3. Queues'
  BY <1>1, <1>2 DEF Queues
<1>4. Order' = Order
  BY <1>2 DEF Order
<1>. QED
  BY <1>1, <1>2, <1>3, <1>4, RunnerInvParts, Zenon

\* Whoever sleeps is woken up.
LEMMA WakeUpThread ==
  ASSUME Thread, WakeUp, UNCHANGED <<loopVars>>
  PROVE  Thread'
<1>1. UNCHANGED <<hasWaiter, running, isRunning, signals>>
  BY DEF loopVars
<1>2. Never \in 1 .. Never
  BY TaskRunnerAssumption DEF Never
<1>. QED
  BY <1>1, <1>2, Zenon DEF Thread, WakeUp, Places

\* What posting a task at once does to the queues, whatever has run by then.
LEMMA EnqueueFacts ==
  ASSUME RunnerInv, NEW k \in Kinds, Enqueue(k), now' = now,
         running' \in Seq(1 .. Len(kind)), ran' \in Seq(1 .. Len(kind)),
         ran' \o running' \o tasks = Order
  PROVE  Queues' /\ InTurn(Order', delayed', due', Len(kind'), now')
<1>. DEFINE n == Len(kind)
<1>1. /\ kind' = Append(kind, k) /\ due' = Append(due, 0) /\ tasks' = Append(tasks, Len(kind'))
      /\ delayed' = delayed /\ n < MaxTasks
  BY DEF Enqueue, Immediately
<1>2. /\ n \in Nat /\ kind \in Seq(Kinds) /\ tasks \in Seq(1 .. n)
      /\ due \in Seq(0 .. MaxTime) /\ Len(due) = n /\ delayed \subseteq 1 .. n
      /\ now \in 1 .. MaxTime
  BY RunnerInvParts DEF Queues, Immediately
<1>3. Len(kind') = n + 1 /\ kind' \in Seq(Kinds)
  BY <1>1, <1>2, AppendFacts
<1>4. 1 .. n \subseteq 1 .. n + 1 /\ n + 1 \in 1 .. n + 1
  BY <1>2
<1>5. tasks \in Seq(1 .. n + 1) /\ running' \in Seq(1 .. n + 1) /\ ran' \in Seq(1 .. n + 1)
  BY <1>2, <1>4, SeqWithin
<1>6. due' \in Seq(0 .. MaxTime) /\ Len(due') = n + 1
  <2>1. 0 \in 0 .. MaxTime
    BY TaskRunnerAssumption
  <2>. QED
    BY <1>1, <1>2, <2>1, AppendFacts
<1>7. Queues'
  <2>1. tasks' \in Seq(1 .. n + 1)
    BY <1>1, <1>3, <1>4, <1>5, AppendFacts
  <2>2. n + 1 <= MaxTasks
    BY <1>1, <1>2, TaskRunnerAssumption
  <2>. QED
    BY <1>1, <1>2, <1>3, <1>4, <1>5, <1>6, <2>1, <2>2 DEF Queues, Immediately
<1>8. Order' = Append(Order, n + 1)
  <2>1. ran' \o running' \in Seq(1 .. n + 1)
    BY <1>5
  <2>2. Order' = (ran' \o running') \o Append(tasks, n + 1)
    BY <1>1, <1>3 DEF Order
  <2>3. (ran' \o running') \o Append(tasks, n + 1) = Append((ran' \o running') \o tasks, n + 1)
    <3>. DEFINE S == 1 .. n + 1
                r == ran' \o running'
    <3>1. r \in Seq(S) /\ tasks \in Seq(S) /\ n + 1 \in S
      BY <1>4, <1>5, <2>1
    <3>. HIDE DEF S, r
    <3>2. r \o Append(tasks, n + 1) = Append(r \o tasks, n + 1)
      BY <3>1, SMTT(30)
    <3>. QED
      BY <3>2, Zenon DEF r
  <2>. QED
    BY <2>2, <2>3, Zenon
<1>9. InTurn(Append(Order, n + 1), delayed, Append(due, 0), n + 1, now)
  BY QueueFacts, PostedInTurn
<1>. QED
  BY <1>1, <1>3, <1>7, <1>8, <1>9

\* PostPackagedTask() and RequestStopSoon().
LEMMA PostPackagedTaskKeeps ==
  ASSUME RunnerInv, NEW k \in Kinds, PostPackagedTask(k)
  PROVE  RunnerInv'
<1>1. /\ Enqueue(k) /\ WakeUp /\ UNCHANGED <<now, loopVars>>
      /\ running' = running /\ ran' = ran /\ now' = now
  BY DEF PostPackagedTask, loopVars
<1>2. Queues' /\ InTurn(Order', delayed', due', Len(kind'), now')
  <2>1. ran' \o running' \o tasks = Order
    BY <1>1 DEF Order
  <2>. QED
    BY <1>1, <2>1, QueueFacts, EnqueueFacts
<1>3. Thread'
  BY <1>1, RunnerInvParts, WakeUpThread
<1>. QED
  BY <1>2, <1>3, RunnerInvParts

\* PostPackagedTaskWithDelay() keeps the invariant.
LEMMA PostPackagedTaskWithDelayKeeps ==
  ASSUME RunnerInv, NEW k \in Kinds, NEW delay \in Delays, PostPackagedTaskWithDelay(k, delay)
  PROVE  RunnerInv'
<1>. DEFINE n == Len(kind)
<1>1. /\ kind' = Append(kind, k) /\ due' = Append(due, now + delay)
      /\ delayed' = delayed \union {Len(kind')} /\ tasks' = tasks
      /\ n < MaxTasks /\ now + delay <= MaxTime /\ WakeUp /\ UNCHANGED loopVars
      /\ running' = running /\ ran' = ran /\ now' = now
  BY DEF PostPackagedTaskWithDelay, loopVars
<1>2. /\ n \in Nat /\ kind \in Seq(Kinds) /\ tasks \in Seq(1 .. n) /\ running \in Seq(1 .. n)
      /\ ran \in Seq(1 .. n) /\ due \in Seq(0 .. MaxTime) /\ Len(due) = n
      /\ delayed \subseteq 1 .. n /\ now \in 1 .. MaxTime
  BY RunnerInvParts DEF Queues, Immediately
<1>3. Len(kind') = n + 1 /\ kind' \in Seq(Kinds)
  BY <1>1, <1>2, AppendFacts
<1>4. 1 .. n \subseteq 1 .. n + 1 /\ n + 1 \in 1 .. n + 1
  BY <1>2
<1>5. tasks \in Seq(1 .. n + 1) /\ running \in Seq(1 .. n + 1) /\ ran \in Seq(1 .. n + 1)
  BY <1>2, <1>4, SeqWithin
<1>6. now + delay \in Nat /\ now + delay > now /\ now + delay \in 0 .. MaxTime
  BY <1>1, <1>2, TaskRunnerAssumption
<1>7. due' \in Seq(0 .. MaxTime) /\ Len(due') = n + 1
  BY <1>1, <1>2, <1>6, AppendFacts
<1>8. Queues'
  <2>1. n + 1 <= MaxTasks
    BY <1>1, <1>2, TaskRunnerAssumption
  <2>2. delayed' \subseteq 1 .. n + 1
    BY <1>1, <1>2, <1>3, <1>4, Zenon
  <2>. QED
    BY <1>1, <1>2, <1>3, <1>5, <1>7, <2>1, <2>2 DEF Queues, Immediately
<1>9. InTurn(Order, delayed \cup {n + 1}, Append(due, now + delay), n + 1, now)
  BY <1>6, QueueFacts, DelayedInTurn, Zenon
<1>10. Order' = Order
  BY <1>1 DEF Order
<1>11. Thread'
  BY <1>1, RunnerInvParts, WakeUpThread
<1>. QED
  BY <1>1, <1>3, <1>8, <1>9, <1>10, <1>11, RunnerInvParts

\* A bijection from 1 .. m is a sequence that lists its range once.
LEMMA BijectionFacts ==
  ASSUME NEW S, NEW m \in Nat, NEW order \in Bijection(1 .. m, S)
  PROVE  /\ order \in Seq(S) /\ DOMAIN order = 1 .. m
         /\ \A i, j \in DOMAIN order : order[i] = order[j] => i = j
         /\ \A t \in S : \E i \in DOMAIN order : order[i] = t
<1>1. order \in [1 .. m -> S] /\ IsInjective(order) /\ order \in Surjection(1 .. m, S)
  BY DEF Bijection, Injection
<1>2. DOMAIN order = 1 .. m /\ order \in Seq(S)
  BY <1>1
<1>3. \A i, j \in DOMAIN order : order[i] = order[j] => i = j
  BY <1>1 DEF IsInjective
<1>4. \A t \in S : \E i \in DOMAIN order : order[i] = t
  BY <1>1, <1>2 DEF Surjection
<1>. QED
  BY <1>2, <1>3, <1>4

\* ScheduleDelayedTasks() keeps the invariant.
LEMMA ScheduleDelayedTasksKeeps ==
  ASSUME RunnerInv, ScheduleDelayedTasks
  PROVE  RunnerInv'
<1>. DEFINE n == Len(kind)
<1>1. PICK order \in Bijection(1 .. Cardinality(DueTasks), DueTasks) :
        InOrder(order) /\ tasks' = tasks \o order
  BY Zenon DEF ScheduleDelayedTasks
<1>2. /\ pc = "schedule" /\ pc' = "grab" /\ delayed' = delayed \ DueTasks
      /\ now' = now /\ kind' = kind /\ due' = due /\ deadline' = deadline
      /\ UNCHANGED <<hasWaiter, running, ran, isRunning, signals>>
  BY DEF ScheduleDelayedTasks, loopVars
<1>3. /\ n \in Nat /\ tasks \in Seq(1 .. n) /\ running \in Seq(1 .. n) /\ ran \in Seq(1 .. n)
      /\ due \in Seq(Nat) /\ Len(due) = n /\ delayed \in SUBSET (1 .. n) /\ now \in Nat
      /\ Order \in Seq(1 .. n) /\ InTurn(Order, delayed, due, n, now)
  BY QueueFacts
<1>4. Cardinality(DueTasks) \in Nat
  <2>1. IsFiniteSet(1 .. n)
    BY <1>3, FS_Interval
  <2>2. DueTasks \subseteq 1 .. n
    BY <1>3, Zenon DEF DueTasks
  <2>. QED
    BY <2>1, <2>2, FS_Subset, FS_CardinalityType, Zenon
<1>5. /\ order \in Seq(DueTasks) /\ \A i, j \in DOMAIN order : order[i] = order[j] => i = j
      /\ \A t \in DueTasks : \E i \in DOMAIN order : order[i] = t
  BY <1>4, BijectionFacts
<1>6. DueTasks \in SUBSET delayed /\ DueTasks = {t \in delayed : due[t] <= now}
  BY DEF DueTasks
<1>7. \A i, j \in DOMAIN order : i < j => Before(due, order[i], order[j])
  BY <1>1, Zenon DEF InOrder, IsBefore, Before
<1>8. InTurn(Order \o order, delayed \ DueTasks, due, n, now)
  BY <1>3, <1>5, <1>6, <1>7, ScheduledInTurn, Zenon
<1>9. order \in Seq(1 .. n)
  <2>1. DueTasks \subseteq 1 .. n
    BY <1>3, Zenon DEF DueTasks
  <2>. QED
    BY <1>5, <2>1, SeqWithin, Zenon
<1>10. Order' = Order \o order
  <2>1. Order' = ran \o running \o (tasks \o order)
    BY <1>1, <1>2 DEF Order
  <2>2. ran \o running \o (tasks \o order) = (ran \o running \o tasks) \o order
    <3>. DEFINE S == 1 .. n
                r == ran \o running
    <3>1. r \in Seq(S) /\ tasks \in Seq(S) /\ order \in Seq(S)
      BY <1>3, <1>9
    <3>. HIDE DEF S, r
    <3>2. r \o (tasks \o order) = (r \o tasks) \o order
      BY <3>1, SMTT(30)
    <3>. QED
      BY <3>2, Zenon DEF r
  <2>. QED
    BY <2>1, <2>2, Zenon DEF Order
<1>11. Queues'
  <2>1. tasks' \in Seq(1 .. n)
    BY <1>1, <1>3, <1>9, ConcatFacts
  <2>2. Queues
    BY RunnerInvParts
  <2>. QED
    BY <1>2, <2>1, <2>2, Zenon DEF Queues
<1>12. Thread'
  BY <1>2, RunnerInvParts, Zenon DEF Thread, Places
<1>. QED
  BY <1>2, <1>8, <1>10, <1>11, <1>12, RunnerInvParts, Zenon

\* GrabMoreRunnableTasks() keeps the invariant.
LEMMA GrabMoreRunnableTasksKeeps ==
  ASSUME RunnerInv, GrabMoreRunnableTasks
  PROVE  RunnerInv'
<1>1. /\ pc = "grab" /\ now' = now /\ kind' = kind /\ due' = due /\ delayed' = delayed
      /\ UNCHANGED <<hasWaiter, ran, isRunning>>
  BY Zenon DEF GrabMoreRunnableTasks
<1>2. Thread /\ Queues /\ InTurn(Order, delayed, due, Len(kind), now) /\ running = <<>>
      /\ deadline = Never
  BY <1>1, RunnerInvParts, Zenon DEF Thread
<1>3. CASE /\ tasks # <<>> /\ running' = tasks /\ tasks' = <<>> /\ pc' = "run"
           /\ UNCHANGED <<deadline, signals>>
  <2>1. Queues'
    BY <1>1, <1>2, <1>3 DEF Queues
  <2>2. Order' = Order
    <3>1. Order = ran \o <<>> \o tasks /\ Order' = ran \o tasks \o <<>>
      BY <1>1, <1>2, <1>3 DEF Order
    <3>. QED
      BY <3>1, QueueFacts, EmptyMoves
  <2>3. Thread'
    BY <1>1, <1>2, <1>3, Zenon DEF Thread, Places
  <2>. QED
    BY <1>1, <1>2, <2>1, <2>2, <2>3, RunnerInvParts, Zenon
<1>4. CASE /\ tasks = <<>> /\ ~isRunning /\ pc' = "idle" /\ signals' = "not running"
           /\ UNCHANGED <<running, tasks, deadline>>
  <2>1. Thread'
    BY <1>1, <1>2, <1>4, Zenon DEF Thread, Places
  <2>. QED
    BY <1>1, <1>4, <2>1, ThreadStep, Zenon DEF queueVars
<1>5. CASE /\ tasks = <<>> /\ isRunning /\ pc' = (IF hasWaiter THEN "unlocked" ELSE "sleep")
           /\ deadline' = SleepUntil /\ UNCHANGED <<running, tasks, signals>>
  <2>1. Thread'
    BY <1>1, <1>2, <1>5, SleepUntilFacts, Zenon DEF Thread, Places
  <2>. QED
    BY <1>1, <1>5, <2>1, ThreadStep DEF queueVars
<1>. QED
  BY <1>3, <1>4, <1>5, Zenon DEF GrabMoreRunnableTasks

\* Running the next task keeps the invariant.
LEMMA RunTaskKeeps ==
  ASSUME RunnerInv, RunTask
  PROVE  RunnerInv'
<1>. DEFINE t == Head(running)
            n == Len(kind)
<1>1. /\ pc = "run" /\ ran' = Append(ran, t) /\ running' = Tail(running)
      /\ isRunning' = (isRunning /\ kind[t] # "quit")
      /\ pc' = (IF running' = <<>> THEN "check" ELSE "run")
      /\ hasWaiter' = hasWaiter /\ now' = now /\ deadline' = deadline /\ signals' = signals
  BY DEF RunTask
<1>2. Thread /\ Queues /\ InTurn(Order, delayed, due, n, now) /\ running # <<>>
  BY <1>1, RunnerInvParts, Zenon DEF Thread
<1>3. /\ n \in Nat /\ tasks \in Seq(1 .. n) /\ running \in Seq(1 .. n) /\ ran \in Seq(1 .. n)
  BY QueueFacts
<1>4. running' \in Seq(1 .. n) /\ t \in 1 .. n /\ ran' \in Seq(1 .. n)
  BY <1>1, <1>2, <1>3, SMTT(30)
<1>5. ran' \o running' \o tasks = Order
  <2>1. Append(ran, Head(running)) \o Tail(running) \o tasks = ran \o running \o tasks
    <3>. DEFINE S == 1 .. n
    <3>1. ran \in Seq(S) /\ running \in Seq(S) /\ tasks \in Seq(S) /\ running # <<>>
      BY <1>2, <1>3, Zenon
    <3>. HIDE DEF S
    <3>. QED
      BY <3>1, SMTT(30)
  <2>. QED
    BY <1>1, <2>1, Zenon DEF Order
<1>6. Thread'
  BY <1>1, <1>2, Zenon DEF Thread, Places
<1>7. CASE Enqueue("plain")
  BY <1>1, <1>4, <1>5, <1>6, <1>7, EnqueueFacts, RunnerInvParts, Zenon DEF Kinds
<1>8. CASE UNCHANGED queueVars
  <2>1. kind' = kind /\ due' = due /\ tasks' = tasks /\ delayed' = delayed
    BY <1>8 DEF queueVars
  <2>2. Queues'
    BY <1>1, <1>2, <1>4, <2>1 DEF Queues
  <2>3. Order' = Order
    BY <1>5, <2>1, SMTT(30) DEF Order
  <2>. QED
    BY <1>1, <1>2, <1>6, <2>1, <2>2, <2>3, RunnerInvParts, Zenon
<1>. QED
  BY <1>7, <1>8 DEF RunTask

\* Every step keeps the invariant.
LEMMA NextRunnerInv == RunnerInv /\ [RunnerNext]_runnerVars => RunnerInv'
<1>1. SUFFICES ASSUME RunnerInv, [RunnerNext]_runnerVars PROVE RunnerInv'
  OBVIOUS
<1>. USE <1>1
<1>2. Thread /\ Never \in 1 .. Never
  BY RunnerInvParts, TaskRunnerAssumption DEF Never
<1>3. ASSUME NEW k \in Kinds, PostPackagedTask(k)
      PROVE  RunnerInv'
  BY <1>3, PostPackagedTaskKeeps
<1>4. CASE RequestStopSoon
  BY <1>3, <1>4 DEF RequestStopSoon, Kinds
<1>5. ASSUME NEW k \in Kinds, NEW delay \in Delays, PostPackagedTaskWithDelay(k, delay)
      PROVE  RunnerInv'
  BY <1>5, PostPackagedTaskWithDelayKeeps
<1>6. ASSUME NEW untilSignaled \in BOOLEAN, RunUntilStopped(untilSignaled)
      PROVE  RunnerInv'
  <2>1. Thread'
    BY <1>2, <1>6, Zenon DEF RunUntilStopped, Thread, Places
  <2>. QED
    BY <1>6, <2>1, ThreadStep, Zenon DEF RunUntilStopped
<1>7. CASE Loop
  <2>1. CASE WaitForTaskToBePosted
    <3>1. Thread'
      BY <1>2, <2>1, Zenon DEF WaitForTaskToBePosted, Thread, Places, loopVars
    <3>. QED
      BY <2>1, <3>1, ThreadStep DEF WaitForTaskToBePosted, loopVars
  <2>2. CASE EndSleep
    <3>1. Thread'
      BY <1>2, <2>2, Zenon DEF EndSleep, Thread, Places, loopVars
    <3>. QED
      BY <2>2, <3>1, ThreadStep DEF EndSleep, loopVars
  <2>3. CASE CheckRunning
    <3>1. Thread'
      BY <1>2, <2>3, Zenon DEF CheckRunning, Thread, Places
    <3>. QED
      BY <2>3, <3>1, ThreadStep DEF CheckRunning
  <2>. QED
    BY <1>7, <2>1, <2>2, <2>3, ScheduleDelayedTasksKeeps, GrabMoreRunnableTasksKeeps, RunTaskKeeps
    DEF Loop, TimeOut
<1>8. CASE SpuriousWakeup
  <2>1. Thread'
    BY <1>2, <1>8, Zenon DEF SpuriousWakeup, EndSleep, Thread, Places, loopVars
  <2>. QED
    BY <1>8, <2>1, ThreadStep DEF SpuriousWakeup, EndSleep, loopVars
<1>9. CASE OnReceivedSignal
  <2>1. Thread'
    BY <1>2, <1>9, Zenon DEF OnReceivedSignal, Thread, Places
  <2>. QED
    BY <1>9, <2>1, ThreadStep, Zenon DEF OnReceivedSignal
<1>10. CASE RunnerTick
  <2>1. /\ now < MaxTime /\ now' = now + 1 /\ UNCHANGED <<queueVars, loopVars, pc, deadline>>
        /\ kind' = kind /\ due' = due /\ tasks' = tasks /\ delayed' = delayed
        /\ running' = running /\ ran' = ran
    BY <1>10 DEF RunnerTick, queueVars, loopVars
  <2>2. Thread'
    BY <1>2, <2>1, Zenon DEF Thread, loopVars
  <2>3. Queues'
    <3>1. Queues /\ MaxTime \in Nat
      BY RunnerInvParts, TaskRunnerAssumption
    <3>2. now' \in 1 .. MaxTime
      BY <2>1, <3>1 DEF Queues
    <3>. QED
      BY <2>1, <3>1, <3>2 DEF Queues
  <2>4. Order' = Order
    BY <2>1 DEF Order
  <2>5. InTurn(Order, delayed, due, Len(kind), now + 1)
    BY QueueFacts, LaterInTurn
  <2>. QED
    BY <2>1, <2>2, <2>3, <2>4, <2>5, RunnerInvParts, Zenon
<1>11. CASE UNCHANGED runnerVars
  <2>1. Thread'
    BY <1>2, <1>11, Zenon DEF runnerVars, loopVars, Thread
  <2>. QED
    BY <1>11, <2>1, ThreadStep DEF runnerVars, loopVars
<1>. QED
  BY <1>3, <1>4, <1>5, <1>6, <1>7, <1>8, <1>9, <1>10, <1>11 DEF RunnerNext

-----------------------------------------------------------------------------
(* The invariant, and what follows from it *)

\* The queues of the task runner are in order at all times.
THEOREM TaskRunnerInvariant == RunnerSpec => []RunnerInv
BY InitRunnerInv, NextRunnerInv, PTL DEF RunnerSpec

\* Neither the map of delayed tasks nor the two vectors, which are swapped while
\* other threads post, lose, repeat, reorder or hurry a task.
THEOREM TasksRunOnceInTurn == RunnerSpec => []TasksOnceInTurn
<1>1. RunnerInv => TasksOnceInTurn
  <2>1. SUFFICES ASSUME RunnerInv PROVE TasksOnceInTurn
    OBVIOUS
  <2>2. /\ RunnerTypeOK /\ InTurn(Order, delayed, due, Len(kind), now)
        /\ Posted = 1 .. Len(kind) /\ delayed \in SUBSET (1 .. Len(kind))
        /\ Order \in Seq(1 .. Len(kind))
    BY <2>1, QueueFacts DEF RunnerInv
  <2>3. \A i \in DOMAIN Order : Order[i] \in 1 .. Len(kind)
    BY <2>2
  <2>4. EachTaskOnce
    <3>1. /\ \A i, j \in DOMAIN Order : Order[i] = Order[j] => i = j
          /\ \A i \in DOMAIN Order : Order[i] \notin delayed
          /\ \A t \in 1 .. Len(kind) : t \in delayed \/ \E i \in DOMAIN Order : Order[i] = t
      BY <2>2, Zenon DEF InTurn
    <3>2. /\ \A i \in DOMAIN Order : Order[i] \in Posted
          /\ delayed \in SUBSET Posted
          /\ \A t \in Posted : t \in delayed \/ \E i \in DOMAIN Order : Order[i] = t
      BY <2>2, <2>3, <3>1, Zenon
    <3>3. Range(Order) \union delayed = Posted
      <4>1. /\ \A t \in Range(Order) : \E i \in DOMAIN Order : Order[i] = t
            /\ \A i \in DOMAIN Order : Order[i] \in Range(Order)
        BY DEF Range
      <4>2. \A t \in Range(Order) : t \in Posted
        BY <3>2, <4>1, Zenon
      <4>3. \A t \in Posted : t \in delayed \/ t \in Range(Order)
        BY <3>2, <4>1, Zenon
      <4>. QED
        BY <3>2, <4>2, <4>3
    <3>4. \A t \in Range(Order) : t \notin delayed
      <4>1. \A t \in Range(Order) : \E i \in DOMAIN Order : Order[i] = t
        BY DEF Range
      <4>2. \A i \in DOMAIN Order : Order[i] \notin delayed
        BY <3>1, Zenon
      <4>. QED
        BY <4>1, <4>2, Zenon
    <3>5. IsInjective(Order)
      BY <3>1, Zenon DEF IsInjective
    <3>. QED
      BY <3>3, <3>4, <3>5 DEF EachTaskOnce
  <2>5. TasksInTurn
    BY <2>2, Zenon DEF TasksInTurn, InTurn, Immediately, Range, IsBefore, Before
  <2>. QED
    BY <2>2, <2>4, <2>5 DEF TasksOnceInTurn
<1>. QED
  BY <1>1, TaskRunnerInvariant, PTL

\* RunUntilStopped() does not return before every task posted without a delay has
\* run, those included that were posted by the tasks it ran while stopping.
THEOREM RunnerFlushes == RunnerSpec => FlushedOnReturn
<1>. DEFINE A == pc # "idle" /\ pc' = "idle" =>
                   \A t \in Posted : due[t] = Immediately => t \in Range(ran')
<1>1. RunnerInv /\ [RunnerNext]_runnerVars => [A]_runnerVars
  <2>1. SUFFICES ASSUME RunnerInv, RunnerNext, pc # "idle", pc' = "idle",
                        NEW t \in Posted, due[t] = Immediately
                 PROVE  t \in Range(ran')
    OBVIOUS
  <2>2. GrabMoreRunnableTasks
    BY <2>1, Zenon DEF RunnerNext, PostPackagedTask, RequestStopSoon, PostPackagedTaskWithDelay, WakeUp,
                RunUntilStopped, Loop, ScheduleDelayedTasks, WaitForTaskToBePosted, TimeOut,
                EndSleep, RunTask, CheckRunning, SpuriousWakeup, OnReceivedSignal, RunnerTick
  <2>3. tasks = <<>> /\ pc = "grab" /\ ran' = ran
    BY <2>1, <2>2, Zenon DEF GrabMoreRunnableTasks
  <2>4. running = <<>>
    BY <2>1, <2>3, RunnerInvParts, Zenon DEF Thread
  <2>5. Order = ran
    <3>1. ran \in Seq(1 .. Len(kind))
      BY <2>1, QueueFacts
    <3>. QED
      BY <2>3, <2>4, <3>1 DEF Order
  <2>6. t \notin delayed /\ t \in 1 .. Len(kind)
    BY <2>1, QueueFacts DEF InTurn, Immediately
  <2>7. \E i \in DOMAIN ran : ran[i] = t
    BY <2>1, <2>5, <2>6, QueueFacts, ZenonT(60) DEF InTurn
  <2>. QED
    BY <2>3, <2>7 DEF Range
<1>. QED
  BY <1>1, TaskRunnerInvariant, PTL DEF FlushedOnReturn, RunnerSpec
=============================================================================
