-------------------------------- MODULE Alarm -------------------------------
(***************************************************************************)
(* An Alarm keeps the task of its client to itself and posts functors to    *)
(* the TaskRunner that come back to it. A functor cannot be taken out of    *)
(* the TaskRunner's queue: it is cancelled by taking its pointer to the     *)
(* Alarm away, and it is reused when the Alarm is scheduled again for a     *)
(* later time. Alarms are used on the thread of their TaskRunner only.      *)
(*                                                                          *)
(* What a client's task does with the Alarm while it runs comes after       *)
(* everything TryInvoke() does, so it is left to the actions of the client. *)
(***************************************************************************)
EXTENDS Clock

CONSTANTS
  Functors,    \* bound: the functors that may be queued at the same time
  MaxCalls     \* bound: number of calls to ScheduleWithTask()

ASSUME AlarmAssumption ==
  /\ Functors \subseteq Nat \ {0}
  /\ MaxCalls \in Nat
  /\ MaxTime \in Nat

VARIABLES
  exists,         \* whether the Alarm has not been destroyed
  calls,          \* history: number of calls to ScheduleWithTask()
  scheduledTask,  \* scheduled_task_: the call it came with, or NoTask
  alarmTime,      \* alarm_time_
  queuedFire,     \* queued_fire_, or NoFunctor
  nextFireTime,   \* next_fire_time_
  posted,         \* the functors in the queue of the TaskRunner
  fired           \* history: the tasks that have run

clientVars == <<exists, calls, fired>>
alarmVars == <<now, clientVars, scheduledTask, alarmTime, queuedFire,
               nextFireTime, posted>>

NoTask == 0
NoFunctor == 0
Times == 0 .. MaxTime

\* A CancelableFunctor: whether it is in the queue, whether it points to the
\* Alarm, and when the TaskRunner may run it.
Functor == [queued : BOOLEAN, alarm : BOOLEAN, due : Times]

NoTaskQueued == [queued |-> FALSE, alarm |-> FALSE, due |-> 0]

AlarmInit ==
  /\ now = 0
  /\ exists = TRUE
  /\ calls = 0
  /\ scheduledTask = NoTask
  /\ alarmTime = 0
  /\ queuedFire = NoFunctor
  /\ nextFireTime = 0
  /\ posted = [f \in Functors |-> NoTaskQueued]
  /\ fired = {}

\* The queue of the TaskRunner after queued_fire_->Cancel().
CancelFire(queue) == [queue EXCEPT ![queuedFire].alarm = FALSE]

\* Posts functor f, in a queue without another that points to the Alarm.
InvokeLater(queue, f, fireTime) ==
  /\ ~queue[f].queued
  /\ nextFireTime' = fireTime
  /\ queuedFire' = f
  /\ posted' = [queue EXCEPT ![f] =
                  [queued |-> TRUE, alarm |-> TRUE, due |-> fireTime]]

\* Mutant: any functor is good enough.
KeepsAnyFire(time) == queuedFire # NoFunctor

\* The functor in the queue comes early enough: it is kept.
KeepsFire(time) == queuedFire # NoFunctor /\ nextFireTime <= time

ScheduleWithTask(at) ==
  /\ exists
  /\ calls < MaxCalls
  /\ calls' = calls + 1
  /\ scheduledTask' = calls'
  /\ alarmTime' = IF at < now THEN now ELSE at
  /\ \/ /\ KeepsFire(alarmTime')
        /\ UNCHANGED <<queuedFire, nextFireTime, posted>>
     \/ /\ ~KeepsFire(alarmTime')
        /\ \E f \in Functors :
             InvokeLater(IF queuedFire = NoFunctor THEN posted
                                                   ELSE CancelFire(posted),
                         f, alarmTime')
  /\ UNCHANGED <<now, exists, fired>>

Cancel ==
  /\ exists
  /\ scheduledTask' = NoTask
  /\ UNCHANGED <<now, clientVars, alarmTime, queuedFire, nextFireTime, posted>>

\* ~Alarm().
Destroy ==
  /\ exists
  /\ exists' = FALSE
  /\ scheduledTask' = NoTask
  /\ queuedFire' = NoFunctor
  /\ posted' = IF queuedFire = NoFunctor THEN posted ELSE CancelFire(posted)
  /\ UNCHANGED <<now, calls, fired, alarmTime, nextFireTime>>

\* Mutant: an early firing runs the task.
TryInvokeEarly(f, queue) ==
  /\ scheduledTask' = NoTask
  /\ fired' = fired \union ({scheduledTask} \ {NoTask})
  /\ queuedFire' = NoFunctor
  /\ posted' = queue
  /\ UNCHANGED nextFireTime

\* Mutant: a late firing is taken for an early one.
TryInvokePunctually(f, queue) ==
  \/ /\ scheduledTask = NoTask
     /\ queuedFire' = NoFunctor
     /\ posted' = queue
     /\ UNCHANGED <<scheduledTask, nextFireTime, fired>>
  \/ /\ scheduledTask # NoTask
     /\ now # alarmTime
     /\ InvokeLater(queue, f, alarmTime)
     /\ UNCHANGED <<scheduledTask, fired>>
  \/ /\ scheduledTask # NoTask
     /\ now = alarmTime
     /\ scheduledTask' = NoTask
     /\ fired' = fired \union {scheduledTask}
     /\ queuedFire' = NoFunctor
     /\ posted' = queue
     /\ UNCHANGED nextFireTime

\* TryInvoke(), called by functor f with the queue it has left.
TryInvoke(f, queue) ==
  \/ /\ scheduledTask = NoTask
     /\ queuedFire' = NoFunctor
     /\ posted' = queue
     /\ UNCHANGED <<scheduledTask, nextFireTime, fired>>
  \/ /\ scheduledTask # NoTask
     /\ now < alarmTime
     /\ InvokeLater(queue, f, alarmTime)
     /\ UNCHANGED <<scheduledTask, fired>>
  \/ /\ scheduledTask # NoTask
     /\ now >= alarmTime
     /\ scheduledTask' = NoTask
     /\ fired' = fired \union {scheduledTask}
     /\ queuedFire' = NoFunctor
     /\ posted' = queue
     /\ UNCHANGED nextFireTime

\* The TaskRunner runs functor f, at its time or later.
RunFunctor(f) ==
  /\ posted[f].queued
  /\ posted[f].due <= now
  /\ LET queue == [posted EXCEPT ![f] = NoTaskQueued]
     IN \/ /\ posted[f].alarm
           /\ TryInvoke(f, queue)
        \/ /\ ~posted[f].alarm
           /\ posted' = queue
           /\ UNCHANGED <<scheduledTask, queuedFire, nextFireTime, fired>>
  /\ UNCHANGED <<now, exists, calls, alarmTime>>

AlarmTick ==
  /\ now < MaxTime
  /\ now' = now + 1
  /\ UNCHANGED <<clientVars, scheduledTask, alarmTime, queuedFire,
                 nextFireTime, posted>>

AlarmNext ==
  \/ \E at \in Times : ScheduleWithTask(at)
  \/ Cancel
  \/ Destroy
  \/ \E f \in Functors : RunFunctor(f)
  \/ AlarmTick

AlarmSpec == AlarmInit /\ [][AlarmNext]_alarmVars

\* Time passes, and the TaskRunner runs every task that is due.
FairAlarmSpec ==
  /\ AlarmSpec
  /\ WF_alarmVars(AlarmTick)
  /\ \A f \in Functors : WF_alarmVars(RunFunctor(f))

-----------------------------------------------------------------------------
\* The members have their types.
AlarmTypeOK ==
  /\ now \in Times
  /\ exists \in BOOLEAN
  /\ calls \in 0 .. MaxCalls
  /\ scheduledTask \in 0 .. calls
  /\ alarmTime \in Times
  /\ queuedFire \in Functors \union {NoFunctor}
  /\ nextFireTime \in Times
  /\ posted \in [Functors -> Functor]
  /\ fired \subseteq 1 .. calls

\* The OSP_CHECKs of CancelableFunctor: a functor points to the Alarm exactly
\* when the Alarm points to it, so there is one such functor at most, and none
\* that could come back to a destroyed Alarm.
PointersPaired ==
  /\ \A f \in Functors :
       posted[f].alarm <=> (posted[f].queued /\ queuedFire = f)
  /\ queuedFire # NoFunctor => posted[queuedFire].alarm /\ exists

\* "Ensure that a later firing will occur, and not too late": while a task is
\* scheduled, a functor is queued that fires at its time or earlier.
FiringQueued ==
  /\ queuedFire # NoFunctor => posted[queuedFire].due = nextFireTime
  /\ scheduledTask # NoTask =>
       exists /\ queuedFire # NoFunctor /\ nextFireTime <= alarmTime

\* The Alarm and the functors it left in the task runner's queue agree.
FunctorsAgree == PointersPaired /\ FiringQueued

\* However often the Alarm is scheduled again and cancelled, and however late
\* functors run: a task that is still scheduled runs, and others do not.
Timer == INSTANCE OneShotTimer WITH task <- scheduledTask,
                                     time <- alarmTime, ran <- fired
ImplementsTimer == Timer!Spec

\* A task that stays scheduled runs: the TaskRunner brings the Alarm back to it
\* as often as it takes.
ScheduledTaskRuns == []<>(scheduledTask = NoTask)
=============================================================================
