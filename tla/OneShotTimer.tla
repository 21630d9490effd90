---------------------------- MODULE OneShotTimer ----------------------------
(***************************************************************************)
(* What the comments of Alarm promise its client: a task that is scheduled  *)
(* runs once, not before its time, unless it is cancelled, replaced, or its *)
(* Alarm destroyed. A task is the number of the Schedule() call it was      *)
(* given to.                                                                *)
(***************************************************************************)
EXTENDS Integers

CONSTANTS
  NoTask,
  Times      \* the times of the clock

VARIABLES
  now,
  exists,    \* whether the timer has not been destroyed
  calls,     \* number of calls to Schedule()
  task,      \* the task to run, or NoTask
  time,      \* when to run it
  ran        \* the tasks that have run

timerVars == <<now, exists, calls, task, time, ran>>

Init ==
  /\ now \in Times
  /\ exists = TRUE
  /\ calls = 0
  /\ task = NoTask
  /\ time \in Times
  /\ ran = {}

Schedule(at) ==
  /\ exists
  /\ calls' = calls + 1
  /\ task' = calls'
  /\ time' = IF at < now THEN now ELSE at
  /\ UNCHANGED <<now, exists, ran>>

Cancel ==
  /\ exists
  /\ task' = NoTask
  /\ UNCHANGED <<now, exists, calls, time, ran>>

Destroy ==
  /\ exists
  /\ exists' = FALSE
  /\ task' = NoTask
  /\ UNCHANGED <<now, calls, time, ran>>

Run ==
  /\ exists
  /\ task # NoTask
  /\ time <= now
  /\ task \notin ran
  /\ ran' = ran \union {task}
  /\ task' = NoTask
  /\ UNCHANGED <<now, exists, calls, time>>

Tick ==
  /\ now' > now
  /\ UNCHANGED <<exists, calls, task, time, ran>>

Next ==
  \/ \E at \in Times : Schedule(at)
  \/ Cancel
  \/ Destroy
  \/ Run
  \/ Tick

Spec == Init /\ [][Next]_timerVars
=============================================================================
