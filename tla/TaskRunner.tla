----------------------------- MODULE TaskRunner -----------------------------
(***************************************************************************)
(* TaskRunnerImpl: one thread runs the tasks that any thread posts, at once *)
(* or after a delay, until it is asked to stop. A critical section of       *)
(* task_mutex_ is one action; only sleeping gives the mutex up in between.  *)
(* A task is a number, counted in the order in which tasks are posted.      *)
(***************************************************************************)
EXTENDS Clock, Sequences, FiniteSetsExt, Functions

CONSTANTS
  Waiters,        \* whether there may, or may not, be a task_waiter_
  WaiterTimeout,  \* waiter_timeout_
  Delays,         \* the delays tasks are posted with
  MaxTasks        \* bound: number of tasks

ASSUME TaskRunnerAssumption ==
  /\ Waiters \subseteq BOOLEAN
  /\ WaiterTimeout \in Nat \ {0}
  /\ Delays \subseteq Nat \ {0}
  /\ MaxTasks \in Nat
  /\ MaxTime \in Nat \ {0}

VARIABLES
  hasWaiter,     \* whether there is a task_waiter_
  kind,          \* what each task does, in the order of posting
  due,           \* when each task is due, or Immediately
  tasks,         \* tasks_
  delayed,       \* delayed_tasks_, ordered by due time and then by posting
  running,       \* the rest of running_tasks_
  ran,           \* history: the tasks that have run, in this order
  isRunning,     \* is_running_
  pc,            \* where the thread is in RunUntilStopped()
  deadline,      \* when the sleep ends at the latest
  signals        \* g_signal_state

queueVars == <<kind, due, tasks, delayed>>
loopVars == <<hasWaiter, running, ran, isRunning, signals>>
runnerVars == <<now, queueVars, loopVars, pc, deadline>>

TaskIds == 1 .. MaxTasks

Immediately == 0
Never == MaxTime + 1

\* A task may ask the runner to stop, as RequestStopSoon() does, or post
\* another task when it runs.
Kinds == {"plain", "quit", "post"}

Posted == DOMAIN kind

\* Tasks a and b of delayed_tasks_, a std::multimap, in its order.
IsBefore(a, b) == due[a] < due[b] \/ (due[a] = due[b] /\ a <= b)

\* The entries of delayed_tasks_ up to upper_bound(now).
DueTasks == {t \in delayed : due[t] <= now}

\* Mutant: the order of posting only.
InOrderOfPosting(order) == \A i, j \in DOMAIN order : i < j => order[i] <= order[j]

InOrder(order) == \A i, j \in DOMAIN order : i < j => IsBefore(order[i], order[j])

RunnerInit ==
  /\ hasWaiter \in Waiters
  /\ now = 1
  /\ kind = <<>> /\ due = <<>>
  /\ tasks = <<>> /\ delayed = {}
  /\ running = <<>> /\ ran = <<>>
  /\ isRunning = FALSE
  /\ pc = "idle"
  /\ deadline = Never
  /\ signals = "not running"

-----------------------------------------------------------------------------
\* Mutant: nobody is woken up.
WakeNobody == UNCHANGED <<pc, deadline>>

\* OnTaskPosted() or notify_one(): whoever sleeps is woken up.
WakeUp ==
  /\ pc' = IF pc = "sleep" THEN "check" ELSE pc
  /\ deadline' = IF pc = "sleep" THEN Never ELSE deadline

\* What posting a task of kind k does to the queues.
Enqueue(k) ==
  /\ Len(kind) < MaxTasks
  /\ kind' = Append(kind, k)
  /\ due' = Append(due, Immediately)
  /\ tasks' = Append(tasks, Len(kind'))
  /\ UNCHANGED delayed

\* PostPackagedTask(), or PostPackagedTaskWithDelay() without a delay.
PostPackagedTask(k) ==
  /\ Enqueue(k)
  /\ WakeUp
  /\ UNCHANGED <<now, loopVars>>

RequestStopSoon == PostPackagedTask("quit")

PostPackagedTaskWithDelay(k, delay) ==
  /\ Len(kind) < MaxTasks
  /\ now + delay <= MaxTime
  /\ kind' = Append(kind, k)
  /\ due' = Append(due, now + delay)
  /\ delayed' = delayed \union {Len(kind')}
  /\ WakeUp
  /\ UNCHANGED <<now, tasks, loopVars>>

-----------------------------------------------------------------------------
\* RunUntilStopped(), alone or called by RunUntilSignaled(), begins.
RunUntilStopped(untilSignaled) ==
  /\ pc = "idle"
  /\ isRunning' = TRUE
  /\ pc' = "schedule"
  /\ signals' = IF untilSignaled THEN "not signaled" ELSE signals
  /\ UNCHANGED <<hasWaiter, now, queueVars, running, ran, deadline>>

ScheduleDelayedTasks ==
  /\ pc = "schedule"
  /\ \E order \in Bijection(1 .. Cardinality(DueTasks), DueTasks) :
       InOrder(order) /\ tasks' = tasks \o order
  /\ delayed' = delayed \ DueTasks
  /\ pc' = "grab"
  /\ UNCHANGED <<now, kind, due, loopVars, deadline>>

\* Mutant: the waiter's timeout is forgotten.
SleepUntilDue == Min({due[t] : t \in delayed} \union {Never})

\* How long to sleep: until the first delayed task is due, and with a waiter
\* no longer than its timeout.
SleepUntil ==
  LET first == {due[t] : t \in delayed}
      limit == IF hasWaiter THEN {now + WaiterTimeout, MaxTime} ELSE {}
  IN Min(first \union limit \union {Never})

\* Mutant: a runner that was told to stop does not look at tasks_ any more.
GrabUntilStopped ==
  /\ pc = "grab"
  /\ \/ /\ tasks # <<>> /\ isRunning
        /\ running' = tasks
        /\ tasks' = <<>>
        /\ pc' = "run"
        /\ UNCHANGED <<deadline, signals>>
     \/ /\ ~isRunning
        /\ pc' = "idle"
        /\ signals' = "not running"
        /\ UNCHANGED <<running, tasks, deadline>>
     \/ /\ tasks = <<>> /\ isRunning
        /\ pc' = IF hasWaiter THEN "unlocked" ELSE "sleep"
        /\ deadline' = SleepUntil
        /\ UNCHANGED <<running, tasks, signals>>
  /\ UNCHANGED <<hasWaiter, now, kind, due, delayed, ran, isRunning>>

\* GrabMoreRunnableTasks(), in the main loop and while flushing. The waiter is
\* called without the mutex: what is posted in between does not wake it.
GrabMoreRunnableTasks ==
  /\ pc = "grab"
  /\ \/ /\ tasks # <<>>
        /\ running' = tasks
        /\ tasks' = <<>>
        /\ pc' = "run"
        /\ UNCHANGED <<deadline, signals>>
     \/ /\ tasks = <<>> /\ ~isRunning
        /\ pc' = "idle"
        /\ signals' = "not running"
        /\ UNCHANGED <<running, tasks, deadline>>
     \/ /\ tasks = <<>> /\ isRunning
        /\ pc' = IF hasWaiter THEN "unlocked" ELSE "sleep"
        /\ deadline' = SleepUntil
        /\ UNCHANGED <<running, tasks, signals>>
  /\ UNCHANGED <<hasWaiter, now, kind, due, delayed, ran, isRunning>>

WaitForTaskToBePosted ==
  /\ pc = "unlocked"
  /\ pc' = "sleep"
  /\ UNCHANGED <<now, queueVars, loopVars, deadline>>

\* The sleep ends because its time is over, or for no reason.
EndSleep ==
  /\ pc = "sleep"
  /\ pc' = "check"
  /\ deadline' = Never
  /\ UNCHANGED <<now, queueVars, loopVars>>

TimeOut == now >= deadline /\ EndSleep

SpuriousWakeup == EndSleep

\* RunRunnableTasks(), one task.
RunTask ==
  /\ pc = "run"
  /\ LET t == Head(running)
     IN /\ ran' = Append(ran, t)
        /\ isRunning' = (isRunning /\ kind[t] # "quit")
        /\ IF kind[t] = "post" /\ Len(kind) < MaxTasks
             THEN Enqueue("plain")
             ELSE UNCHANGED queueVars
  /\ running' = Tail(running)
  /\ pc' = IF running' = <<>> THEN "check" ELSE "run"
  /\ UNCHANGED <<hasWaiter, now, deadline, signals>>

\* The end of an iteration. Once is_running_ is false only the flushing phase
\* is left, which does not call ScheduleDelayedTasks().
CheckRunning ==
  /\ pc = "check"
  /\ isRunning' = (isRunning /\ signals # "signaled")
  /\ pc' = IF isRunning' THEN "schedule" ELSE "grab"
  /\ UNCHANGED <<hasWaiter, now, queueVars, running, ran, deadline, signals>>

\* OnReceivedSignal(), which is installed by RunUntilSignaled() only.
OnReceivedSignal ==
  /\ signals = "not signaled"
  /\ signals' = "signaled"
  /\ UNCHANGED <<hasWaiter, now, queueVars, running, ran, isRunning, pc, deadline>>

RunnerTick ==
  /\ now < MaxTime
  /\ now' = now + 1
  /\ UNCHANGED <<queueVars, loopVars, pc, deadline>>

Loop ==
  \/ ScheduleDelayedTasks
  \/ GrabMoreRunnableTasks
  \/ WaitForTaskToBePosted
  \/ TimeOut
  \/ RunTask
  \/ CheckRunning

RunnerNext ==
  \/ \E k \in Kinds \ {"quit"} : PostPackagedTask(k)
  \/ RequestStopSoon
  \/ \E k \in Kinds \ {"quit"}, delay \in Delays :
       PostPackagedTaskWithDelay(k, delay)
  \/ \E untilSignaled \in BOOLEAN : RunUntilStopped(untilSignaled)
  \/ Loop
  \/ SpuriousWakeup
  \/ OnReceivedSignal
  \/ RunnerTick

RunnerSpec == RunnerInit /\ [][RunnerNext]_runnerVars

\* Time passes and the thread of the runner is scheduled.
FairRunnerSpec == RunnerSpec /\ WF_runnerVars(Loop) /\ WF_runnerVars(RunnerTick)

-----------------------------------------------------------------------------
\* The members have their types, and the thread runs tasks as long as, and
\* only while, there are tasks it has taken.
RunnerTypeOK ==
  /\ hasWaiter \in BOOLEAN
  /\ now \in 1 .. MaxTime
  /\ kind \in Seq(Kinds) /\ Len(kind) <= MaxTasks
  /\ due \in Seq(Immediately .. MaxTime) /\ Len(due) = Len(kind)
  /\ tasks \in Seq(Posted)
  /\ delayed \subseteq Posted
  /\ running \in Seq(Posted)
  /\ ran \in Seq(Posted)
  /\ isRunning \in BOOLEAN
  /\ pc \in {"idle", "schedule", "grab", "run", "unlocked", "sleep", "check"}
  /\ deadline \in 1 .. Never
  /\ signals \in {"not running", "not signaled", "signaled"}
  /\ (pc = "run") = (running # <<>>)
  /\ pc = "idle" => ~isRunning
  /\ deadline # Never => pc \in {"unlocked", "sleep"}

\* All tasks that have left the map of delayed tasks, in the order in which
\* they were, or will be, run.
Order == ran \o running \o tasks

\* Every posted task is in one place only, so it is neither lost between the
\* three queues nor run twice.
EachTaskOnce ==
  /\ IsInjective(Order)
  /\ Range(Order) \intersect delayed = {}
  /\ Range(Order) \union delayed = Posted

\* Tasks posted without a delay run in the order in which they were posted,
\* whatever delayed tasks come in between.  Delayed tasks run in the order of
\* their due times, and of posting where these agree, and not before, although
\* the runner may fall behind and take tasks over while others are being posted.
TasksInTurn ==
  /\ \A i, j \in DOMAIN Order :
       /\ i < j
       /\ (due[Order[i]] = Immediately) = (due[Order[j]] = Immediately)
       => IsBefore(Order[i], Order[j])
  /\ \A t \in Range(Order) : due[t] <= now

\* The three queues together never lose, repeat, reorder or hurry a task.
TasksOnceInTurn == RunnerTypeOK /\ EachTaskOnce /\ TasksInTurn

\* "If any non-delayed tasks post additional non-delayed tasks, those will be
\* run as well before returning" (RequestStopSoon()): the thread never leaves
\* RunUntilStopped() while a task without delay has not run.
FlushedOnReturn ==
  [][pc # "idle" /\ pc' = "idle" =>
       \A t \in Posted : due[t] = Immediately => t \in Range(ran')]_runnerVars

\* A runner that is not stopped runs every task once it is due: posting never
\* misses a runner that is about to sleep.
EveryTaskRuns ==
  \A t \in TaskIds : [](t \in Posted => <>(t \in Range(ran) \/ pc = "idle"))

\* RequestStopSoon() stops a runner, and so does a signal if there is a waiter,
\* since the runner then looks at g_signal_state every waiter_timeout_.
RunnerStops ==
  [](\/ \E t \in Range(tasks) : kind[t] = "quit"
     \/ hasWaiter /\ signals = "signaled"
     => <>(pc = "idle"))
=============================================================================
