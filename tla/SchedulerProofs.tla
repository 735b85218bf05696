-------------------------- MODULE SchedulerProofs --------------------------
(***************************************************************************)
(* Safety of Scheduler, proved for every number of tasks, every timeout,   *)
(* delay and frame interval: no wakeup is lost, no live task drops out of  *)
(* the heaps, a cancelled task stays cancelled, the most urgent goes first;*)
(* and its steps are those of TaskService.                                 *)
(***************************************************************************)
EXTENDS Scheduler, FiniteSetTheorems, FunctionTheorems, WellFoundedInduction,
        TLAPS

(* What the control state implies; with the checked invariants, inductive. *)
ControlOK ==
  /\ isPerformingWork <=> pc # "idle"
  /\ isPerformingWork => isMessageLoopRunning
  /\ isHostCallbackScheduled => isMessageLoopRunning /\ ~isPerformingWork
  /\ pc = "running" => currentTask \in taskQueue /\ ~Live(currentTask)
  /\ pc = "loop" => \A t \in timerQueue : Live(t) => now < task[t].startTime

IInv == /\ TypeOK
        /\ ControlOK
        /\ ReadyTasksHaveMessage
        /\ TimersHaveTimeout
        /\ LiveTasksAreQueued

-----------------------------------------------------------------------------
(* Facts about the operators the actions are built from.                   *)

(* A non-empty set of naturals has a least element.                        *)
LEMMA NatSetHasMinimum ==
  ASSUME NEW S \in SUBSET Nat, S # {}
  PROVE  \E m \in S : \A n \in S : m <= n
<1>1. PICK m \in S : \A n \in S : ~(<<n, m>> \in OpToRel(<, Nat))
  BY NatLessThanWellFounded, WFMin, Zenon
<1>2. \A n \in S : ~(n < m)
  BY <1>1 DEF OpToRel
<1>. QED  BY <1>2

(* The heap order is total, so peek returns the strictly least element.    *)
LEMMA PeekIsLeast ==
  ASSUME TypeOK, NEW queue \in SUBSET TaskIds, queue # {}
  PROVE  /\ Peek(queue) \in queue
         /\ \A u \in queue \ {Peek(queue)} : Before(Peek(queue), u)
<1>. DEFINE keys == {task[t].sortIndex + 1 : t \in queue}
<1>1. \A t \in queue : task[t].sortIndex \in Instant /\ t \in Nat
  BY DEF TypeOK, Task, TaskIds
<1>2. keys \in SUBSET Nat /\ keys # {}
  BY <1>1 DEF Instant
<1>3. PICK k \in keys : \A other \in keys : k <= other
  BY <1>2, NatSetHasMinimum
<1>. DEFINE firsts == {t \in queue : task[t].sortIndex + 1 = k}
<1>4. firsts \in SUBSET Nat /\ firsts # {}
  BY <1>1, <1>3
<1>5. PICK t \in firsts : \A u \in firsts : t <= u
  BY <1>4, NatSetHasMinimum
<1>6. \A u \in queue \ {t} : Before(t, u)
  <2>1. SUFFICES ASSUME NEW u \in queue \ {t}  PROVE Before(t, u)
    OBVIOUS
  <2>2. task[t].sortIndex <= task[u].sortIndex
    <3>1. k <= task[u].sortIndex + 1
      BY <1>3
    <3>. QED  BY <3>1, <1>1, <1>5 DEF Instant
  <2>3. CASE task[u].sortIndex = task[t].sortIndex
    BY <2>3, <1>1, <1>5 DEF Before
  <2>4. CASE task[u].sortIndex # task[t].sortIndex
    BY <2>4, <2>2, <1>1, <1>5 DEF Before, Instant
  <2>. QED  BY <2>3, <2>4
<1>. QED  BY <1>5, <1>6 DEF Peek

(* There are more handles than live timeouts, so a fresh one exists.       *)
LEMMA FreshHandleIsFresh ==
  ASSUME TypeOK
  PROVE  /\ FreshHandle \in Nat \ {0}
         /\ \A timeout \in timeouts : timeout.id # FreshHandle
<1>. DEFINE ids == {timeout.id : timeout \in timeouts}
            idOf == [timeout \in timeouts |-> timeout.id]
            n == Cardinality(timeouts)
<1>1. IsFiniteSet(timeouts)
  BY DEF TypeOK
<1>2. IsFiniteSet(ids) /\ Cardinality(ids) <= n
  <2>1. idOf \in Surjection(timeouts, ids)
    BY DEF Surjection
  <2>. QED  BY <2>1, <1>1, FS_Surjection
<1>3. n \in Nat /\ Cardinality(ids) \in Nat
  BY <1>1, <1>2, FS_CardinalityType
<1>4. /\ IsFiniteSet(ids \cup {taskTimeoutID})
      /\ Cardinality(ids \cup {taskTimeoutID}) <= n + 1
  <2>. HIDE DEF ids, n
  <2>1. /\ IsFiniteSet(ids \cup {taskTimeoutID})
        /\ Cardinality(ids \cup {taskTimeoutID}) =
             IF taskTimeoutID \in ids THEN Cardinality(ids)
                                      ELSE Cardinality(ids) + 1
    BY <1>2, FS_AddElement
  <2>. QED  BY <2>1, <1>2, <1>3
<1>5. Cardinality(1..(n + 2)) = n + 2
  BY <1>3, FS_Interval
<1>6. ~(1..(n + 2) \subseteq ids \cup {taskTimeoutID})
  <2>1. SUFFICES ASSUME 1..(n + 2) \in SUBSET (ids \cup {taskTimeoutID})
                 PROVE FALSE
    OBVIOUS
  <2>2. Cardinality(1..(n + 2)) <= Cardinality(ids \cup {taskTimeoutID})
    BY <2>1, <1>4, FS_Subset
  <2>3. Cardinality(ids \cup {taskTimeoutID}) \in Nat
    BY <1>4, FS_CardinalityType
  <2>. QED  BY <2>2, <2>3, <1>3, <1>4, <1>5
<1>7. \E h \in 1..(n + 2) :
        h # taskTimeoutID /\ \A timeout \in timeouts : timeout.id # h
  BY <1>6
<1>. HIDE DEF n
<1>8. /\ FreshHandle \in 1..(n + 2)
      /\ \A timeout \in timeouts : timeout.id # FreshHandle
  BY <1>7 DEF FreshHandle, n
<1>. QED  BY <1>8, <1>3

(* advanceTimers moves live timers whole: only their heap and key change.  *)
LEMMA AdvanceTimersMoves ==
  ASSUME TypeOK, NEW queue, NEW tasks \in [TaskIds -> Task],
         AdvanceTimers(queue, tasks)
  PROVE  /\ task' \in [TaskIds -> Task]
         /\ taskQueue' = queue \cup Fired
         /\ timerQueue' = timerQueue \ Popped
         /\ Fired \subseteq Popped /\ Popped \subseteq timerQueue
         /\ \A t \in TaskIds :
              /\ task'[t].callback = tasks[t].callback
              /\ task'[t].startTime = tasks[t].startTime
              /\ task'[t].expirationTime = tasks[t].expirationTime
              /\ task'[t].sortIndex = IF t \in Fired THEN tasks[t].expirationTime
                                                    ELSE tasks[t].sortIndex
<1>1. /\ taskQueue' = queue \cup Fired
      /\ timerQueue' = timerQueue \ Popped
      /\ Fired \subseteq Popped /\ Popped \subseteq timerQueue
  BY DEF AdvanceTimers, Fired, Popped
<1>2. task' = [t \in TaskIds |->
                 IF t \in Fired
                   THEN [tasks[t] EXCEPT !.sortIndex = tasks[t].expirationTime]
                   ELSE tasks[t]]
  BY DEF AdvanceTimers
<1>3. \A t \in TaskIds : tasks[t] \in Task
  OBVIOUS
<1>. QED  BY <1>1, <1>2, <1>3 DEF Task

(* A new task has its key, and the timeout of its priority after its start.*)
LEMMA NewTaskIsTask ==
  ASSUME TypeOK, NEW p \in Priorities, NEW delay \in Delays \cup {0}
  PROVE  /\ NewTask(p, delay) \in Task
         /\ NewTask(p, delay).callback = Fn
         /\ NewTask(p, delay).startTime = now + delay
         /\ delay = 0 =>
              NewTask(p, delay).sortIndex = NewTask(p, delay).expirationTime
         /\ delay > 0 => NewTask(p, delay).sortIndex = now + delay
<1>1. TimeoutOf(p) \in Instant
  BY TimeoutsAssumption
  DEF TimeoutOf, Instant, ImmediatePriority, UserBlockingPriority, LowPriority,
      IdlePriority
<1>2. now + delay \in Nat /\ now + delay + TimeoutOf(p) \in Instant
  BY <1>1, InputsAssumption DEF TypeOK, Instant
<1>3. p \in 1..5
  BY InputsAssumption
<1>. QED  BY <1>2, <1>3, InputsAssumption DEF NewTask, Task, Instant

(* The host's timeouts stay well-typed when one is requested.              *)
LEMMA RequestHostTimeoutType ==
  ASSUME TypeOK, NEW kept \in SUBSET timeouts, NEW due \in Nat,
         RequestHostTimeout(kept, due)
  PROVE  /\ taskTimeoutID' \in Nat
         /\ timeouts' \subseteq Timeout /\ IsFiniteSet(timeouts')
         /\ \E timeout \in timeouts' : timeout.due = due
<1>. DEFINE new == [id |-> FreshHandle, due |-> due]
<1>1. new \in Timeout
  BY FreshHandleIsFresh DEF Timeout
<1>2. timeouts' = kept \cup {new} /\ taskTimeoutID' = FreshHandle
  BY DEF RequestHostTimeout
<1>3. IsFiniteSet(kept)
  BY FS_Subset DEF TypeOK
<1>4. IsFiniteSet(kept \cup {new})
  BY <1>3, FS_AddElement
<1>. QED  BY <1>1, <1>2, <1>4, FreshHandleIsFresh DEF TypeOK

(* The flags and the message count after a possible requestHostCallback.   *)
LEMMA RequestHostCallbackType ==
  ASSUME TypeOK, NEW condition \in BOOLEAN, RequestHostCallbackIf(condition)
  PROVE  /\ isHostCallbackScheduled' \in BOOLEAN
         /\ isMessageLoopRunning' \in BOOLEAN
         /\ messages' \in Nat
<1>1. /\ isHostCallbackScheduled' \in BOOLEAN
      /\ isMessageLoopRunning' \in BOOLEAN
  BY Zenon DEF TypeOK, RequestHostCallbackIf, RequestHostCallback, loopVars
<1>2. messages' \in Nat
  BY DEF TypeOK, RequestHostCallbackIf, RequestHostCallback, loopVars
<1>. QED  BY <1>1, <1>2

(* ... and after flushWork returned or threw.                              *)
LEMMA ExitFlushWorkType ==
  ASSUME TypeOK, NEW hasMoreWork \in BOOLEAN, ExitFlushWork(hasMoreWork)
  PROVE  /\ currentTask' \in TaskIds \cup {NoTask}
         /\ currentPriorityLevel' \in 1..5
         /\ isPerformingWork' \in BOOLEAN
         /\ pc' \in {"idle", "loop", "running"}
         /\ isMessageLoopRunning' \in BOOLEAN
         /\ isHostCallbackScheduled' \in BOOLEAN
         /\ messages' \in Nat
<1>1. /\ isPerformingWork' \in BOOLEAN
      /\ isMessageLoopRunning' \in BOOLEAN
      /\ isHostCallbackScheduled' \in BOOLEAN
  BY Zenon DEF TypeOK, ExitFlushWork
<1>2. messages' \in Nat
  BY DEF TypeOK, ExitFlushWork
<1>3. /\ currentTask' \in TaskIds \cup {NoTask}
      /\ currentPriorityLevel' \in 1..5
      /\ pc' \in {"idle", "loop", "running"}
  BY DEF ExitFlushWork, NormalPriority
<1>. QED  BY <1>1, <1>2, <1>3

(* advanceTimers keeps the queues and the Task objects well-typed.         *)
LEMMA AdvanceTimersType ==
  ASSUME TypeOK, NEW queue \in SUBSET (1..(taskIdCounter - 1)),
         NEW tasks \in [TaskIds -> Task], AdvanceTimers(queue, tasks)
  PROVE  /\ task' \in [TaskIds -> Task]
         /\ taskQueue' \subseteq 1..(taskIdCounter - 1)
         /\ timerQueue' \subseteq 1..(taskIdCounter - 1)
         /\ timerQueue' \subseteq TaskIds
<1>1. /\ task' \in [TaskIds -> Task]
      /\ taskQueue' = queue \cup Fired
      /\ timerQueue' = timerQueue \ Popped
      /\ Fired \subseteq timerQueue
  BY AdvanceTimersMoves
<1>2. 1..(taskIdCounter - 1) \subseteq TaskIds
  BY BoundsAssumption DEF TypeOK, TaskIds
<1>. QED  BY <1>1, <1>2 DEF TypeOK

-----------------------------------------------------------------------------
(* Type correctness is inductive by itself.                                *)

LEMMA InitTypeOK == Init => TypeOK
<1>. SUFFICES ASSUME Init PROVE TypeOK
  OBVIOUS
<1>1. NeverScheduled \in Task
  BY DEF NeverScheduled, Task, Instant, NormalPriority
<1>2. IsFiniteSet(timeouts)
  BY FS_EmptySet DEF Init
<1>3. /\ isPerformingWork \in BOOLEAN /\ isMessageLoopRunning \in BOOLEAN
      /\ isHostCallbackScheduled \in BOOLEAN
      /\ isHostTimeoutScheduled \in BOOLEAN
  BY Zenon DEF Init
<1>. QED  BY <1>1, <1>2, <1>3, BoundsAssumption
          DEF Init, TypeOK, NoTask, NoTimeout, NormalPriority

LEMMA NextTypeOK == TypeOK /\ [Next]_vars => TypeOK'
<1>. SUFFICES ASSUME TypeOK, [Next]_vars  PROVE TypeOK'
  OBVIOUS
<1>. USE BoundsAssumption, InputsAssumption
     DEF vars, taskVars, runVars, loopVars, timeoutVars, frameVars, TaskIds
<1>1. ASSUME NEW p \in Priorities, ScheduleCallback(p)  PROVE TypeOK'
  <2>1. NewTask(p, 0) \in Task
    BY NewTaskIsTask
  <2>2. /\ isHostCallbackScheduled' \in BOOLEAN
        /\ isMessageLoopRunning' \in BOOLEAN
        /\ messages' \in Nat
    <3>1. RequestHostCallbackIf(~isPerformingWork)
      BY <1>1 DEF ScheduleCallback
    <3>. QED  BY <3>1, RequestHostCallbackType
  <2>. QED
    BY <1>1, <2>1, <2>2 DEF TypeOK, ScheduleCallback, CreateTask
<1>2. ASSUME NEW p \in Priorities, NEW delay \in Delays,
             ScheduleDelayedCallback(p, delay)
      PROVE TypeOK'
  <2>1. NewTask(p, delay) \in Task
    BY NewTaskIsTask
  <2>2. /\ taskTimeoutID' \in Nat
        /\ timeouts' \subseteq Timeout /\ IsFiniteSet(timeouts')
        /\ isHostTimeoutScheduled' \in BOOLEAN
    <3>1. Uncancelled \in SUBSET timeouts /\ now + delay \in Nat
      BY DEF Uncancelled, TypeOK
    <3>. QED  BY <1>2, <3>1, RequestHostTimeoutType
              DEF ScheduleDelayedCallback, TypeOK
  <2>. QED
    BY <1>2, <2>1, <2>2 DEF TypeOK, ScheduleDelayedCallback, CreateTask
<1>3. ASSUME NEW t \in TaskIds, CancelCallback(t)  PROVE TypeOK'
  BY <1>3, ZenonT(40) DEF TypeOK, CancelCallback, Task
<1>4. CASE ContinueExecution
  <2>1. RequestHostCallbackIf(~isPerformingWork)
    BY <1>4 DEF ContinueExecution
  <2>2. /\ isHostCallbackScheduled' \in BOOLEAN
        /\ isMessageLoopRunning' \in BOOLEAN
        /\ messages' \in Nat
    BY <2>1, RequestHostCallbackType
  <2>. QED  BY <1>4, <2>2 DEF TypeOK, ContinueExecution
<1>5. ASSUME NEW interval \in FrameIntervals, ForceFrameRate(interval)
      PROVE TypeOK'
  BY <1>5 DEF TypeOK, ForceFrameRate
<1>6. CASE PerformWorkUntilDeadline
  <2>1. /\ task' \in [TaskIds -> Task]
        /\ taskQueue' \subseteq 1..(taskIdCounter - 1)
        /\ timerQueue' \subseteq 1..(taskIdCounter - 1)
    <3>1. AdvanceTimers(taskQueue, task)
      BY <1>6 DEF PerformWorkUntilDeadline
    <3>. QED  BY <3>1, AdvanceTimersType DEF TypeOK
  <2>2. /\ taskTimeoutID' \in Nat
        /\ timeouts' \subseteq Timeout /\ IsFiniteSet(timeouts')
    <3>1. Uncancelled \in SUBSET timeouts
      BY DEF Uncancelled
    <3>. QED  BY <1>6, <3>1, FS_Subset
              DEF PerformWorkUntilDeadline, TypeOK, NoTimeout
  <2>3. /\ isPerformingWork' \in BOOLEAN
        /\ isMessageLoopRunning' \in BOOLEAN
        /\ isHostCallbackScheduled' \in BOOLEAN
        /\ isHostTimeoutScheduled' \in BOOLEAN
    BY <1>6, Zenon DEF TypeOK, PerformWorkUntilDeadline, timeoutVars
  <2>4. messages' \in Nat
    BY <1>6 DEF TypeOK, PerformWorkUntilDeadline
  <2>. QED  BY <1>6, <2>1, <2>2, <2>3, <2>4
            DEF TypeOK, PerformWorkUntilDeadline
<1>7. ASSUME NEW timeout \in timeouts, HandleTimeout(timeout)  PROVE TypeOK'
  <2>1. /\ task' \in [TaskIds -> Task]
        /\ taskQueue' \subseteq 1..(taskIdCounter - 1)
        /\ timerQueue' \subseteq 1..(taskIdCounter - 1)
        /\ timerQueue' \subseteq TaskIds
    <3>1. AdvanceTimers(taskQueue, task)
      BY <1>7 DEF HandleTimeout
    <3>. QED  BY <3>1, AdvanceTimersType DEF TypeOK
  <2>2. /\ taskTimeoutID' \in Nat
        /\ timeouts' \subseteq Timeout /\ IsFiniteSet(timeouts')
    <3>. DEFINE kept == timeouts \ {timeout}
    <3>1. kept \in SUBSET timeouts /\ IsFiniteSet(kept)
      BY FS_Subset DEF TypeOK
    <3>2. CASE timeouts' = kept /\ UNCHANGED taskTimeoutID
      BY <3>1, <3>2 DEF TypeOK
    <3>3. CASE /\ timerQueue' # {}
               /\ RequestHostTimeout(kept, task[Peek(timerQueue')].startTime)
      <4>1. task[Peek(timerQueue')].startTime \in Nat
        BY <3>3, <2>1, PeekIsLeast DEF TypeOK, Task
      <4>. QED  BY <3>3, <3>1, <4>1, RequestHostTimeoutType
    <3>. QED  BY <1>7, <3>2, <3>3 DEF HandleTimeout
  <2>3. /\ isHostCallbackScheduled' \in BOOLEAN
        /\ isMessageLoopRunning' \in BOOLEAN
        /\ messages' \in Nat
    <3>1. RequestHostCallbackIf(taskQueue' # {})
      BY <1>7 DEF HandleTimeout
    <3>. QED  BY <3>1, RequestHostCallbackType
  <2>4. isHostTimeoutScheduled' \in BOOLEAN
    BY <1>7, Zenon DEF HandleTimeout
  <2>. QED  BY <1>7, <2>1, <2>2, <2>3, <2>4 DEF TypeOK, HandleTimeout
<1>8. ASSUME NEW t \in TaskIds, Yield(t)  PROVE TypeOK'
  <2>1. ExitFlushWork(TRUE)
    BY <1>8 DEF Yield
  <2>. QED  BY <1>8, <2>1, ExitFlushWorkType DEF TypeOK, Yield
<1>9. ASSUME NEW t \in TaskIds, DropCancelledTask(t)  PROVE TypeOK'
  BY <1>9 DEF TypeOK, DropCancelledTask
<1>10. ASSUME NEW t \in TaskIds, StartTask(t)  PROVE TypeOK'
  BY <1>10, ZenonT(40) DEF TypeOK, StartTask, Task
<1>11. CASE CallbackCompletes
  <2>1. /\ task' \in [TaskIds -> Task]
        /\ taskQueue' \subseteq 1..(taskIdCounter - 1)
        /\ timerQueue' \subseteq 1..(taskIdCounter - 1)
    <3>1. PICK queue \in SUBSET taskQueue : AdvanceTimers(queue, task)
      BY <1>11 DEF CallbackCompletes
    <3>. QED  BY <3>1, AdvanceTimersType DEF TypeOK
  <2>. QED  BY <1>11, <2>1 DEF TypeOK, CallbackCompletes
<1>12. CASE CallbackContinues
  <2>1. [task EXCEPT ![currentTask].callback = Fn] \in [TaskIds -> Task]
    BY ZenonT(40) DEF TypeOK, Task
  <2>2. /\ task' \in [TaskIds -> Task]
        /\ taskQueue' \subseteq 1..(taskIdCounter - 1)
        /\ timerQueue' \subseteq 1..(taskIdCounter - 1)
    <3>1. AdvanceTimers(taskQueue, [task EXCEPT ![currentTask].callback = Fn])
      BY <1>12 DEF CallbackContinues
    <3>. QED  BY <3>1, <2>1, AdvanceTimersType DEF TypeOK
  <2>3. ExitFlushWork(TRUE)
    BY <1>12 DEF CallbackContinues
  <2>. QED  BY <1>12, <2>2, <2>3, ExitFlushWorkType DEF TypeOK, CallbackContinues
<1>13. CASE CallbackThrows
  <2>1. ExitFlushWork(TRUE)
    BY <1>13 DEF CallbackThrows
  <2>. QED  BY <1>13, <2>1, ExitFlushWorkType DEF TypeOK, CallbackThrows
<1>14. CASE WorkLoopEnds
  <2>1. /\ taskTimeoutID' \in Nat
        /\ timeouts' \subseteq Timeout /\ IsFiniteSet(timeouts')
    <3>1. CASE timerQueue = {}
      BY <1>14, <3>1 DEF WorkLoopEnds, TypeOK
    <3>2. CASE timerQueue # {}
      <4>1. task[Peek(timerQueue)].startTime \in Nat
        <5>1. timerQueue \in SUBSET TaskIds
          BY DEF TypeOK
        <5>. QED  BY <3>2, <5>1, PeekIsLeast DEF TypeOK, Task
      <4>. QED  BY <1>14, <3>2, <4>1, RequestHostTimeoutType DEF WorkLoopEnds
    <3>. QED  BY <3>1, <3>2
  <2>2. ExitFlushWork(FALSE)
    BY <1>14 DEF WorkLoopEnds
  <2>. QED  BY <1>14, <2>1, <2>2, ExitFlushWorkType DEF TypeOK, WorkLoopEnds
<1>15. CASE Tick
  BY <1>15 DEF TypeOK, Tick
<1>16. CASE UNCHANGED vars
  BY <1>16 DEF TypeOK
<1>. QED
  BY <1>1, <1>2, <1>3, <1>4, <1>5, <1>6, <1>7, <1>8, <1>9, <1>10, <1>11, <1>12,
     <1>13, <1>14, <1>15, <1>16
  DEF Next, Application, Host, WorkLoop, CallbackReturns

(* Every reachable state is well-typed (the variables of Scheduler.js).    *)
THEOREM SchedulerTypeOK == Spec => []TypeOK
<1>. QED  BY InitTypeOK, NextTypeOK, PTL DEF Spec

-----------------------------------------------------------------------------
(* The inductive invariant, one conjunct at a time.                        *)

(* No live timer that is due stays behind in the timer queue.              *)
LEMMA AdvanceTimersLeavesPending ==
  ASSUME TypeOK, LiveTasksAreQueued
  PROVE  \A t \in timerQueue \ Popped : Live(t) => now < task[t].startTime
<1>. SUFFICES ASSUME NEW t \in timerQueue, t \notin Popped, Live(t),
                     ~(now < task[t].startTime)
              PROVE FALSE
  OBVIOUS
<1>1. \A u \in timerQueue : task[u].startTime \in Nat /\ u \in Nat
  BY BoundsAssumption DEF TypeOK, Task, TaskIds
<1>2. PICK u \in timerQueue :
        (u = t \/ Before(u, t)) /\ ~(task[u].startTime <= now)
  BY DEF Popped
<1>3. task[u].startTime <= task[t].startTime
  BY <1>1, <1>2 DEF LiveTasksAreQueued, Before
<1>. QED  BY <1>1, <1>2, <1>3 DEF TypeOK

(* The host callback is requested only while no work is being performed.   *)
LEMMA RequestHostCallbackControl ==
  ASSUME ControlOK, NEW condition \in BOOLEAN, condition => ~isPerformingWork,
         RequestHostCallbackIf(condition)
  PROVE  /\ isMessageLoopRunning => isMessageLoopRunning'
         /\ isHostCallbackScheduled' => isMessageLoopRunning' /\ ~isPerformingWork
         /\ condition => isMessageLoopRunning'
<1>1. CASE condition /\ ~isHostCallbackScheduled
  BY <1>1, Zenon DEF RequestHostCallbackIf, RequestHostCallback
<1>2. CASE ~(condition /\ ~isHostCallbackScheduled)
  <2>1. UNCHANGED <<isHostCallbackScheduled, isMessageLoopRunning>>
    BY <1>2, Zenon DEF RequestHostCallbackIf, loopVars
  <2>. QED  BY <2>1, <1>2 DEF ControlOK
<1>. QED  BY <1>1, <1>2

LEMMA NextControlOK ==
  ASSUME IInv, TypeOK', [Next]_vars
  PROVE  ControlOK'
<1>. USE DEF IInv, Live, vars, taskVars, runVars, loopVars, timeoutVars, frameVars
<1>1. ASSUME NEW p \in Priorities, ScheduleCallback(p)  PROVE ControlOK'
  <2>1. /\ UNCHANGED <<isPerformingWork, pc, currentTask>>
        /\ isMessageLoopRunning => isMessageLoopRunning'
        /\ isHostCallbackScheduled' => isMessageLoopRunning' /\ ~isPerformingWork
        /\ pc # "loop"
    <3>1. RequestHostCallbackIf(~isPerformingWork)
      BY <1>1 DEF ScheduleCallback
    <3>2. UNCHANGED <<isPerformingWork, pc, currentTask>> /\ pc # "loop"
      BY <1>1, Zenon DEF ScheduleCallback, CreateTask, JavaScriptRuns
    <3>. QED  BY <3>1, <3>2, RequestHostCallbackControl
  <2>2. /\ taskQueue' = taskQueue \cup {taskIdCounter}
        /\ \A t \in TaskIds \ {taskIdCounter} : task'[t] = task[t]
    BY <1>1 DEF ScheduleCallback, CreateTask, TypeOK
  <2>3. \A t \in taskQueue : t \in TaskIds \ {taskIdCounter}
    BY BoundsAssumption DEF TypeOK, TaskIds
  <2>. QED  BY <2>1, <2>2, <2>3 DEF ControlOK, TypeOK
<1>2. ASSUME NEW p \in Priorities, NEW delay \in Delays,
             ScheduleDelayedCallback(p, delay)
      PROVE ControlOK'
  <2>1. /\ UNCHANGED <<isPerformingWork, pc, currentTask, taskQueue,
                       isMessageLoopRunning, isHostCallbackScheduled>>
        /\ pc # "loop"
    BY <1>2, Zenon DEF ScheduleDelayedCallback, CreateTask, JavaScriptRuns
  <2>2. \A t \in TaskIds \ {taskIdCounter} : task'[t] = task[t]
    BY <1>2 DEF ScheduleDelayedCallback, CreateTask, TypeOK
  <2>3. \A t \in taskQueue : t \in TaskIds \ {taskIdCounter}
    BY BoundsAssumption DEF TypeOK, TaskIds
  <2>. QED  BY <2>1, <2>2, <2>3 DEF ControlOK, TypeOK
<1>3. ASSUME NEW t \in TaskIds, CancelCallback(t)  PROVE ControlOK'
  <2>1. /\ UNCHANGED <<isPerformingWork, pc, currentTask, taskQueue,
                       isMessageLoopRunning, isHostCallbackScheduled>>
        /\ pc # "loop"
    BY <1>3, Zenon DEF CancelCallback, JavaScriptRuns
  <2>2. \A u \in TaskIds : task'[u].callback = Null
                           \/ task'[u].callback = task[u].callback
    BY <1>3 DEF CancelCallback, TypeOK, Task
  <2>3. \A u \in taskQueue : u \in TaskIds
    BY BoundsAssumption DEF TypeOK, TaskIds
  <2>. QED  BY <2>1, <2>2, <2>3 DEF ControlOK, Fn, Null
<1>4. CASE ContinueExecution
  <2>1. /\ UNCHANGED <<isPerformingWork, pc, currentTask, taskQueue, task>>
        /\ isMessageLoopRunning => isMessageLoopRunning'
        /\ isHostCallbackScheduled' => isMessageLoopRunning' /\ ~isPerformingWork
        /\ pc # "loop"
    <3>1. RequestHostCallbackIf(~isPerformingWork)
      BY <1>4 DEF ContinueExecution
    <3>2. /\ UNCHANGED <<isPerformingWork, pc, currentTask, taskQueue, task>>
          /\ pc # "loop"
      BY <1>4, Zenon DEF ContinueExecution, JavaScriptRuns
    <3>. QED  BY <3>1, <3>2, RequestHostCallbackControl
  <2>. QED  BY <2>1 DEF ControlOK
<1>5. ASSUME NEW interval \in FrameIntervals, ForceFrameRate(interval)
      PROVE ControlOK'
  BY <1>5 DEF ForceFrameRate, ControlOK
<1>6. CASE PerformWorkUntilDeadline
  <2>1. /\ isPerformingWork' /\ pc' = "loop" /\ now' = now
        /\ isMessageLoopRunning' /\ ~isHostCallbackScheduled'
    BY <1>6, Zenon DEF PerformWorkUntilDeadline
  <2>2. AdvanceTimers(taskQueue, task)
    BY <1>6 DEF PerformWorkUntilDeadline
  <2>3. \A t \in timerQueue' : Live(t)' => now < task'[t].startTime
    <3>1. timerQueue' = timerQueue \ Popped /\ timerQueue' \subseteq TaskIds
      BY <2>2, AdvanceTimersType, AdvanceTimersMoves DEF TypeOK
    <3>2. \A t \in TaskIds : /\ task'[t].callback = task[t].callback
                             /\ task'[t].startTime = task[t].startTime
      BY <2>2, AdvanceTimersMoves DEF TypeOK
    <3>. QED  BY <3>1, <3>2, AdvanceTimersLeavesPending
  <2>. QED  BY <2>1, <2>3 DEF ControlOK
<1>7. ASSUME NEW timeout \in timeouts, HandleTimeout(timeout)  PROVE ControlOK'
  <2>1. /\ UNCHANGED <<isPerformingWork, pc>> /\ pc = "idle"
        /\ isMessageLoopRunning => isMessageLoopRunning'
        /\ isHostCallbackScheduled' => isMessageLoopRunning' /\ ~isPerformingWork
    <3>1. RequestHostCallbackIf(taskQueue' # {})
      BY <1>7 DEF HandleTimeout
    <3>2. UNCHANGED <<isPerformingWork, pc>> /\ pc = "idle"
      BY <1>7, Zenon DEF HandleTimeout
    <3>3. ~isPerformingWork
      BY <3>2 DEF ControlOK
    <3>. QED  BY <3>1, <3>2, <3>3, RequestHostCallbackControl
  <2>. QED  BY <2>1 DEF ControlOK
<1>8. ASSUME ExitFlushWork(TRUE)  PROVE ControlOK'
  <2>1. ~isPerformingWork' /\ pc' = "idle" /\ isMessageLoopRunning'
    BY <1>8, Zenon DEF ExitFlushWork
  <2>. QED  BY <2>1 DEF ControlOK
<1>9. ASSUME NEW t \in TaskIds, DropCancelledTask(t)  PROVE ControlOK'
  BY <1>9 DEF DropCancelledTask, AtHead, ControlOK
<1>10. ASSUME NEW t \in TaskIds, StartTask(t)  PROVE ControlOK'
  <2>1. /\ UNCHANGED <<isPerformingWork, isMessageLoopRunning, taskQueue,
                       isHostCallbackScheduled>>
        /\ pc = "loop" /\ pc' = "running" /\ currentTask' = t
        /\ t \in taskQueue
    BY <1>10, Zenon DEF StartTask, AtHead
  <2>2. task'[t].callback = Null
    BY <1>10 DEF StartTask, TypeOK, Task
  <2>. QED  BY <2>1, <2>2 DEF ControlOK, Fn, Null
<1>11. CASE CallbackCompletes
  <2>1. /\ UNCHANGED <<isPerformingWork, isMessageLoopRunning, now,
                       isHostCallbackScheduled>>
        /\ pc = "running" /\ pc' = "loop"
    BY <1>11, Zenon DEF CallbackCompletes
  <2>2. PICK queue \in SUBSET taskQueue : AdvanceTimers(queue, task)
    BY <1>11 DEF CallbackCompletes
  <2>3. \A t \in timerQueue' : Live(t)' => now < task'[t].startTime
    <3>1. timerQueue' = timerQueue \ Popped /\ timerQueue' \subseteq TaskIds
      BY <2>2, AdvanceTimersType, AdvanceTimersMoves DEF TypeOK
    <3>2. \A t \in TaskIds : /\ task'[t].callback = task[t].callback
                             /\ task'[t].startTime = task[t].startTime
      BY <2>2, AdvanceTimersMoves DEF TypeOK
    <3>. QED  BY <3>1, <3>2, AdvanceTimersLeavesPending
  <2>. QED  BY <2>1, <2>3 DEF ControlOK
<1>14. CASE WorkLoopEnds
  <2>1. /\ ~isPerformingWork' /\ pc' = "idle"
        /\ isHostCallbackScheduled' = isHostCallbackScheduled
        /\ pc = "loop"
    BY <1>14, Zenon DEF WorkLoopEnds, ExitFlushWork
  <2>. QED  BY <2>1 DEF ControlOK
<1>15. CASE Tick
  BY <1>15 DEF Tick, JavaScriptRuns, ControlOK
<1>16. CASE UNCHANGED vars
  BY <1>16 DEF ControlOK
<1>. QED
  BY <1>1, <1>2, <1>3, <1>4, <1>5, <1>6, <1>7, <1>8, <1>9, <1>10, <1>11,
     <1>14, <1>15, <1>16
  DEF Next, Application, Host, WorkLoop, CallbackReturns, Yield,
      CallbackContinues, CallbackThrows

(* requestHostCallback posts a message exactly when none is on its way.    *)
LEMMA RequestHostCallbackMessages ==
  ASSUME IInv, NEW condition \in BOOLEAN, condition => ~isPerformingWork,
         RequestHostCallbackIf(condition)
  PROVE  messages' = IF isMessageLoopRunning' /\ ~isPerformingWork THEN 1 ELSE 0
<1>. USE DEF IInv, ReadyTasksHaveMessage
<1>1. CASE condition /\ ~isHostCallbackScheduled
  <2>1. isMessageLoopRunning'
    BY <1>1, Zenon DEF RequestHostCallbackIf, RequestHostCallback
  <2>2. messages' = IF isMessageLoopRunning THEN messages ELSE messages + 1
    BY <1>1, Zenon DEF RequestHostCallbackIf, RequestHostCallback
  <2>. QED  BY <1>1, <2>1, <2>2
<1>2. CASE ~(condition /\ ~isHostCallbackScheduled)
  BY <1>2 DEF RequestHostCallbackIf, loopVars
<1>. QED  BY <1>1, <1>2

LEMMA NextReadyTasksHaveMessage ==
  ASSUME IInv, TypeOK', [Next]_vars
  PROVE  ReadyTasksHaveMessage'
<1>. USE DEF IInv, vars, taskVars, runVars, loopVars, timeoutVars, frameVars
<1>1. ASSUME NEW p \in Priorities, ScheduleCallback(p)
      PROVE ReadyTasksHaveMessage'
  <2>1. RequestHostCallbackIf(~isPerformingWork)
    BY <1>1 DEF ScheduleCallback
  <2>2. isPerformingWork' = isPerformingWork
    BY <1>1 DEF ScheduleCallback
  <2>. QED  BY <2>1, <2>2, RequestHostCallbackControl,
               RequestHostCallbackMessages DEF ReadyTasksHaveMessage
<1>2. ASSUME NEW p \in Priorities, NEW delay \in Delays,
             ScheduleDelayedCallback(p, delay)
      PROVE ReadyTasksHaveMessage'
  BY <1>2 DEF ScheduleDelayedCallback, ReadyTasksHaveMessage
<1>3. ASSUME NEW t \in TaskIds, CancelCallback(t)
      PROVE ReadyTasksHaveMessage'
  BY <1>3 DEF CancelCallback, ReadyTasksHaveMessage
<1>4. CASE ContinueExecution
  <2>1. RequestHostCallbackIf(~isPerformingWork)
    BY <1>4 DEF ContinueExecution
  <2>2. isPerformingWork' = isPerformingWork /\ taskQueue' = taskQueue
    BY <1>4 DEF ContinueExecution
  <2>. QED  BY <2>1, <2>2, RequestHostCallbackControl,
               RequestHostCallbackMessages DEF ReadyTasksHaveMessage
<1>5. ASSUME NEW interval \in FrameIntervals, ForceFrameRate(interval)
      PROVE ReadyTasksHaveMessage'
  BY <1>5 DEF ForceFrameRate, ReadyTasksHaveMessage
<1>6. CASE PerformWorkUntilDeadline
  <2>1. isPerformingWork' /\ ~isPerformingWork
    BY <1>6, Zenon DEF PerformWorkUntilDeadline, ControlOK
  <2>2. isMessageLoopRunning /\ messages' = messages - 1
    BY <1>6 DEF PerformWorkUntilDeadline
  <2>. QED  BY <2>1, <2>2 DEF ReadyTasksHaveMessage
<1>7. ASSUME NEW timeout \in timeouts, HandleTimeout(timeout)
      PROVE ReadyTasksHaveMessage'
  <2>1. RequestHostCallbackIf(taskQueue' # {})
    BY <1>7 DEF HandleTimeout
  <2>2. isPerformingWork' = isPerformingWork /\ ~isPerformingWork
    BY <1>7 DEF HandleTimeout, ControlOK
  <2>. QED  BY <2>1, <2>2, RequestHostCallbackControl,
               RequestHostCallbackMessages DEF ReadyTasksHaveMessage
<1>8. ASSUME NEW hasMoreWork \in BOOLEAN, ExitFlushWork(hasMoreWork),
             isPerformingWork, hasMoreWork \/ taskQueue' = {}
      PROVE ReadyTasksHaveMessage'
  <2>1. isMessageLoopRunning' = hasMoreWork /\ ~isPerformingWork'
    BY <1>8, Zenon DEF ExitFlushWork
  <2>2. messages' = IF hasMoreWork THEN messages + 1 ELSE messages
    BY <1>8 DEF ExitFlushWork
  <2>3. messages = 0
    BY <1>8 DEF ReadyTasksHaveMessage
  <2>. QED  BY <1>8, <2>1, <2>2, <2>3 DEF ReadyTasksHaveMessage
<1>9. ASSUME NEW t \in TaskIds, DropCancelledTask(t)
      PROVE ReadyTasksHaveMessage'
  BY <1>9 DEF DropCancelledTask, AtHead, ControlOK, ReadyTasksHaveMessage
<1>10. ASSUME NEW t \in TaskIds, StartTask(t)  PROVE ReadyTasksHaveMessage'
  BY <1>10 DEF StartTask, ReadyTasksHaveMessage
<1>11. CASE CallbackCompletes
  BY <1>11 DEF CallbackCompletes, ControlOK, ReadyTasksHaveMessage
<1>12. CASE CallbackContinues \/ CallbackThrows \/ \E t \in TaskIds : Yield(t)
  <2>1. ExitFlushWork(TRUE) /\ pc # "idle"
    BY <1>12 DEF CallbackContinues, CallbackThrows, Yield, AtHead
  <2>2. isPerformingWork
    BY <2>1 DEF ControlOK
  <2>. QED  BY <2>1, <2>2, <1>8
<1>14. CASE WorkLoopEnds
  <2>1. ExitFlushWork(FALSE) /\ pc # "idle" /\ taskQueue' = {}
    BY <1>14 DEF WorkLoopEnds
  <2>2. isPerformingWork
    BY <2>1 DEF ControlOK
  <2>. QED  BY <2>1, <2>2, <1>8
<1>15. CASE Tick
  BY <1>15 DEF Tick, ReadyTasksHaveMessage
<1>16. CASE UNCHANGED vars
  BY <1>16 DEF ReadyTasksHaveMessage
<1>. QED
  BY <1>1, <1>2, <1>3, <1>4, <1>5, <1>6, <1>7, <1>9, <1>10, <1>11, <1>12,
     <1>14, <1>15, <1>16
  DEF Next, Application, Host, WorkLoop, CallbackReturns

LEMMA NextTimersHaveTimeout ==
  ASSUME IInv, TypeOK', [Next]_vars
  PROVE  TimersHaveTimeout'
<1>. USE DEF IInv, vars, taskVars, runVars, loopVars, timeoutVars, frameVars
<1>0. timerQueue \in SUBSET TaskIds
  BY BoundsAssumption DEF TypeOK, TaskIds
<1>1. ASSUME isMessageLoopRunning'  PROVE TimersHaveTimeout'
  BY <1>1 DEF TimersHaveTimeout
(* Waiting for the head of the queue is waiting for the earliest timer.    *)
<1>2. ASSUME NEW queue \in SUBSET timerQueue, queue # {}, NEW t \in queue
      PROVE  /\ task[Peek(queue)].startTime \in Nat
             /\ task[Peek(queue)].startTime <= task[t].startTime
  <2>1. /\ Peek(queue) \in queue
        /\ \A u \in queue \ {Peek(queue)} : Before(Peek(queue), u)
    BY <1>2, <1>0, PeekIsLeast
  <2>2. \A u \in queue : task[u].startTime \in Nat
    BY <1>0 DEF TypeOK, Task
  <2>. QED  BY <2>1, <2>2 DEF Before, LiveTasksAreQueued
<1>3. ASSUME NEW p \in Priorities, ScheduleCallback(p)
      PROVE TimersHaveTimeout'
  <2>1. /\ RequestHostCallbackIf(~isPerformingWork)
        /\ isPerformingWork => isMessageLoopRunning
    BY <1>3 DEF ScheduleCallback, ControlOK
  <2>. QED  BY <2>1, <1>1, RequestHostCallbackControl
<1>4. ASSUME NEW p \in Priorities, NEW delay \in Delays,
             ScheduleDelayedCallback(p, delay)
      PROVE TimersHaveTimeout'
  <2>. SUFFICES ASSUME ~isMessageLoopRunning
                PROVE  TimersHaveTimeout'
    BY <1>4, <1>1 DEF ScheduleDelayedCallback
  <2>. DEFINE new == taskIdCounter
  <2>1. taskQueue = {}
    BY DEF ReadyTasksHaveMessage, ControlOK
  <2>2. /\ timerQueue' = timerQueue \cup {new}
        /\ task' = [task EXCEPT ![new] = NewTask(p, delay)]
        /\ new \in TaskIds /\ new \notin timerQueue
    BY <1>4, BoundsAssumption
    DEF ScheduleDelayedCallback, CreateTask, TypeOK, TaskIds
  <2>3. /\ \A t \in timerQueue : task'[t] = task[t]
        /\ task'[new].startTime = now + delay
    BY <2>2, <1>0, NewTaskIsTask DEF TypeOK
  <2>4. now + delay \in Nat
    BY InputsAssumption DEF TypeOK
  <2>5. \A t \in timerQueue : /\ task[t].startTime \in Nat
                             /\ task[t].sortIndex = task[t].startTime
    BY <1>0 DEF TypeOK, Task, LiveTasksAreQueued
  <2>6. CASE IsEarliestTimer(now + delay)
    <3>1. PICK kept \in SUBSET timeouts : RequestHostTimeout(kept, now + delay)
      BY <1>4, <2>1, <2>6 DEF ScheduleDelayedCallback, Uncancelled
    <3>2. \E timeout \in timeouts' : timeout.due = now + delay
      BY <3>1, <2>4, RequestHostTimeoutType
    <3>3. \A t \in timerQueue' : now + delay <= task'[t].startTime
      BY <2>2, <2>3, <2>4, <2>5, <2>6 DEF IsEarliestTimer
    <3>. QED  BY <3>2, <3>3 DEF TimersHaveTimeout
  <2>7. CASE ~IsEarliestTimer(now + delay)
    <3>1. timeouts' = timeouts
      BY <1>4, <2>7 DEF ScheduleDelayedCallback
    <3>2. PICK t \in timerQueue : task[t].startTime <= now + delay
      BY <2>4, <2>5, <2>7 DEF IsEarliestTimer
    <3>3. PICK timeout \in timeouts : timeout.due <= task[t].startTime
      BY DEF TimersHaveTimeout
    <3>4. timeout.due <= now + delay
      BY <3>2, <3>3, <2>4, <2>5 DEF TypeOK, Timeout
    <3>. QED  BY <3>1, <3>4, <2>2, <2>3 DEF TimersHaveTimeout
  <2>. QED  BY <2>6, <2>7
<1>5. ASSUME NEW t \in TaskIds, CancelCallback(t)  PROVE TimersHaveTimeout'
  <2>1. \A u \in TaskIds : task'[u].startTime = task[u].startTime
    BY <1>5 DEF CancelCallback, TypeOK, Task
  <2>. QED  BY <1>5, <1>0, <2>1 DEF CancelCallback, TimersHaveTimeout
<1>6. CASE ContinueExecution
  <2>1. RequestHostCallbackIf(~isPerformingWork)
    BY <1>6 DEF ContinueExecution
  <2>2. isPerformingWork => isMessageLoopRunning
    BY DEF ControlOK
  <2>. QED  BY <2>1, <2>2, <1>1, RequestHostCallbackControl
<1>7. CASE PerformWorkUntilDeadline
  BY <1>7, <1>1 DEF PerformWorkUntilDeadline
<1>8. ASSUME NEW fired \in timeouts, HandleTimeout(fired)
      PROVE TimersHaveTimeout'
  <2>. SUFFICES ASSUME ~isMessageLoopRunning', NEW t \in timerQueue'
                PROVE  \E timeout \in timeouts' :
                         timeout.due <= task'[t].startTime
    BY DEF TimersHaveTimeout
  <2>1. /\ RequestHostCallbackIf(taskQueue' # {}) /\ ~isPerformingWork
        /\ AdvanceTimers(taskQueue, task)
    BY <1>8 DEF HandleTimeout, ControlOK
  <2>2. ~isMessageLoopRunning /\ taskQueue' = {}
    BY <2>1, RequestHostCallbackControl
  <2>3. ~isHostCallbackScheduled
    BY <2>2 DEF ControlOK
  <2>4. /\ timerQueue' \in SUBSET timerQueue
        /\ task'[t].startTime = task[t].startTime
    BY <2>1, <1>0, AdvanceTimersMoves DEF TypeOK
  <2>5. PICK kept \in SUBSET timeouts :
          RequestHostTimeout(kept, task[Peek(timerQueue')].startTime)
    BY <1>8, <2>2, <2>3 DEF HandleTimeout
  <2>6. /\ task[Peek(timerQueue')].startTime \in Nat
        /\ task[Peek(timerQueue')].startTime <= task[t].startTime
    BY <1>2, <2>4
  <2>7. \E timeout \in timeouts' :
          timeout.due = task[Peek(timerQueue')].startTime
    BY <2>5, <2>6, RequestHostTimeoutType
  <2>. QED  BY <2>4, <2>6, <2>7
<1>9. CASE WorkLoopEnds
  <2>. SUFFICES ASSUME NEW t \in timerQueue
                PROVE  \E timeout \in timeouts' :
                         timeout.due <= task[t].startTime
    BY <1>9 DEF TimersHaveTimeout, WorkLoopEnds
  <2>1. /\ task[Peek(timerQueue)].startTime \in Nat
        /\ task[Peek(timerQueue)].startTime <= task[t].startTime
    BY <1>2
  <2>2. RequestHostTimeout(timeouts, task[Peek(timerQueue)].startTime)
    BY <1>9 DEF WorkLoopEnds
  <2>3. \E timeout \in timeouts' :
          timeout.due = task[Peek(timerQueue)].startTime
    BY <2>1, <2>2, RequestHostTimeoutType
  <2>. QED  BY <2>1, <2>3
<1>10. CASE ExitFlushWork(TRUE)
  BY <1>10, <1>1 DEF ExitFlushWork
<1>11. ASSUME NEW t \in TaskIds, DropCancelledTask(t) \/ StartTask(t)
       PROVE TimersHaveTimeout'
  <2>1. isMessageLoopRunning'
    BY <1>11 DEF DropCancelledTask, StartTask, AtHead, ControlOK
  <2>. QED  BY <2>1, <1>1
<1>12. CASE CallbackCompletes
  <2>1. isMessageLoopRunning'
    BY <1>12 DEF CallbackCompletes, ControlOK
  <2>. QED  BY <2>1, <1>1
<1>13. ASSUME UNCHANGED <<isMessageLoopRunning, timerQueue, timeouts, task>>
       PROVE TimersHaveTimeout'
  BY <1>13 DEF TimersHaveTimeout
<1>. QED
  BY <1>3, <1>4, <1>5, <1>6, <1>7, <1>8, <1>9, <1>10, <1>11, <1>12, <1>13
  DEF Next, Application, Host, WorkLoop, CallbackReturns, Tick, Yield,
      CallbackContinues, CallbackThrows, ForceFrameRate

(* Moving due timers keeps every live task in the heap its key is for.     *)
LEMMA AdvanceTimersKeepsTasksQueued ==
  ASSUME IInv, NEW queue \in SUBSET taskQueue, NEW tasks \in [TaskIds -> Task],
         AdvanceTimers(queue, tasks),
         \A t \in TaskIds : tasks[t].callback = Fn /\ t \notin timerQueue =>
                              t \in queue,
         \A t \in TaskIds : /\ tasks[t].startTime = task[t].startTime
                            /\ tasks[t].expirationTime = task[t].expirationTime
                            /\ tasks[t].sortIndex = task[t].sortIndex,
         \A t \in timerQueue : tasks[t].callback = task[t].callback
  PROVE  LiveTasksAreQueued'
<1>. USE DEF IInv
<1>1. /\ timerQueue \subseteq TaskIds /\ taskQueue \subseteq TaskIds
  BY BoundsAssumption DEF TypeOK, TaskIds
<1>2. /\ taskQueue' = queue \cup Fired
      /\ timerQueue' = timerQueue \ Popped
      /\ Fired \subseteq Popped /\ Popped \subseteq timerQueue
      /\ \A t \in TaskIds :
            /\ task'[t].callback = tasks[t].callback
            /\ task'[t].startTime = tasks[t].startTime
            /\ task'[t].expirationTime = tasks[t].expirationTime
            /\ task'[t].sortIndex = IF t \in Fired THEN tasks[t].expirationTime
                                                  ELSE tasks[t].sortIndex
  BY AdvanceTimersMoves
<1>3. taskQueue' \cap timerQueue' = {}
  BY <1>2 DEF LiveTasksAreQueued
<1>4. ASSUME NEW t \in TaskIds, Live(t)'  PROVE t \in taskQueue' \cup timerQueue'
  <2>1. tasks[t].callback = Fn
    BY <1>2, <1>4 DEF Live
  <2>2. CASE t \notin timerQueue
    BY <2>1, <2>2, <1>2
  <2>3. CASE t \in timerQueue
    <3>1. t \in Popped => t \in Fired
      BY <2>1, <2>3 DEF Fired, Fn, Null
    <3>. QED  BY <2>3, <3>1, <1>2
  <2>. QED  BY <2>2, <2>3
<1>5. \A t \in taskQueue' : task'[t].sortIndex = task'[t].expirationTime
  BY <1>1, <1>2 DEF LiveTasksAreQueued
<1>6. \A t \in timerQueue' : task'[t].sortIndex = task'[t].startTime
  BY <1>1, <1>2 DEF LiveTasksAreQueued
<1>. QED  BY <1>3, <1>4, <1>5, <1>6 DEF LiveTasksAreQueued

LEMMA NextLiveTasksAreQueued ==
  ASSUME IInv, TypeOK', [Next]_vars
  PROVE  LiveTasksAreQueued'
<1>. USE DEF IInv, vars, taskVars, runVars, loopVars, timeoutVars, frameVars
<1>0. timerQueue \subseteq TaskIds /\ taskQueue \subseteq TaskIds
  BY BoundsAssumption DEF TypeOK, TaskIds
<1>1. ASSUME NEW p \in Priorities, ScheduleCallback(p)
      PROVE LiveTasksAreQueued'
  <2>1. /\ taskQueue' = taskQueue \cup {taskIdCounter}
        /\ timerQueue' = timerQueue
        /\ taskIdCounter \in TaskIds /\ taskIdCounter \notin timerQueue
        /\ task' = [task EXCEPT ![taskIdCounter] = NewTask(p, 0)]
    BY <1>1, BoundsAssumption DEF ScheduleCallback, CreateTask, TypeOK, TaskIds
  <2>2. /\ task'[taskIdCounter].sortIndex = task'[taskIdCounter].expirationTime
        /\ \A t \in TaskIds \ {taskIdCounter} : task'[t] = task[t]
    BY <2>1, NewTaskIsTask DEF TypeOK
  <2>. QED  BY <1>0, <2>1, <2>2 DEF LiveTasksAreQueued, Live
<1>2. ASSUME NEW p \in Priorities, NEW delay \in Delays,
             ScheduleDelayedCallback(p, delay)
      PROVE LiveTasksAreQueued'
  <2>1. /\ timerQueue' = timerQueue \cup {taskIdCounter}
        /\ taskQueue' = taskQueue
        /\ taskIdCounter \in TaskIds /\ taskIdCounter \notin taskQueue
        /\ task' = [task EXCEPT ![taskIdCounter] = NewTask(p, delay)]
        /\ delay > 0
    BY <1>2, BoundsAssumption
    DEF ScheduleDelayedCallback, CreateTask, TypeOK, TaskIds
  <2>2. /\ task'[taskIdCounter].sortIndex = task'[taskIdCounter].startTime
        /\ \A t \in TaskIds \ {taskIdCounter} : task'[t] = task[t]
    BY <2>1, NewTaskIsTask DEF TypeOK
  <2>. QED  BY <1>0, <2>1, <2>2 DEF LiveTasksAreQueued, Live
<1>3. ASSUME NEW t \in TaskIds, UNCHANGED timerQueue,
             task' = [task EXCEPT ![t].callback = Null],
             taskQueue' = taskQueue
      PROVE LiveTasksAreQueued'
  <2>1. \A u \in TaskIds :
          /\ task'[u].startTime = task[u].startTime
          /\ task'[u].expirationTime = task[u].expirationTime
          /\ task'[u].sortIndex = task[u].sortIndex
          /\ task'[u].callback = Fn => task[u].callback = Fn
    BY <1>3 DEF TypeOK, Task, Fn, Null
  <2>. QED  BY <1>0, <1>3, <2>1 DEF LiveTasksAreQueued, Live
<1>4. ASSUME AdvanceTimers(taskQueue, task)  PROVE LiveTasksAreQueued'
  <2>1. task \in [TaskIds -> Task]
    BY DEF TypeOK
  <2>. QED  BY <1>4, <2>1, AdvanceTimersKeepsTasksQueued
            DEF LiveTasksAreQueued, Live
<1>5. CASE CallbackCompletes
  <2>1. currentTask \in taskQueue /\ ~Live(currentTask)
    BY <1>5 DEF CallbackCompletes, ControlOK
  <2>2. PICK queue \in SUBSET taskQueue :
          /\ AdvanceTimers(queue, task)
          /\ taskQueue \ {currentTask} \subseteq queue
    BY <1>5 DEF CallbackCompletes
  <2>3. task \in [TaskIds -> Task]
    BY DEF TypeOK
  <2>4. \A t \in TaskIds : Live(t) /\ t \notin timerQueue => t \in queue
    BY <2>1, <2>2 DEF LiveTasksAreQueued
  <2>. QED  BY <2>2, <2>3, <2>4, AdvanceTimersKeepsTasksQueued DEF Live
<1>6. CASE CallbackContinues
  <2>. DEFINE tasks == [task EXCEPT ![currentTask].callback = Fn]
  <2>1. currentTask \in taskQueue /\ AdvanceTimers(taskQueue, tasks)
    BY <1>6 DEF CallbackContinues, ControlOK
  <2>2. currentTask \in TaskIds /\ currentTask \notin timerQueue
    BY <2>1, <1>0 DEF LiveTasksAreQueued
  <2>3. /\ tasks \in [TaskIds -> Task]
        /\ \A t \in TaskIds : /\ tasks[t].startTime = task[t].startTime
                              /\ tasks[t].expirationTime = task[t].expirationTime
                              /\ tasks[t].sortIndex = task[t].sortIndex
        /\ \A t \in TaskIds \ {currentTask} : tasks[t] = task[t]
    BY <2>2 DEF TypeOK, Task, Fn, Null
  <2>4. \A t \in TaskIds : tasks[t].callback = Fn /\ t \notin timerQueue =>
                            t \in taskQueue
    BY <2>1, <2>3 DEF LiveTasksAreQueued, Live
  <2>. HIDE DEF tasks
  <2>. QED  BY <1>0, <2>1, <2>2, <2>3, <2>4, AdvanceTimersKeepsTasksQueued
<1>7. ASSUME NEW t \in TaskIds, DropCancelledTask(t)
      PROVE LiveTasksAreQueued'
  BY <1>7 DEF DropCancelledTask, LiveTasksAreQueued, Live, Fn, Null
<1>8. ASSUME UNCHANGED <<task, taskQueue, timerQueue>>
      PROVE LiveTasksAreQueued'
  BY <1>8 DEF LiveTasksAreQueued, Live
<1>. QED
  BY <1>1, <1>2, <1>3, <1>4, <1>5, <1>6, <1>7, <1>8
  DEF Next, Application, Host, WorkLoop, CallbackReturns, Tick, Yield,
      CallbackThrows, ForceFrameRate, ContinueExecution, CancelCallback,
      PerformWorkUntilDeadline, HandleTimeout, StartTask, WorkLoopEnds

-----------------------------------------------------------------------------
(* The theorems.                                                           *)

LEMMA SchedulerInvariant == Spec => []IInv
<1>1. Init => IInv
  <2>. SUFFICES ASSUME Init PROVE IInv
    OBVIOUS
  <2>1. ControlOK
    BY Zenon DEF Init, ControlOK
  <2>2. ReadyTasksHaveMessage /\ TimersHaveTimeout
    BY DEF Init, ReadyTasksHaveMessage, TimersHaveTimeout
  <2>3. LiveTasksAreQueued
    BY DEF Init, LiveTasksAreQueued, Live, NeverScheduled, Fn, Null
  <2>. QED  BY <2>1, <2>2, <2>3, InitTypeOK DEF IInv
<1>2. IInv /\ [Next]_vars => IInv'
  BY NextTypeOK, NextControlOK, NextReadyTasksHaveMessage,
     NextTimersHaveTimeout, NextLiveTasksAreQueued DEF IInv
<1>. QED  BY <1>1, <1>2, PTL DEF Spec

(* No wakeup is lost for ready tasks, and no second message is posted.     *)
THEOREM SchedulerReadyTasksHaveMessage == Spec => []ReadyTasksHaveMessage
<1>1. IInv => ReadyTasksHaveMessage
  BY DEF IInv
<1>. QED  BY <1>1, SchedulerInvariant, PTL

(* No wakeup is lost for delayed tasks, forgotten timeouts notwithstanding.*)
THEOREM SchedulerTimersHaveTimeout == Spec => []TimersHaveTimeout
<1>1. IInv => TimersHaveTimeout
  BY DEF IInv
<1>. QED  BY <1>1, SchedulerInvariant, PTL

(* A live task is in exactly one heap, under that heap's key.              *)
THEOREM SchedulerLiveTasksAreQueued == Spec => []LiveTasksAreQueued
<1>1. IInv => LiveTasksAreQueued
  BY DEF IInv
<1>. QED  BY <1>1, SchedulerInvariant, PTL

(* workLoop starts the most urgent task whose delay is over.               *)
THEOREM SchedulerMostUrgentFirst == Spec => MostUrgentFirst
<1>1. ASSUME IInv, [Next]_vars, NEW t \in TaskIds,
             pc = "loop", pc' = "running", currentTask' = t,
             NEW u \in TaskIds \ {t}, Live(u), task[u].startTime <= now
      PROVE  MoreUrgent(t, u)
  <2>. USE <1>1 DEF IInv
  <2>1. StartTask(t)
    BY DEF Next, Application, Host, WorkLoop, CallbackReturns, ScheduleCallback,
        ScheduleDelayedCallback, CreateTask, CancelCallback, ContinueExecution,
        ForceFrameRate, JavaScriptRuns, PerformWorkUntilDeadline, HandleTimeout,
        Yield, DropCancelledTask, StartTask, WorkLoopEnds, ExitFlushWork,
        CallbackCompletes, CallbackContinues, CallbackThrows, Tick, vars, runVars
  <2>2. t \in taskQueue /\ t = Peek(taskQueue)
    BY <2>1 DEF StartTask, AtHead
  <2>3. u \notin timerQueue
    <3>1. task[u].startTime \in Nat /\ now \in Nat
      BY DEF TypeOK, Task
    <3>. QED  BY <3>1 DEF ControlOK
  <2>4. u \in taskQueue
    BY <2>3 DEF LiveTasksAreQueued
  <2>5. taskQueue \in SUBSET TaskIds
    BY BoundsAssumption DEF TypeOK, TaskIds
  <2>6. Before(t, u)
    BY <2>2, <2>4, <2>5, PeekIsLeast
  <2>. QED  BY <2>2, <2>4, <2>6 DEF Before, MoreUrgent, LiveTasksAreQueued
<1>2. IInv /\ [Next]_vars =>
        [\A t \in TaskIds :
           pc = "loop" /\ pc' = "running" /\ currentTask' = t =>
             \A u \in TaskIds \ {t} :
               Live(u) /\ task[u].startTime <= now => MoreUrgent(t, u)]_vars
  BY <1>1
<1>. QED  BY <1>2, SchedulerInvariant, PTL DEF Spec, MostUrgentFirst

(* A callback once nulled is callable again only as the continuation of    *)
(* the task that is on the stack.                                          *)
THEOREM SchedulerCancelledStaysCancelled == Spec => CancelledStaysCancelled
<1>1. ASSUME IInv, [Next]_vars, NEW t \in 1..(taskIdCounter - 1), ~Live(t),
             ~(pc = "running" /\ t = currentTask)
      PROVE  ~Live(t)'
  <2>. USE <1>1 DEF IInv, Live
  <2>0. t \in TaskIds /\ t # taskIdCounter
    BY BoundsAssumption DEF TypeOK, TaskIds
  <2>1. CASE UNCHANGED task
    BY <2>1
  <2>2. CASE \E u \in TaskIds : task' = [task EXCEPT ![u].callback = Null]
    BY <2>0, <2>2 DEF TypeOK, Task, Fn, Null
  <2>3. ASSUME NEW new, task' = [task EXCEPT ![taskIdCounter] = new]
        PROVE ~Live(t)'
    BY <2>0, <2>3 DEF TypeOK
  <2>4. ASSUME NEW queue, AdvanceTimers(queue, task)  PROVE ~Live(t)'
    BY <2>0, <2>4, AdvanceTimersMoves DEF TypeOK
  <2>5. CASE CallbackContinues
    <3>. DEFINE tasks == [task EXCEPT ![currentTask].callback = Fn]
    <3>1. AdvanceTimers(taskQueue, tasks) /\ t # currentTask
      BY <2>5 DEF CallbackContinues
    <3>2. tasks \in [TaskIds -> Task] /\ tasks[t] = task[t]
      BY <2>0, <3>1 DEF TypeOK, Task
    <3>. HIDE DEF tasks
    <3>. QED  BY <2>0, <3>1, <3>2, AdvanceTimersMoves
  <2>. QED
    BY <2>1, <2>2, <2>3, <2>4, <2>5
    DEF Next, Application, Host, WorkLoop, CallbackReturns, ScheduleCallback,
        ScheduleDelayedCallback, CreateTask, CancelCallback, ContinueExecution,
        ForceFrameRate, PerformWorkUntilDeadline, HandleTimeout, Yield,
        DropCancelledTask, StartTask, WorkLoopEnds, CallbackCompletes,
        CallbackThrows, Tick, vars, taskVars
<1>2. IInv /\ [Next]_vars =>
        [\A t \in 1..(taskIdCounter - 1) :
           ~Live(t) /\ ~(pc = "running" /\ t = currentTask) => ~Live(t)']_vars
  BY <1>1
<1>. QED  BY <1>2, SchedulerInvariant, PTL DEF Spec, CancelledStaysCancelled

-----------------------------------------------------------------------------
(* The refinement of TaskService: what a step does to the status of tasks. *)

SameForService(t) ==
  task'[t].startTime = task[t].startTime /\ StatusOf(t)' = StatusOf(t)

(* The delay of a task in taskQueue is over.                               *)
QueuedTasksAreDue == \A t \in taskQueue : task[t].startTime <= now

LEMMA NextQueuedTasksAreDue ==
  ASSUME IInv, QueuedTasksAreDue, [Next]_vars
  PROVE  QueuedTasksAreDue'
<1>. USE BoundsAssumption, InputsAssumption DEF IInv, QueuedTasksAreDue, TypeOK, TaskIds
<1>1. ASSUME NEW queue \in SUBSET taskQueue, NEW tasks \in [TaskIds -> Task],
             AdvanceTimers(queue, tasks), UNCHANGED now,
             \A t \in TaskIds : tasks[t].startTime = task[t].startTime
      PROVE  QueuedTasksAreDue'
  <2>1. \A t \in Fired : t \in TaskIds /\ task[t].startTime <= now
    BY DEF Fired, Popped
  <2>2. taskQueue' = queue \cup Fired
    BY <1>1 DEF AdvanceTimers
  <2>3. \A t \in TaskIds : task'[t].startTime = tasks[t].startTime
    BY <1>1, AdvanceTimersMoves
  <2>4. \A t \in TaskIds : task'[t].startTime = task[t].startTime
    BY <1>1, <2>3, Zenon
  <2>5. \A t \in queue \cup Fired : t \in TaskIds /\ task[t].startTime <= now
    BY <1>1, <2>1
  <2>. QED  BY <1>1, <2>2, <2>4, <2>5
<1>2. CASE UNCHANGED <<now, task>> /\ taskQueue' \subseteq taskQueue
  BY <1>2
<1>3. ASSUME NEW p \in Priorities, NEW delay \in Delays \cup {0}, CreateTask(p, delay),
             UNCHANGED now,
             \/ UNCHANGED taskQueue
             \/ delay = 0 /\ taskQueue' = taskQueue \cup {taskIdCounter}
      PROVE  QueuedTasksAreDue'
  <2>1. NewTask(p, delay).startTime = now + delay
    BY <1>3, NewTaskIsTask
  <2>2. /\ taskIdCounter \in TaskIds /\ taskIdCounter \notin taskQueue
        /\ task' = [task EXCEPT ![taskIdCounter] = NewTask(p, delay)]
    BY <1>3 DEF CreateTask
  <2>3. /\ \A t \in taskQueue : task'[t] = task[t]
        /\ task'[taskIdCounter].startTime = now + delay
    BY <2>1, <2>2
  <2>4. CASE UNCHANGED taskQueue
    BY <1>3, <2>3, <2>4
  <2>5. CASE delay = 0 /\ taskQueue' = taskQueue \cup {taskIdCounter}
    <3>1. now + delay = now
      BY <2>5
    <3>. QED  BY <1>3, <2>3, <2>5, <3>1
  <2>. QED  BY <1>3, <2>4, <2>5
<1>4. CASE \E t \in TaskIds : CancelCallback(t)
  BY <1>4 DEF CancelCallback, Task
<1>5. CASE \E t \in TaskIds : StartTask(t)
  BY <1>5 DEF StartTask, Task
<1>6. CASE CallbackContinues
  <2>1. [task EXCEPT ![currentTask].callback = Fn] \in [TaskIds -> Task]
    BY DEF Task
  <2>. QED  BY <1>1, <1>6, <2>1 DEF CallbackContinues, Task
<1>7. CASE CallbackCompletes \/ Host
  BY <1>1, <1>7 DEF CallbackCompletes, Host, PerformWorkUntilDeadline, HandleTimeout
<1>8. CASE Tick
  BY <1>8 DEF Tick, taskVars, Task
<1>9. CASE Application
  <2>1. ASSUME NEW p \in Priorities, ScheduleCallback(p)  PROVE QueuedTasksAreDue'
    BY <1>3, <2>1 DEF ScheduleCallback
  <2>2. ASSUME NEW p \in Priorities, NEW delay \in Delays, ScheduleDelayedCallback(p, delay)
        PROVE  QueuedTasksAreDue'
    BY <1>3, <2>2 DEF ScheduleDelayedCallback
  <2>. QED  BY <1>2, <1>4, <1>9, <2>1, <2>2
            DEF Application, ContinueExecution, ForceFrameRate, taskVars
<1>. QED
  BY <1>2, <1>5, <1>6, <1>7, <1>8, <1>9
  DEF Next, WorkLoop, CallbackReturns, Yield, DropCancelledTask, WorkLoopEnds,
      CallbackThrows, vars, taskVars

LEMMA ServiceStutters ==
  ASSUME UNCHANGED now, \A t \in TaskIds : SameForService(t)
  PROVE  UNCHANGED Service!serviceVars
BY DEF SameForService, Service!serviceVars

(* One task changes its status, and not the start of its delay.            *)
LEMMA ServiceMoves ==
  ASSUME UNCHANGED now, NEW t \in TaskIds, NEW new,
         StatusOf(t)' = new, task'[t].startTime = task[t].startTime,
         \A u \in TaskIds \ {t} : SameForService(u)
  PROVE  /\ [u \in TaskIds |-> StatusOf(u)'] =
              [[u \in TaskIds |-> StatusOf(u)] EXCEPT ![t] = new]
         /\ [u \in TaskIds |-> task'[u].startTime] =
              [u \in TaskIds |-> task[u].startTime]
BY DEF SameForService

(* Every step off the stack of a callback, and every one on it that keeps  *)
(* the Task objects' callbacks, changes no status.                         *)
LEMMA SameStatus ==
  ASSUME TypeOK, NEW t \in TaskIds, UNCHANGED taskIdCounter,
         task'[t].callback = task[t].callback,
         task'[t].startTime = task[t].startTime,
         \/ UNCHANGED <<pc, currentTask>>
         \/ pc # "running" /\ pc' # "running"
  PROVE  SameForService(t)
BY DEF SameForService, StatusOf, Live

LEMMA NewTaskIsWaiting ==
  ASSUME IInv, NEW p \in Priorities, NEW delay \in Delays \cup {0},
         CreateTask(p, delay), UNCHANGED <<now, runVars>>
  PROVE  \E t \in TaskIds : Service!Schedule(t)
<1>1. /\ taskIdCounter \in TaskIds /\ now \in Nat /\ delay \in Nat
      /\ ~(pc = "running" /\ currentTask = taskIdCounter)
  BY BoundsAssumption, InputsAssumption
  DEF IInv, TypeOK, ControlOK, TaskIds, CreateTask
<1>2. PICK t \in TaskIds : t = taskIdCounter
  BY <1>1
<1>3. /\ task' = [task EXCEPT ![t] = NewTask(p, delay)] /\ taskIdCounter' = t + 1
      /\ NewTask(p, delay).callback = Fn
      /\ NewTask(p, delay).startTime = now + delay
  BY <1>2, NewTaskIsTask DEF IInv, CreateTask
<1>4. /\ task'[t].callback = Fn /\ task'[t].startTime >= now
      /\ \A u \in TaskIds \ {t} : task'[u] = task[u]
  BY <1>1, <1>3 DEF IInv, TypeOK
<1>5. UNCHANGED <<now, pc, currentTask>> /\ t \in Nat
  BY <1>1, <1>2, BoundsAssumption DEF runVars, TaskIds
<1>6. \A u \in TaskIds \ {t} : SameForService(u)
  BY <1>2, <1>3, <1>4, <1>5, BoundsAssumption DEF TaskIds, SameForService, StatusOf, Live
<1>7. StatusOf(t) = "absent" /\ StatusOf(t)' = "waiting"
  BY <1>1, <1>2, <1>3, <1>4, <1>5 DEF StatusOf, Live
<1>. DEFINE status == [u \in TaskIds |-> StatusOf(u)]
            starts == [u \in TaskIds |-> task[u].startTime]
<1>8. status' = [status EXCEPT ![t] = "waiting"] /\ status[t] = "absent"
  BY <1>6, <1>7 DEF SameForService
<1>9. starts' = [starts EXCEPT ![t] = starts'[t]] /\ starts'[t] >= now
  BY <1>4, <1>6 DEF SameForService
<1>. QED  BY <1>5, <1>8, <1>9 DEF Service!Schedule

LEMMA ServiceStep ==
  ASSUME IInv, QueuedTasksAreDue, [Next]_vars
  PROVE  [Service!ServiceNext]_(Service!serviceVars)
<1>. USE DEF IInv
<1>0. /\ UNCHANGED vars => UNCHANGED now /\ \A t \in TaskIds : SameForService(t)
      /\ UNCHANGED now /\ (\A t \in TaskIds : SameForService(t)) =>
           UNCHANGED Service!serviceVars
  <2>1. ASSUME UNCHANGED vars  PROVE \A t \in TaskIds : SameForService(t)
    BY <2>1 DEF vars, taskVars, runVars, SameForService, StatusOf, Live
  <2>. QED  BY <2>1, ServiceStutters DEF vars
<1>1. ASSUME NEW p \in Priorities, ScheduleCallback(p)
      PROVE  \E t \in TaskIds : Service!Schedule(t)
  <2>1. CreateTask(p, 0) /\ taskIdCounter \in TaskIds /\ UNCHANGED <<now, runVars>>
    BY <1>1, BoundsAssumption DEF ScheduleCallback, CreateTask, TypeOK, TaskIds
  <2>. QED  BY <2>1, NewTaskIsWaiting
<1>2. ASSUME NEW p \in Priorities, NEW delay \in Delays, ScheduleDelayedCallback(p, delay)
      PROVE  \E t \in TaskIds : Service!Schedule(t)
  <2>1. /\ CreateTask(p, delay) /\ taskIdCounter \in TaskIds
        /\ UNCHANGED <<now, runVars>>
    BY <1>2, BoundsAssumption
    DEF ScheduleDelayedCallback, CreateTask, TypeOK, TaskIds
  <2>. QED  BY <2>1, NewTaskIsWaiting
<1>3. ASSUME NEW t \in TaskIds, CancelCallback(t)
      PROVE  Service!Cancel(t) \/ UNCHANGED Service!serviceVars
  <2>1. /\ task' = [task EXCEPT ![t].callback = Null] /\ t < taskIdCounter
        /\ UNCHANGED <<now, taskIdCounter, pc, currentTask>>
    BY <1>3 DEF CancelCallback, runVars
  <2>2. \A u \in TaskIds \ {t} : SameForService(u)
    BY <2>1 DEF TypeOK, SameForService, StatusOf, Live
  <2>3. task'[t].startTime = task[t].startTime /\ ~Live(t)'
    BY <2>1 DEF TypeOK, Task, Live, Fn, Null
  <2>4. CASE StatusOf(t) = "waiting"
    <3>1. StatusOf(t)' = "over"
      BY <2>1, <2>3, <2>4, BoundsAssumption DEF StatusOf, TypeOK, TaskIds
    <3>. QED  BY <2>1, <2>2, <2>3, <2>4, <3>1, ServiceMoves DEF Service!Cancel
  <2>5. CASE StatusOf(t) # "waiting"
    <3>1. StatusOf(t)' = StatusOf(t)
      BY <2>1, <2>3, <2>5, BoundsAssumption DEF StatusOf, TypeOK, TaskIds
    <3>. QED  BY <2>1, <2>2, <2>3, <3>1, ServiceStutters DEF SameForService
  <2>. QED  BY <2>4, <2>5
<1>4. ASSUME NEW t \in TaskIds, StartTask(t)  PROVE Service!Start(t)
  <2>1. /\ task' = [task EXCEPT ![t].callback = Null]
        /\ currentTask' = t /\ pc = "loop" /\ pc' = "running" /\ Live(t)
        /\ t \in taskQueue /\ UNCHANGED <<now, taskIdCounter>>
    BY <1>4 DEF StartTask, AtHead, Live
  <2>2. \A u \in TaskIds \ {t} : SameForService(u)
    BY <2>1, BoundsAssumption DEF TypeOK, SameForService, StatusOf, Live, TaskIds
  <2>3. task'[t].startTime = task[t].startTime /\ task[t].startTime <= now
    BY <2>1 DEF TypeOK, Task, QueuedTasksAreDue
  <2>4. StatusOf(t) = "waiting" /\ StatusOf(t)' = "running"
    BY <2>1, BoundsAssumption DEF StatusOf, TypeOK, TaskIds, Live
  <2>5. \A u \in TaskIds : StatusOf(u) # "running"
    BY <2>1, BoundsAssumption DEF StatusOf, TypeOK, TaskIds
  <2>. QED  BY <2>1, <2>2, <2>3, <2>4, <2>5, ServiceMoves, BoundsAssumption
            DEF Service!Start, TypeOK, TaskIds, Task
<1>5. ASSUME CallbackReturns
      PROVE  \E t \in TaskIds : Service!Return(t)
  <2>1. /\ pc = "running" /\ pc' # "running" /\ currentTask \in TaskIds
        /\ currentTask < taskIdCounter /\ UNCHANGED <<now, taskIdCounter>>
    BY <1>5, BoundsAssumption DEF CallbackReturns, CallbackCompletes, CallbackContinues,
       CallbackThrows, ExitFlushWork, ControlOK, TypeOK, TaskIds, taskVars
  <2>2. PICK t \in TaskIds : t = currentTask
    BY <2>1
  <2>3. /\ \A u \in TaskIds : task'[u].startTime = task[u].startTime
        /\ \A u \in TaskIds \ {t} : task'[u].callback = task[u].callback
    <3>1. CASE CallbackThrows
      BY <3>1 DEF CallbackThrows, taskVars
    <3>2. CASE CallbackCompletes
      BY <3>2, AdvanceTimersMoves DEF CallbackCompletes, TypeOK
    <3>3. CASE CallbackContinues
      <4>. DEFINE tasks == [task EXCEPT ![t].callback = Fn]
      <4>1. /\ tasks \in [TaskIds -> Task]
            /\ \A u \in TaskIds : tasks[u].startTime = task[u].startTime
            /\ \A u \in TaskIds \ {t} : tasks[u] = task[u]
        BY <2>2 DEF TypeOK, Task
      <4>2. AdvanceTimers(taskQueue, tasks)
        BY <2>2, <3>3 DEF CallbackContinues
      <4>. HIDE DEF tasks
      <4>3. \A u \in TaskIds : /\ task'[u].startTime = tasks[u].startTime
                               /\ task'[u].callback = tasks[u].callback
        BY <4>1, <4>2, AdvanceTimersMoves
      <4>. QED  BY <4>1, <4>3
    <3>. QED  BY <1>5, <3>1, <3>2, <3>3 DEF CallbackReturns
  <2>4. \A u \in TaskIds \ {t} : SameForService(u)
    BY <2>1, <2>2, <2>3 DEF SameForService, StatusOf, Live
  <2>5. StatusOf(t) = "running" /\ StatusOf(t)' \in {"waiting", "over"}
    BY <2>1, <2>2, BoundsAssumption DEF StatusOf, TypeOK, TaskIds
  <2>. QED  BY <2>1, <2>3, <2>4, <2>5, ServiceMoves DEF Service!Return
<1>6. ASSUME Tick  PROVE Service!Advance
  BY <1>6 DEF Tick, Service!Advance, taskVars, runVars, TypeOK, StatusOf, Live
<1>7. ASSUME \/ ContinueExecution \/ Host \/ WorkLoopEnds
             \/ \E interval \in FrameIntervals : ForceFrameRate(interval)
             \/ \E t \in TaskIds : Yield(t) \/ DropCancelledTask(t)
      PROVE  UNCHANGED now /\ \A t \in TaskIds : SameForService(t)
  <2>1. \A t \in TaskIds : /\ task'[t].callback = task[t].callback
                           /\ task'[t].startTime = task[t].startTime
    <3>1. CASE Host
      <4>1. AdvanceTimers(taskQueue, task) /\ task \in [TaskIds -> Task]
        BY <3>1 DEF Host, PerformWorkUntilDeadline, HandleTimeout, TypeOK
      <4>. QED  BY <4>1, AdvanceTimersMoves
    <3>2. CASE UNCHANGED task
      BY <3>2
    <3>. QED  BY <1>7, <3>1, <3>2 DEF ContinueExecution, WorkLoopEnds, ForceFrameRate,
                Yield, DropCancelledTask, taskVars
  <2>2. /\ UNCHANGED <<now, taskIdCounter>>
        /\ UNCHANGED <<pc, currentTask>> \/ (pc # "running" /\ pc' # "running")
    BY <1>7 DEF ContinueExecution, Host, PerformWorkUntilDeadline, HandleTimeout,
       WorkLoopEnds, ForceFrameRate, Yield, DropCancelledTask, AtHead, ExitFlushWork,
       taskVars, runVars
  <2>. QED  BY <2>1, <2>2, SameStatus
<1>. QED  BY <1>0, <1>1, <1>2, <1>3, <1>4, <1>5, <1>6, <1>7
          DEF Next, Application, WorkLoop, Service!ServiceNext

(* A task runs after its delay and never while another runs; a callback    *)
(* that returns a continuation waits again, any other is over; only a task *)
(* that waits is cancelled: the Scheduler's steps are those of the service *)
(* (its fairness is checked, not proved).                                  *)
THEOREM SchedulerImplementsService == Spec => Service!ServiceSpec
<1>1. Init => Service!ServiceInit
  BY BoundsAssumption
  DEF Init, Service!ServiceInit, StatusOf, NeverScheduled, TaskIds
<1>2. Init => QueuedTasksAreDue
  BY DEF Init, QueuedTasksAreDue
<1>3. IInv /\ QueuedTasksAreDue /\ [Next]_vars => QueuedTasksAreDue'
  BY NextQueuedTasksAreDue
<1>4. IInv /\ QueuedTasksAreDue /\ [Next]_vars =>
        [Service!ServiceNext]_(Service!serviceVars)
  BY ServiceStep
<1>. QED  BY <1>1, <1>2, <1>3, <1>4, SchedulerInvariant, PTL DEF Spec, Service!ServiceSpec
=============================================================================
