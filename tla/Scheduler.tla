----------------------------- MODULE Scheduler -----------------------------
(***************************************************************************)
(* The cooperative task scheduler of scheduler/src/forks/Scheduler.js.     *)
(*                                                                         *)
(* JavaScript runs to completion: while Scheduler code or a task's         *)
(* callback is on the stack, the host delivers nothing.  The control state *)
(* pc says what is on the stack:                                           *)
(*   "idle"     no Scheduler code; the host may deliver a message, fire a  *)
(*              timeout, or run application code that calls the API        *)
(*   "loop"     workLoop, about to examine the head of taskQueue           *)
(*   "running"  a task's callback, called by workLoop; it may call the API *)
(*                                                                         *)
(* The two heaps are sets with Peek their least element; MinHeap.tla shows *)
(* that the array heap of SchedulerMinHeap.js implements that.  The clock  *)
(* `now' moves while the host or a callback runs; the Scheduler's own code *)
(* takes no time, so workLoop's local currentTime is always `now'.         *)
(***************************************************************************)
EXTENDS Integers, FiniteSets

CONSTANTS
  MaxTasks,             \* bound: tasks ever created
  MaxTime,              \* bound: last instant of the clock
  MaxTimeouts,          \* bound: see ContinueExecution
  Priorities,           \* the priority levels callers use
  Delays,               \* the options.delay values callers use (0: none)
  FrameIntervals,       \* the values frameInterval takes
  UserBlockingTimeout, NormalTimeout, LowTimeout, IdleTimeout

ImmediatePriority    == 1
UserBlockingPriority == 2
NormalPriority       == 3
LowPriority          == 4
IdlePriority         == 5

ASSUME BoundsAssumption ==
  MaxTasks \in Nat /\ MaxTime \in Nat /\ MaxTimeouts \in Nat
ASSUME InputsAssumption ==
  /\ Priorities \subseteq 1..5
  /\ Delays \subseteq Nat
  /\ FrameIntervals \subseteq Nat \ {0} /\ FrameIntervals # {}
ASSUME TimeoutsAssumption ==
  /\ UserBlockingTimeout \in Nat /\ NormalTimeout \in Nat
  /\ LowTimeout \in Nat /\ IdleTimeout \in Nat

NoTask == 0             \* null, in currentTask
NoTimeout == 0          \* -1, in taskTimeoutID
TaskIds == 1..MaxTasks
Fn == "function"        \* a task's callback field holds a function
Null == "null"          \* ... or null: it was cancelled, or is on the stack

VARIABLES
  now,                      \* getCurrentTime()
  task,                     \* the Task objects, by id
  taskIdCounter,
  taskQueue, timerQueue,    \* the ids in each heap
  currentTask, currentPriorityLevel,
  isPerformingWork, isHostCallbackScheduled, isHostTimeoutScheduled,
  isMessageLoopRunning, taskTimeoutID,
  frameStart, frameInterval,
  messages,                 \* host: posted, undelivered messages
  timeouts,                 \* host: live setTimeout handles, with due times
  pc

taskVars == <<task, taskIdCounter, taskQueue, timerQueue>>
runVars  == <<currentTask, currentPriorityLevel, isPerformingWork, pc>>
loopVars == <<isHostCallbackScheduled, isMessageLoopRunning, messages>>
timeoutVars == <<isHostTimeoutScheduled, taskTimeoutID, timeouts>>
frameVars == <<frameStart, frameInterval>>
vars == <<now, taskVars, runVars, loopVars, timeoutVars, frameVars>>

Instant == Nat \cup {-1}   \* the expiration of an Immediate task may be -1

Task == [callback : {Fn, Null}, priorityLevel : 1..5, startTime : Nat,
         expirationTime : Instant, sortIndex : Instant]

Timeout == [id : Nat \ {0}, due : Nat]

-----------------------------------------------------------------------------
(* SchedulerMinHeap.js, compare and peek: sortIndex first, then the id.    *)
Before(a, b) == \/ task[a].sortIndex < task[b].sortIndex
                \/ task[a].sortIndex = task[b].sortIndex /\ a < b

Peek(queue) == CHOOSE t \in queue : \A u \in queue \ {t} : Before(t, u)

(* The timeout of unstable_scheduleCallback's switch.                      *)
TimeoutOf(p) == CASE p = ImmediatePriority    -> -1
                  [] p = UserBlockingPriority -> UserBlockingTimeout
                  [] p = IdlePriority         -> IdleTimeout
                  [] p = LowPriority          -> LowTimeout
                  [] OTHER                    -> NormalTimeout

(* Mutant: a timer is taken to be due one tick early.                      *)
PoppedEarly == {t \in timerQueue :
                  \A u \in timerQueue :
                    u = t \/ Before(u, t) =>
                      task[u].callback = Null \/ task[u].startTime <= now + 1}
(* advanceTimers pops timers up to the first that is live and not yet due. *)
Popped == {t \in timerQueue :
             \A u \in timerQueue :
               u = t \/ Before(u, t) =>
                 task[u].callback = Null \/ task[u].startTime <= now}
Fired == {t \in Popped : task[t].callback # Null}

(* taskQueue and the Task objects after advanceTimers(now), given what the  *)
(* step itself has made of them.                                           *)
AdvanceTimers(queue, tasks) ==
  /\ timerQueue' = timerQueue \ Popped
  /\ taskQueue' = queue \cup Fired
  /\ task' = [t \in TaskIds |->
                IF t \in Fired
                  THEN [tasks[t] EXCEPT !.sortIndex = tasks[t].expirationTime]
                  ELSE tasks[t]]

-----------------------------------------------------------------------------
(* The host primitives.                                                    *)

(* requestHostCallback: one message at a time.                             *)
RequestHostCallback ==
  /\ isMessageLoopRunning' = TRUE
  /\ messages' = IF isMessageLoopRunning THEN messages ELSE messages + 1

(* `if (!isHostCallbackScheduled) { isHostCallbackScheduled = true;         *)
(* requestHostCallback(); }', under a further condition.                   *)
RequestHostCallbackIf(condition) ==
  IF condition /\ ~isHostCallbackScheduled
    THEN isHostCallbackScheduled' = TRUE /\ RequestHostCallback
    ELSE UNCHANGED loopVars

(* The host never hands out a handle that is live; that it does not hand   *)
(* out the one the Scheduler still remembers either keeps handles few.     *)
FreshHandle ==
  CHOOSE h \in 1..(Cardinality(timeouts) + 2) :
    h # taskTimeoutID /\ \A timeout \in timeouts : timeout.id # h

(* requestHostTimeout(handleTimeout, due - now), `kept' being the timeouts  *)
(* that are live at the time.                                              *)
RequestHostTimeout(kept, due) ==
  /\ taskTimeoutID' = FreshHandle
  /\ timeouts' = kept \cup {[id |-> FreshHandle, due |-> due]}

(* clearTimeout(taskTimeoutID) leaves these.                               *)
Uncancelled == {timeout \in timeouts : timeout.id # taskTimeoutID}

-----------------------------------------------------------------------------
(* The API, called by the application from an idle host or from a task's   *)
(* callback.                                                               *)
JavaScriptRuns == pc \in {"idle", "running"}

NewTask(p, delay) ==
  LET start == now + delay
  IN  [callback |-> Fn, priorityLevel |-> p, startTime |-> start,
       expirationTime |-> start + TimeoutOf(p),
       sortIndex |-> IF delay > 0 THEN start ELSE start + TimeoutOf(p)]

(* Mutant: the id counter is not incremented.                              *)
CreateTaskSameId(p, delay) ==
  /\ JavaScriptRuns
  /\ taskIdCounter <= MaxTasks
  /\ now + delay <= MaxTime
  /\ task' = [task EXCEPT ![taskIdCounter] = NewTask(p, delay)]
  /\ UNCHANGED taskIdCounter

CreateTask(p, delay) ==
  /\ JavaScriptRuns
  /\ taskIdCounter <= MaxTasks
  /\ now + delay <= MaxTime
  /\ task' = [task EXCEPT ![taskIdCounter] = NewTask(p, delay)]
  /\ taskIdCounter' = taskIdCounter + 1

ScheduleCallback(p) ==
  /\ CreateTask(p, 0)
  /\ taskQueue' = taskQueue \cup {taskIdCounter}
  /\ RequestHostCallbackIf(~isPerformingWork)
  /\ UNCHANGED <<now, timerQueue, runVars, timeoutVars, frameVars>>

(* newTask === peek(timerQueue): on a tie the older timer stays first.     *)
IsEarliestTimer(start) == \A t \in timerQueue : start < task[t].sortIndex

ScheduleDelayedCallback(p, delay) ==
  /\ delay > 0
  /\ CreateTask(p, delay)
  /\ timerQueue' = timerQueue \cup {taskIdCounter}
  /\ IF taskQueue = {} /\ IsEarliestTimer(now + delay)
       THEN /\ isHostTimeoutScheduled' = TRUE
            /\ RequestHostTimeout(
                 IF isHostTimeoutScheduled THEN Uncancelled ELSE timeouts,
                 now + delay)
       ELSE UNCHANGED timeoutVars
  /\ UNCHANGED <<now, taskQueue, runVars, loopVars, frameVars>>

(* Only nulls the callback: the task stays in its heap until it surfaces.  *)
CancelCallback(t) ==
  /\ JavaScriptRuns
  /\ t < taskIdCounter
  /\ task' = [task EXCEPT ![t].callback = Null]
  /\ UNCHANGED <<now, taskIdCounter, taskQueue, timerQueue, runVars, loopVars,
                 timeoutVars, frameVars>>

(* With a timer queued each call from an idle host leaves one more timeout *)
(* behind (workLoop requests one and nobody will cancel it), so calls stop *)
(* at MaxTimeouts.                                                         *)
ContinueExecution ==
  /\ JavaScriptRuns
  /\ Cardinality(timeouts) < MaxTimeouts
  /\ RequestHostCallbackIf(~isPerformingWork)
  /\ UNCHANGED <<now, taskVars, runVars, timeoutVars, frameVars>>

ForceFrameRate(interval) ==
  /\ JavaScriptRuns
  /\ frameInterval' = interval
  /\ UNCHANGED <<now, taskVars, runVars, loopVars, timeoutVars, frameStart>>

-----------------------------------------------------------------------------
(* The host calls the Scheduler.                                           *)

(* performWorkUntilDeadline, flushWork's prologue, workLoop's first        *)
(* advanceTimers.                                                          *)
PerformWorkUntilDeadline ==
  /\ pc = "idle" /\ messages > 0
  /\ isMessageLoopRunning
  /\ messages' = messages - 1
  /\ frameStart' = now
  /\ isHostCallbackScheduled' = FALSE
  /\ IF isHostTimeoutScheduled
       THEN /\ isHostTimeoutScheduled' = FALSE
            /\ taskTimeoutID' = NoTimeout
            /\ timeouts' = Uncancelled
       ELSE UNCHANGED timeoutVars
  /\ isPerformingWork' = TRUE
  /\ pc' = "loop"
  /\ AdvanceTimers(taskQueue, task)
  /\ UNCHANGED <<now, taskIdCounter, currentTask, currentPriorityLevel,
                 isMessageLoopRunning, frameInterval>>

(* Mutant: handleTimeout does not ask for another timeout when the timers  *)
(* that remain are not due.                                                *)
HandleTimeoutOnce(timeout) ==
  /\ pc = "idle"
  /\ timeout.due <= now
  /\ AdvanceTimers(taskQueue, task)
  /\ RequestHostCallbackIf(taskQueue' # {})
  /\ isHostTimeoutScheduled' = FALSE
  /\ timeouts' = timeouts \ {timeout}
  /\ UNCHANGED <<now, taskIdCounter, runVars, taskTimeoutID, frameVars>>

(* A timeout fires: handleTimeout(now).                                    *)
HandleTimeout(timeout) ==
  /\ pc = "idle"
  /\ timeout.due <= now
  /\ AdvanceTimers(taskQueue, task)
  /\ RequestHostCallbackIf(taskQueue' # {})
  /\ isHostTimeoutScheduled' = FALSE
  /\ LET kept == timeouts \ {timeout}
     IN  IF ~isHostCallbackScheduled /\ taskQueue' = {} /\ timerQueue' # {}
           THEN RequestHostTimeout(kept, task[Peek(timerQueue')].startTime)
           ELSE timeouts' = kept /\ UNCHANGED taskTimeoutID
  /\ UNCHANGED <<now, taskIdCounter, runVars, frameVars>>

-----------------------------------------------------------------------------
(* workLoop.                                                               *)

(* flushWork's and performWorkUntilDeadline's finally clauses.             *)
ExitFlushWork(hasMoreWork) ==
  /\ currentTask' = NoTask
  /\ currentPriorityLevel' = NormalPriority
  /\ isPerformingWork' = FALSE
  /\ pc' = "idle"
  /\ isMessageLoopRunning' = hasMoreWork
  /\ messages' = IF hasMoreWork THEN messages + 1 ELSE messages
  /\ UNCHANGED isHostCallbackScheduled

ShouldYieldToHost == now - frameStart >= frameInterval

MustYield(t) == task[t].expirationTime > now /\ ShouldYieldToHost

AtHead(t) == pc = "loop" /\ t \in taskQueue /\ t = Peek(taskQueue)

(* Mutant: the message loop stops at the deadline.                         *)
YieldForGood(t) ==
  /\ AtHead(t) /\ MustYield(t)
  /\ ExitFlushWork(FALSE)
  /\ UNCHANGED <<now, taskVars, timeoutVars, frameVars>>

Yield(t) ==
  /\ AtHead(t) /\ MustYield(t)
  /\ ExitFlushWork(TRUE)
  /\ UNCHANGED <<now, taskVars, timeoutVars, frameVars>>

DropCancelledTask(t) ==
  /\ AtHead(t) /\ ~MustYield(t)
  /\ task[t].callback = Null
  /\ taskQueue' = taskQueue \ {t}
  /\ UNCHANGED <<now, task, taskIdCounter, timerQueue, runVars, loopVars,
                 timeoutVars, frameVars>>

StartTask(t) ==
  /\ AtHead(t) /\ ~MustYield(t)
  /\ task[t].callback = Fn
  /\ task' = [task EXCEPT ![t].callback = Null]
  /\ currentTask' = t
  /\ currentPriorityLevel' = task[t].priorityLevel
  /\ pc' = "running"
  /\ UNCHANGED <<now, taskIdCounter, taskQueue, timerQueue, isPerformingWork,
                 loopVars, timeoutVars, frameVars>>

(* Mutant: the head is popped without comparing it to currentTask.         *)
CallbackCompletesPopsHead ==
  /\ pc = "running"
  /\ AdvanceTimers(taskQueue \ {Peek(taskQueue)}, task)
  /\ pc' = "loop"
  /\ UNCHANGED <<now, taskIdCounter, currentTask, currentPriorityLevel,
                 isPerformingWork, loopVars, timeoutVars, frameVars>>

(* Mutant: timers are not advanced after a callback.                       *)
CallbackCompletesKeepsTimers ==
  /\ pc = "running"
  /\ taskQueue' = IF currentTask = Peek(taskQueue)
                    THEN taskQueue \ {currentTask} ELSE taskQueue
  /\ pc' = "loop"
  /\ UNCHANGED <<now, task, taskIdCounter, timerQueue, currentTask,
                 currentPriorityLevel, isPerformingWork, loopVars, timeoutVars,
                 frameVars>>

(* The callback returns no function: its task is popped only if no more    *)
(* urgent task was pushed meanwhile; else it surfaces later, cancelled.    *)
CallbackCompletes ==
  /\ pc = "running"
  /\ AdvanceTimers(IF currentTask = Peek(taskQueue) THEN taskQueue \ {currentTask}
                                                    ELSE taskQueue, task)
  /\ pc' = "loop"
  /\ UNCHANGED <<now, taskIdCounter, currentTask, currentPriorityLevel,
                 isPerformingWork, loopVars, timeoutVars, frameVars>>

(* Mutant: the continuation is stored in the head of the queue.            *)
CallbackContinuesHead ==
  /\ pc = "running"
  /\ AdvanceTimers(taskQueue, [task EXCEPT ![Peek(taskQueue)].callback = Fn])
  /\ ExitFlushWork(TRUE)
  /\ UNCHANGED <<now, taskIdCounter, timeoutVars, frameVars>>

(* The callback returns a continuation: workLoop returns true at once.     *)
CallbackContinues ==
  /\ pc = "running"
  /\ AdvanceTimers(taskQueue, [task EXCEPT ![currentTask].callback = Fn])
  /\ ExitFlushWork(TRUE)
  /\ UNCHANGED <<now, taskIdCounter, timeoutVars, frameVars>>

(* Mutant: hasMoreWork starts out false, so a throw stops the loop.        *)
CallbackThrowsForGood ==
  /\ pc = "running"
  /\ ExitFlushWork(FALSE)
  /\ UNCHANGED <<now, taskVars, timeoutVars, frameVars>>

(* The callback throws: hasMoreWork is still true.                         *)
CallbackThrows ==
  /\ pc = "running"
  /\ ExitFlushWork(TRUE)
  /\ UNCHANGED <<now, taskVars, timeoutVars, frameVars>>

(* The task queue is empty: wait for the first timer, if any.              *)
WorkLoopEnds ==
  /\ pc = "loop" /\ taskQueue = {}
  /\ ExitFlushWork(FALSE)
  /\ IF timerQueue # {}
       THEN RequestHostTimeout(timeouts, task[Peek(timerQueue)].startTime)
       ELSE UNCHANGED <<taskTimeoutID, timeouts>>
  /\ UNCHANGED <<now, taskVars, isHostTimeoutScheduled, frameVars>>

Tick ==
  /\ JavaScriptRuns /\ now < MaxTime
  /\ now' = now + 1
  /\ UNCHANGED <<taskVars, runVars, loopVars, timeoutVars, frameVars>>
-----------------------------------------------------------------------------
NeverScheduled == [callback |-> Null, priorityLevel |-> NormalPriority,
                   startTime |-> 0, expirationTime |-> 0, sortIndex |-> 0]

Init ==
  /\ now = 0
  /\ task = [t \in TaskIds |-> NeverScheduled]
  /\ taskIdCounter = 1
  /\ taskQueue = {} /\ timerQueue = {}
  /\ currentTask = NoTask /\ currentPriorityLevel = NormalPriority
  /\ isPerformingWork = FALSE /\ pc = "idle"
  /\ isHostCallbackScheduled = FALSE /\ isHostTimeoutScheduled = FALSE
  /\ isMessageLoopRunning = FALSE /\ taskTimeoutID = NoTimeout
  /\ frameStart = -1 /\ frameInterval \in FrameIntervals
  /\ messages = 0 /\ timeouts = {}

Application ==
  \/ \E p \in Priorities : ScheduleCallback(p)
  \/ \E p \in Priorities, delay \in Delays : ScheduleDelayedCallback(p, delay)
  \/ \E t \in TaskIds : CancelCallback(t)
  \/ ContinueExecution
  \/ \E interval \in FrameIntervals : ForceFrameRate(interval)

Host ==
  \/ PerformWorkUntilDeadline
  \/ \E timeout \in timeouts : HandleTimeout(timeout)

WorkLoop ==
  \/ \E t \in TaskIds : Yield(t) \/ DropCancelledTask(t) \/ StartTask(t)
  \/ WorkLoopEnds

CallbackReturns == CallbackCompletes \/ CallbackContinues \/ CallbackThrows

Next == Application \/ Host \/ WorkLoop \/ CallbackReturns \/ Tick

Spec == Init /\ [][Next]_vars

(* The event loop delivers messages and due timeouts; workLoop is ordinary *)
(* code and ends; a callback returns, and does not ask to be continued for *)
(* ever; the clock does not stop.                                          *)
Fairness ==
  /\ WF_vars(PerformWorkUntilDeadline)
  /\ WF_vars(\E timeout \in timeouts : HandleTimeout(timeout))
  /\ WF_vars(WorkLoop)
  /\ WF_vars(CallbackReturns)
  /\ SF_vars(CallbackCompletes)
  /\ SF_vars(Tick)

FairSpec == Spec /\ Fairness

-----------------------------------------------------------------------------
(* Type correctness of the module-level variables of Scheduler.js.         *)
TypeOK ==
  /\ now \in Nat
  /\ task \in [TaskIds -> Task]
  /\ taskIdCounter \in 1..(MaxTasks + 1)
  /\ taskQueue \subseteq 1..(taskIdCounter - 1)
  /\ timerQueue \subseteq 1..(taskIdCounter - 1)
  /\ currentTask \in TaskIds \cup {NoTask}
  /\ currentPriorityLevel \in 1..5
  /\ isPerformingWork \in BOOLEAN
  /\ isHostCallbackScheduled \in BOOLEAN
  /\ isHostTimeoutScheduled \in BOOLEAN
  /\ isMessageLoopRunning \in BOOLEAN
  /\ taskTimeoutID \in Nat
  /\ frameStart \in Nat \cup {-1}
  /\ frameInterval \in FrameIntervals
  /\ messages \in Nat
  /\ timeouts \subseteq Timeout /\ IsFiniteSet(timeouts)
  /\ pc \in {"idle", "loop", "running"}

Live(t) == task[t].callback = Fn

(* No wakeup is lost for ready tasks: whenever the Scheduler is off the    *)
(* stack with a non-empty task queue - after a yield, a continuation, a    *)
(* throw, a timeout - a message is on its way.  And never two: the message *)
(* loop is not started twice (requestHostCallback, performWorkUntilDeadline)*)
ReadyTasksHaveMessage ==
  /\ ~isPerformingWork /\ taskQueue # {} => messages = 1
  /\ messages = IF isMessageLoopRunning /\ ~isPerformingWork THEN 1 ELSE 0

(* No wakeup is lost for delayed tasks: with the message loop stopped,     *)
(* some live timeout fires no later than each queued timer starts, even    *)
(* though the Scheduler forgets timeouts it never cancels (handleTimeout   *)
(* and workLoop request one without setting isHostTimeoutScheduled) and    *)
(* cancels whichever it remembers.                                         *)
TimersHaveTimeout ==
  ~isMessageLoopRunning =>
    \A t \in timerQueue : \E timeout \in timeouts :
      timeout.due <= task[t].startTime

(* A live task is in exactly one heap, under that heap's key.  What could  *)
(* break it: popping the head after a callback that pushed a more urgent   *)
(* task, or dropping a timer while moving it between the heaps.            *)
LiveTasksAreQueued ==
  /\ taskQueue \cap timerQueue = {}
  /\ \A t \in TaskIds : Live(t) => t \in taskQueue \cup timerQueue
  /\ \A t \in taskQueue : task[t].sortIndex = task[t].expirationTime
  /\ \A t \in timerQueue : task[t].sortIndex = task[t].startTime

(* Once the callback of a task that is not on the stack is null - the task *)
(* was cancelled, or ran - it never becomes callable again.                *)
CancelledStaysCancelled ==
  [][\A t \in 1..(taskIdCounter - 1) :
       ~Live(t) /\ ~(pc = "running" /\ t = currentTask) => ~Live(t)']_vars

MoreUrgent(t, u) ==
  \/ task[t].expirationTime < task[u].expirationTime
  \/ task[t].expirationTime = task[u].expirationTime /\ t < u

(* workLoop starts the most urgent of all live tasks whose delay is over,  *)
(* in whichever heap they are, those that became due while the previous    *)
(* callback ran included; ties go to the task scheduled first.             *)
MostUrgentFirst ==
  [][\A t \in TaskIds :
       pc = "loop" /\ pc' = "running" /\ currentTask' = t =>
         \A u \in TaskIds \ {t} :
           Live(u) /\ task[u].startTime <= now => MoreUrgent(t, u)]_vars

(* Every scheduled task surfaces: it leaves the heaps, having run or       *)
(* having been found cancelled.  Cancelled timers buried under pending     *)
(* ones, tasks that threw and tasks overtaken in their own callback too.   *)
EveryTaskSurfaces ==
  \A t \in TaskIds :
    t \in taskQueue \cup timerQueue ~> t \notin taskQueue \cup timerQueue

-----------------------------------------------------------------------------
(* What the Scheduler promises its callers: TaskService, with a task       *)
(* waiting while its callback field holds a function.                      *)
StatusOf(t) == CASE t >= taskIdCounter -> "absent"
                 [] pc = "running" /\ currentTask = t -> "running"
                 [] ~(pc = "running" /\ currentTask = t) /\ t < taskIdCounter
                      -> IF Live(t) THEN "waiting" ELSE "over"

Service == INSTANCE TaskService WITH
             Tasks <- TaskIds,
             status <- [t \in TaskIds |-> StatusOf(t)],
             notBefore <- [t \in TaskIds |-> task[t].startTime]

(* The Scheduler implements the service, fairness included.                *)
ImplementsTaskService == Service!FairSpec
=============================================================================
