# A verification development for React 19: reconciler, Scheduler, streaming server

This directory holds TLA+ models of the parts of React 19 (`src/react/v19.0.0`)
that decide *when* and *in what order* work is done: the cooperative task
scheduler, its priority heap, the lanes, the update queues of class and function
components with optimistic updates and async actions, the reconciler's work loop
and its root scheduler, and the streaming server renderer (Fizz). TLC checks the
models on small instances; TLAPS proves theorems about each of them, but for the
arithmetic of the lanes, for every value of their constants.

The repository also holds React 18.3.1, several small demonstrations and the
packages around the reconciler. What the models cover, and what they do not, is
listed below, component by component, and with the source paths in
`PROJECT.json`.

Paths below are relative to `src/react/v19.0.0/`.

## 1. The system

React turns *updates* (`setState`, `root.render`, transitions, retries of
suspended boundaries) into a new tree on the screen. JavaScript runs to
completion, so there are no threads; what makes the system concurrent is that
the reconciler gives the stack back in the middle of its own work (a render
yields, waits for a promise, waits for the host before it commits) and that
events, microtasks, timers and promise listeners then run over its half-done
state. All of that state is module variables and fields of long-lived records.

```
 events, layout effects, popstate          promises            host timers
        |                                      |                    |
        v                                      v                    v
 update queues / concurrentQueues      ping, continue, retry   throttled or
        |  scheduleUpdateOnFiber               |              host-ready commit
        v                                      v                    |
   Lanes: a root's pending, suspended, pinged, expired, entangled   |
        |                                                           |
        v                                                           |
 Root scheduler: list of roots, microtask ---- flushSync            |
        | scheduleCallback / cancelCallback        |                |
        v                                          v                v
 Scheduler (task heap, timer heap) --------> Work loop: render, exit, commit
        ^
        | one message or timeout at a time
      host
```

On the server there is neither Scheduler nor work loop: Fizz has tasks of its own,
pinged by the promises they wait for, and sends what they have rendered whenever the
destination takes it.

```
 promises --ping--> performWork --> tasks: finished, failed, suspended, aborted
                                        |  counters, abort sets
 pipe, drain, close, abort              v
        |               completedBoundaries, partialBoundaries, clientRendered...
        +----------------> flushCompletedQueues --> destination --> client
```

### 1.1 Components that are modelled

**Task scheduler** (`scheduler/src/forks/Scheduler.js`).
State: `taskQueue` and `timerQueue` (heaps), `currentTask`, the flags
`isHostCallbackScheduled`, `isHostTimeoutScheduled`, `isPerformingWork`,
`isMessageLoopRunning`, `taskTimeoutID`, `startTime`, `frameInterval`.
Operations: `unstable_scheduleCallback`, `unstable_cancelCallback`,
`unstable_continueExecution`, `forceFrameRate`, and, called by the host,
`performWorkUntilDeadline` and `handleTimeout`.
Hard: a callback may schedule, cancel, throw or return a continuation while
`workLoop` holds a reference to its task; three flags say whether a message or a
timeout is on its way and each is set and reset in several functions.
Correct when: no queued task is left without a wakeup, the most urgent due task
runs first, a cancelled task never runs, nothing is dropped.

**Task heap** (`scheduler/src/SchedulerMinHeap.js`). State: an array.
Operations: `push`, `pop`, `peek`. Correct when every `pop` returns a least
node and loses none.

**Class update queue** (`react-reconciler/src/ReactFiberClassUpdateQueue.js`,
`ReactFiberConcurrentUpdates.js`). State: the base queue of the current and of
the work-in-progress fiber, `shared.pending`, `shared.lanes`, the stash
`concurrentQueues`, the lanes marked on the fibers. Operations: `enqueueUpdate`,
`finishQueueingConcurrentUpdates`, `entangleTransitions`, `cloneUpdateQueue`,
`processUpdateQueue`, `commitCallbacks`. Hard: updates are skipped by priority
and rebased later; a render that has taken the pending updates may be abandoned;
updates arrive between any two steps of a render. Correct when the state reached
is that of applying all updates in the order of their `setState` calls, and no
update is lost, undone or called back twice.

**Lanes** (`react-reconciler/src/ReactFiberLane.js`). State: seven bit sets and
two arrays by lane in each root. Operations: `getNextLanes`,
`getEntangledLanes`, `markStarvedLanesAsExpired`, `markRootUpdated`,
`markRootSuspended`, `markRootPinged`, `markRootFinished`,
`upgradePendingLaneToSync`, `getLanesToRetrySynchronouslyOnError`. Correct when
work that is pending is chosen sooner or later, and what is recorded of a lane
does not outlive the work it was recorded for.

**Work loop** (`react-reconciler/src/ReactFiberWorkLoop.js`, with the parts of
`ReactFiberThrow.js`, `ReactFiberThenable.js`, `ReactFiberSuspenseContext.js`,
`ReactFiberCommitWork.js` and `ReactFiberRoot.js` it relies on). State: the
module variables `workInProgress*`, `globalMostRecentFallbackTime`, and of each
root `finishedWork`, `finishedLanes`, `timeoutHandle`, `cancelPendingCommit`,
`pingCache`. Operations: `scheduleUpdateOnFiber`,
`performConcurrentWorkOnRoot`, `performSyncWorkOnRoot`, the two render loops,
`handleThrow`, `throwAndUnwindWorkLoop`, `recoverFromConcurrentError`,
`finishConcurrentRender`, `commitRoot`, `pingSuspendedRoot`,
`retryTimedOutBoundary`, `flushSync`. Hard: everything in it is about what may
happen between two entries.

**Root scheduler** (`react-reconciler/src/ReactFiberRootScheduler.js`). State:
the list of scheduled roots, `didScheduleMicrotask`, `mightHavePendingSyncWork`,
`isFlushingWork`, `currentEventTransitionLane`, and of each root `callbackNode`
and `callbackPriority`. Operations: `ensureRootIsScheduled`,
`flushSyncWorkOnAllRoots`, `processRootScheduleInMicrotask`,
`scheduleTaskForRootDuringMicrotask`, `getContinuationForRoot`,
`requestTransitionLane`. Correct when a root with work has a callback of the
right priority, and synchronous work is done by the end of the microtask.

**Hook update queues** (`react-reconciler/src/ReactFiberHooks.js`): `useState` and
`useOptimistic` of a function component. State: of each hook `memoizedState`,
`baseState`, `baseQueue`, and of its queue `pending`, `lanes` and
`lastRenderedState`. Operations: `dispatchSetState`, `dispatchOptimisticSetState`,
`updateReducerImpl`, `updateOptimisticImpl`, `bailoutHooks`. Hard: a state may be
computed eagerly, before any render, and an update that changes nothing is never
scheduled; an optimistic update is applied in one lane and reverted in another; a
render that meets an update of an unfinished async action must suspend. Correct
when the screen shows the updates of the rendered lanes in the order of the calls
with the optimistic ones on top, and in the end all of the former and none of the
latter.

**Async action scopes** (`react-reconciler/src/ReactFiberAsyncAction.js`,
`react/src/ReactStartTransition.js`). State: `currentEntangledLane`,
`currentEntangledPendingCount`, `currentEntangledListeners`. Operations:
`entangleAsyncAction`, `pingEngtangledActionScope`. Correct when overlapping
actions end together and wake every render that waited for them.

**Fizz** (`react-server/src/ReactFizzServer.js`,
`react-dom/src/server/ReactDOMFizzServerNode.js`). State: a request's counters of
tasks, its abort sets, its queues of boundaries, and the segments and Suspense
boundaries with theirs. Operations: `performWork` and all it calls,
`flushCompletedQueues` and all it calls, `pipe`, drain and close of the
destination, `abort`. Hard: three counters on every way a task can end; a task decides
at its end what is queued, the flush later decides what is sent, and between the two
boundaries complete, fail or are sent by other means; the destination may refuse in
the middle of a queue; callbacks of the program call back. Correct when counters
agree with tasks, each instruction to the client comes once and after what it is
about, and what is shown is complete when the stream is closed.

### 1.2 Components that are not modelled

| Component | Why |
|---|---|
| External stores (`useSyncExternalStore`) | planned; the work loop has only their effect, a torn tree rendered again |
| Action queues (`useActionState`), thenables | planned |
| Passive effects | planned; the work loop's commits have layout effects only |
| Flight server and client, event replaying, `act` queue | planned: state machines of their own |
| Child reconciliation (`ReactChildFiber.js`) | planned as a pure algorithm |
| Begin, complete and unwind phases, commit's host mutations, hydration cursor, contexts | sequential traversals of the fiber tree; the models' trees are flat |
| Renderer entry points, `react` package, host configurations, other renderers | construction of records, dispatch, writes to the DOM |
| Scheduler forks for tests and native hosts, `react-cache`, fast refresh, shims, developer tools, lint rules, test utilities, React 18.3.1, demonstrations | other programs, or another version of the same one |

Some hazards of the planned components are already in `PROJECT.json`, each at
its line, with a note that no property covers it yet. Others, to be taken up with
their components: the counter of shell suspensions that a commit must reset
(`ReactFiberThenable.js:174`), `placeChild`'s comparison with the last placed index
(`ReactChildFiber.js:489`), chained actions that settle synchronously
(`ReactFiberHooks.js:2094`), Flight's abort while a task renders
(`ReactFlightServer.js:3568`), cyclic models (`ReactFlightClient.js:502`), and the
act queue after a callback has thrown (`ReactAct.js:342`).

## 2. The modules

| Module | What it is | Run by |
|---|---|---|
| `Scheduler` | the Scheduler, one action per entry point and per step between two callbacks | `MCScheduler` |
| `TaskService` | what the Scheduler promises its callers | property of `Scheduler` |
| `SchedulerProofs` | its safety properties as theorems; `Scheduler` implements the safety part of `TaskService` | TLAPS |
| `MinHeap` | the array heap, one loop iteration per step | itself |
| `PriorityQueue` | a set from which the least element can be taken | property of `MinHeap` |
| `MinHeapProofs` | heap order and refinement as theorems | TLAPS |
| `ClassUpdateQueue` | the queue of one class component | `MCClassUpdateQueue` |
| `UpdateLog` | what a queue promises its component | property of `ClassUpdateQueue` |
| `ClassUpdateQueueProofs` | the queue's safety properties as theorems; `ClassUpdateQueue` implements `UpdateLog` | TLAPS |
| `Lanes` | the operators of `ReactFiberLane.js` on a root's record | through `WorkLoop` |
| `WorkLoop` | work loop and root scheduler, over `Lanes` | `MCWorkLoop` |
| `LaneProofs` | lemmas about the operators of `Lanes`, for both modules that extend it | TLAPS |
| `WorkLoopProofs` | the types; updates, fallbacks, unwound trees and transitions in the work loop; synchronous work is flushed, tasks are as urgent as the work, every root that wants a task has one, suspended work is woken up | TLAPS |
| `AsyncAction` | the operators of `ReactFiberAsyncAction.js` on the scope's record | through `HookQueue` |
| `HookQueue` | `useState` and `useOptimistic` of one component, over `Lanes` and `AsyncAction` | `MCHookQueue` |
| `OptimisticLog` | what the two hooks promise their component | property of `HookQueue` |
| `HookQueueProofs` | the types; the updates of an action wait for its end | TLAPS |
| `HookScreenProofs` | `HookQueue` implements `OptimisticLog` and forgets no update | TLAPS |
| `FizzTasks` | a request of the streaming server renderer | itself |
| `FizzProofs` | the types; tasks are counted, and the program is told once | TLAPS |

`Scheduler` uses for its two heaps what `MinHeap` is shown to implement: a set
and its least element. `WorkLoop` extends `Lanes`, and takes from the Scheduler
that a live task may be run at any time and that a task that returned a
continuation stays live after a yield to the host. `ClassUpdateQueue` takes from
the work loop only that any pending lanes may be rendered, abandoned and
committed. `HookQueue` is nearer to it: it extends `Lanes` as `WorkLoop` does, and
`GetNextLanes` chooses what it renders, since suspension on an async action and the
ping at its end only mean something on a root's suspended and pinged lanes.
`FizzTasks` stands alone, as the server does.

### 2.1 How states and actions correspond to the code

*Scheduler.* The variables have the names of the code's, except `messages` (the
host's queue of message events, which the code does not count), `timeouts` (the
host's live timeouts, remembered or not) and `pc`: `idle` when the host has the
stack, `loop` at the head of `workLoop`'s iterations, `running` in a task's
callback. A callback may do everything a caller may (`ScheduleCallback`,
`CancelCallback`, …) before it ends in `CallbackCompletes`,
`CallbackContinues` or `CallbackThrows`. `advanceTimers` is an operator
applied wherever the code calls it. Time advances while the host or a callback
runs, not inside the Scheduler's own code.

*MinHeap.* `push` and `pop` start a sift; each iteration of `siftUp` and
`siftDown` is one step, so `HeapOrdered` says what holds between calls and the
refinement what a whole call does. The heap is a sequence; `At(i)` is the code's
`heap[i]`.

*ClassUpdateQueue.* Updates are numbered in the order of the `setState` calls and
a state is the sequence of the updates applied to the initial state; every
reducer's result is a function of that sequence. `processUpdateQueue` is one step
per update, so its loop invariants are invariants of the module. Events come
whenever the work loop is off the stack (`pc # "processing"`).

*Lanes.* A bit mask is the set of its bit indexes. Expiration times are `none`,
`later` or `reached`.

*WorkLoop.* A root's tree is flat: each update has a component of its own, which
renders, throws, or suspends in a new boundary, in a boundary that shows content,
or in none. `wip` is the record of the `workInProgress*` variables, `task` the
frame of `performConcurrentWorkOnRoot`, `attempt` the arguments of the render it
is executing and how far its exit has been treated, `listeners` the promise
listeners of each update's data with what they close over, `ready` those whose
microtask is due. `dangling` is history: the roots whose `callbackNode` is a task that
has run, has found no lanes and has left it as it was. A task has the least number that no live task, root or frame on the
stack holds (`FreshNode`), as an object's identity, and lanes are claimed in two cycles
(`claimNextTransitionLane`, `claimNextRetryLane`). `pc`
says where the code on the stack is; it is `idle` between macrotasks, between
microtasks, and while a render has yielded. Every action is a piece of code that
runs without giving up the stack or calling code of the program. A commit is
split at its layout effects, which may update, and at `onRecoverableError`,
which may throw.

*HookQueue.* Updates are numbered in the order of the calls; an update adds its
number to the state, keeps the state, or resets it, so that eager states and
bailouts on an unchanged state both occur. A render is three steps: its start with
`prepareFreshStack`, the component (`RenderComponent`, or `BailOut` if it has no
work), and completion with the commit. `EventsRun` says when code of the page runs
between them. `pc`, `inTransition` and `microtask` are the control state; `log`,
`status`, `seen` and `inScope` are history. Lanes 7 and 8 are all the transition lanes
there are (`LastTransitionLane`), so that they are claimed again as early as by the
third transition.

*FizzTasks.* The request is one record, and the functions of the code are operators
from a request to a request. They call each other recursively and call the program's
callbacks, which may pipe and so flush; so what a function is still to do after a call is
data, in `request.calls`: a stack of calls in the order in which they are made, each an
operation with a segment or a boundary (`Call`). A function puts its calls in front of
those that were to be made before (`Calling`), `Make` makes one, a loop puts back what is
left of it, a thrown error skips calls up to the one that catches it (`MakeNext`), and
`Becomes` makes calls until none is left. That is one step: an action is what runs
between two points at which something else can happen. One segment of the task on the
stack is entered, suspends, ends or throws; a promise settles; the destination drains or
closes. A task has the number of its segment. What the client has received is
`request.document`: the placeholders, hidden segments, boundaries marked as loading,
and what has been settled.

Two points of the code that the model made explicit and that are easy to
overlook:

- A `popstate` event upgrades the event's transition on *every* scheduled root,
  also on one that has no work at that lane (`processRootScheduleInMicrotask`).
- A render suspended on data keeps its root out of all scheduling. If a retry or
  a ping leaves the suspended stack in place, even a synchronous update already
  pending on that root waits for the data. `WorkIsScheduledUnlessDangling` and
  `SyncWorkIsFlushedUnlessThrown` therefore leave out roots that wait (`Waits`).

### 2.2 What the models leave out

*Scheduler:* `runWithPriority`, `next` and `wrapCallback` (dynamic scoping of a
variable), profiling events, `unstable_requestPaint`,
`unstable_pauseExecution`'s debugger support, the choice of the host's timer API.

*ClassUpdateQueue:* captured updates (errors), hidden trees' updates, updates from
reducers or during a render, updates that throw, async actions, mounting. The
queues are sequences: that the two fibers' linked lists share their tail is not
modelled.

*WorkLoop:* passive effects, hydration and its lanes, offscreen trees and
deferred lanes, nested trees (so no order of siblings inside a boundary), batches
(`executionContext` is the control state), `act`, profiling. The program's
components have one update each: entanglement of transitions of one queue is
checked in `ClassUpdateQueue` and only the entanglement by `popstate` here.
Priority levels of Scheduler tasks are not told apart: any live task may run.

*HookQueue:* reducers that change between renders, updates during a render, mounting,
hidden trees, effects, memoization and the other hooks; expiration and delayed
commits (they are `WorkLoop`'s); nested transitions; the promise that
`useTransition`'s pending state is chained to. `CurrentSpec`, which the run
`hook_queue` checks, leaves out one step of the code: the one that `hook_eager` shows
to lose an update (`AppliesToCurrentState`). Without that restriction
`ImplementsOptimisticLog` fails for the reason that the finding gives.

*FizzTasks:* prerendering, postponing and resuming (so replayed tasks), boundaries too
large to be inlined (`progressiveChunkSize`), resources and preloads and the flushes
they ask for, components and error callbacks that call `abort`, the markup itself.

## 3. Properties

### Scheduler
- `ReadyTasksHaveMessage`: off the stack with tasks queued, exactly one message
  is on its way; the message loop never runs twice.
- `TimersHaveTimeout`: with the message loop stopped, every queued timer has a live
  timeout that is due in time, although the Scheduler requests timeouts it does not
  remember and cancels whichever it does.
- `LiveTasksAreQueued`: a task with a callback is in exactly one heap, under that
  heap's key.
- `MostUrgentFirst`: the task started is the most urgent of all live tasks whose
  delay is over, whichever heap they are in.
- `CancelledStaysCancelled`: a callback set to null stays null, but for the
  continuation of the task on the stack. (A callback that cancels its own task and
  then returns a continuation revives it; `getContinuationForRoot` avoids that.)
- `EveryTaskSurfaces`: every task leaves the heaps in the end.
- `ImplementsTaskService`: the Scheduler refines `TaskService`: a task waits, runs
  after its delay and never while another runs, and is over or waits again.

### MinHeap
- `HeapOrdered`: between calls no node precedes its parent.
- `ImplementsPriorityQueue`: a pop removes the least node, a push adds one, a sift
  changes nothing.

### ClassUpdateQueue
- `UpdatesInOrder`: base state, base queue, pending updates and stash make up all
  updates, once each and in order, for the current fiber at any time and for the
  processed work-in-progress.
- `UpdateLanesArePending`: an update not on the screen has its lane pending on the
  root and marked on the fiber, so no render bails out of it.
- `TransitionsAreInSharedLanes`: a queued transition stays in `shared.lanes`, so all
  the queue's transitions render together, although each further transition intersects
  `shared.lanes` with the root's pending lanes.
- `CallbacksFireOnce`: a `setState` callback is called once, when its update is first
  shown.
- `ImplementsUpdateLog`: on the screen, updates are applied in order, what was
  applied stays applied, and a commit adds the updates of its lanes.
- `EveryUpdateIsShown`: every update is applied on the screen in the end.

### WorkLoop
- `UpdatesArePending`: an update neither shown nor behind a fallback is in a queue
  and its lane is pending.
- `FallbacksAreRetried`: a fallback on the screen has a listener on its data, or its
  retry is queued at a pending lane.
- `WorkIsScheduledUnlessDangling`: after the microtasks, a root with work that does not
  wait has a live task, unless its `callbackNode` is a task that has run and found no
  lanes. (`WorkIsScheduled`, without the exception, is what `work_loop_dangling`
  refutes.)
- `CallbackIsUrgentEnough`: the root's task is no less urgent than the work, also when
  the work has changed since.
- `SyncWorkIsFlushedUnlessThrown`: by the end of the microtasks synchronous work has
  been done, and before that `flushSync` would find it, unless a flush was left by an
  exception. (`SyncWorkIsFlushed`, without the exception, is what `work_loop_thrown`
  refutes.)
- `SuspendedWorkWakesUp`: a stack suspended on data has a listener that continues
  it; if all of a root's lanes are suspended, each has a listener or a commit is
  coming. Idle and retry lanes are left out, and host-delayed commits loosen it, see
  §6.
- `UnrecoveredTreesAreComplete`: a tree unwound for want of a boundary is not
  committed, unless its render was the second one after an error.
  (`CommittedTreesAreComplete`, without the exception, is what `work_loop_recovery`
  refutes.)
- `TransitionsKeepTheScreen`: a commit of transitions alone does not hide content
  behind a fallback.
- `EveryUpdateIsShown`: again and again all updates there are are on the screen.

### HookQueue
- `UpdatesArePending`: the lane that an update waits for, to be shown or to be
  dropped, is pending on the root, whatever was skipped, rebased or abandoned. The
  exception was learnt from TLC: a render that finds that updates change nothing takes
  their lanes off the component (`bailoutHooks`) even if it is then abandoned. So an
  update without a pending lane is one of updates that, if they were all shown now,
  would leave the state as it is. They need not be the next in the log: several renders,
  each of some of the lanes, can each find that theirs change nothing.
- `ImplementsOptimisticLog`: state and optimistic value on the screen are those of the
  updates of the lanes committed so far, in the order of the calls, with the optimistic
  ones on top until their transition commits.
- `ActionUpdatesWait`: while the actions of a scope are on, their updates to the state
  change nothing on the screen, nor does the reversal of an optimistic one of the
  scope's lane. (One made after an `await` has another lane, see §6.)
- `EverythingSettles`: in the end every update to the state is shown and every
  optimistic one dropped.
- `EagerStateIsCurrent`: what a comment of the code says; refuted, see §6.

### FizzTasks
- `TasksAreCounted`: the counters of all tasks, of the root's and of each boundary's
  agree with the tasks that can still end, however tasks have ended before.
- `AnnouncedOnce`: `onShellReady` comes once and before any output, `onAllReady` once
  and when no task is left.
- `ShownInstructionsFit`: the client gets no instruction twice, and none before what
  it is about.
- `CompleteWhenClosed`: when the stream is closed nothing that is shown is missing: no
  boundary is left loading, no placeholder empty.
- `OnlyKnownErrors`: the only internal errors are the two of §6 (`NoInternalError`,
  which excludes all of them, is refuted by `fizz_error`).
- `Finishes`: a request comes to its end.

The properties of `FizzTasks` leave out what lies in content that was given up or in
the fallback of a complete boundary (`Discarded`), and the boundaries that §6 shows to
be flushed twice (`FlushedTwice`).

## 4. Model-checking runs

| Run | Instance | Distinct states | Shows |
|---|---|---|---|
| `scheduler` | 3 tasks, two priorities, delay 1, times 0–2 | 228,971 | the safety properties, refinement of `TaskService` with its fairness, every task surfaces |
| `min_heap` | 6 pushes of 3 sort indexes | 18,157 | heap order, refinement |
| `class_queue` | 3 updates on two transition lanes | 16,905 | the safety properties, refinement of `UpdateLog`, every update is shown |
| `work_loop` | 2 updates in two environments: two roots, data in and out of boundaries, layout updates, popstate and commits that the host delays; one root, throwing components, torn stores, expiring lanes, idle updates and a throwing `onRecoverableError` | 738,314 | the safety properties |
| `work_loop_progress` | 1 root, 2 updates, data outside a boundary and over content | 10,935 | every update is shown |
| `hook_queue` | 3 updates, 2 async actions, 2 transition lanes | 340,288 | refinement of `OptimisticLog`, updates are pending, actions wait, everything settles |
| `fizz` | 2 boundaries and one more hole; `pipe` in either callback or at any time; destinations that take nothing, one item or all | 601,915 | the safety properties; every request ends |
| `work_loop_recovery`, `work_loop_dangling`, `work_loop_thrown`, `hook_eager`, `fizz_error` | the least instance that shows the finding | | §6 |

**Why the bounds are enough.** Three tasks make a heap with a head, a task it
overtakes and one behind a timer; a delay of 1 against times up to 2 lets timers
become due during, between and after callbacks; priorities beyond two change only
the expiration time, which the two already put before and after `now`. (The safety
properties were once checked with delays 0 to 2, times up to 3 and two frame
intervals: 755,798 states.) Six nodes give a heap of three levels with a last parent
that has one child. Three updates are the least in which one is skipped, one rebased
and one queued meanwhile. Both lanes of the class queue are transitions, so that one can
drop out of `shared.lanes` when the other is added; a lane of another kind is not
entangled and else treated alike, and any pending lanes may be rendered. (The safety
properties were once checked with a sync lane besides: 217,502 states.)

Two updates of the work loop, with the retries of both, are enough for one to suspend,
be interrupted, be thrown away and be rendered with the other. All the safety
properties of one root were once checked for three updates at sync and transition
priority that suspend in every way (6.5 million states, no host-delayed commits),
and `SuspendedWorkWakesUp` also with host-delayed commits for components that render
or suspend in a shell or without a boundary (1.3 million states): nothing more came
up. No root is in `dangling` in `work_loop`: that takes retries that claim the same
lane twice while a throttled commit is due, four retry lanes apart in the code.
`work_loop_dangling` has two retry lanes and four updates; with one retry lane and three
updates `WorkIsScheduledUnlessDangling` was once checked in the whole instance, in which
roots do dangle (39,333 states). Three transition and three retry lanes are claimed at
most in `work_loop`, so lanes are never claimed a second time there; in `HookQueue` and
in `work_loop_dangling` they are. The environment is a variable
that never changes: one run takes the union of them, each with the events that
make its own cases happen.

Three updates of the hooks make an optimistic update, the update of its transition,
and one more before, between or after them. Two boundaries of Fizz are siblings, nested
in content, or nested in a fallback; with one hole more, which any segment may have,
there is a segment that completes before or after its boundary is sent. The safety
properties also hold with two such holes for a program that pipes in `onShellReady` to
a destination that takes nothing or all (6.7 million states, aborts included).

**Named bounds.** `MaxTasks`, `MaxTime`, `MaxTimeouts`, `MaxPushes`, `MaxUpdates`,
`MaxActions`, `LanesInUse`, `LastTransitionLane`, `LastRetryLane`, `MaxBoundaries`,
`MaxHoles`, `MaxCalls`. All but the last are only in guards of inputs (`NewTask`, `Tick`, `ContinueExecution`,
the dispatches, `EnterBoundary`, ...), so that the code itself is not stopped in the
middle; `LastTransitionLane` is 21 and `LastRetryLane` 25 in the code, and smaller in
the runs, so that the cycle of lanes closes (in `hook_queue` and `work_loop_dangling`)
or the lanes are few (in `work_loop`). `MaxCalls` bounds the calls of one step of Fizz, which are part of a finite
function: a step that needs more is not taken, and 30 is more than any step of `fizz`
needs. The proofs are for any values.

**Views and symmetry.** `RelevantState` of `MCWorkLoop` leaves out what is dead, the
work-in-progress fields outside a render. It is used in runs of safety properties only,
like the symmetry of the two roots (`RootsAreAlike`): no operator and no property
tells one root from the other.

**Deadlock.** `CHECK_DEADLOCK FALSE` is set where the bounded system really stops:
all updates are made and shown, all nodes pushed and popped, the request ended. The
Scheduler's run checks for deadlock: a client can always set the frame rate.

**Fairness.** *Scheduler:* the event loop delivers messages and due timeouts, the
Scheduler's own code ends, callbacks return (weak fairness); a callback does not ask
to be continued for ever and the clock goes on (strong fairness, since both are
disabled in between). *ClassUpdateQueue:* the loop runs (weak); for each pending lane
a render with it starts, passes the component, completes and commits if this is
possible again and again (strong): choosing lanes and yielding is the work loop's
part, and it is there that it is checked. *WorkLoop:* code on the stack runs on
(weak); the microtask is not postponed for ever by `flushSync`, a render does not
yield for ever before it has rendered a component (the Scheduler gives it a frame
each time), tasks run, delayed commits are due, data loads (strong, as events
disable them in between). *HookQueue:* the microtask and the root's task run although
events keep coming (strong, for the same reason), the function given to
`startTransition` returns, the promises of actions settle. *FizzTasks:* code on the
stack runs on and scheduled work starts; data settles; a component does not suspend for
ever; the program pipes, and a destination that has refused output drains. Without
the last two nothing would be sent and the code promises nothing. These are weak and
strong fairness with the guards written out in place of `ENABLED`, which TLC would
evaluate at great cost.

Each property of a passing run has a mutant in `PROJECT.json`: a definition next to
the one it changes, commented `Mutant`, with which TLC finds the property violated.

## 5. What is proved

`SchedulerProofs` (for every `MaxTasks`, `MaxTime`, set of priorities, delays and
frame intervals, and priority timeouts; assumptions `BoundsAssumption`,
`InputsAssumption`, `TimeoutsAssumption`): `TypeOK`, `ReadyTasksHaveMessage`,
`TimersHaveTimeout`, `LiveTasksAreQueued` are invariants, `MostUrgentFirst` and
`CancelledStaysCancelled` hold of every step.

The invariants are inductive together with `ControlOK`, which ties the flags to the
control state: work is being performed exactly when the Scheduler is on the stack,
and then the message loop is running and no host callback is scheduled; the task on
the stack is in `taskQueue` with a null callback; in the loop, no live timer is due.
The first part is what makes `requestHostCallback` post one message and no second;
the last, which `advanceTimers` establishes before each pass, makes the head of
`taskQueue` the most urgent of *all* due tasks. The lemmas say of each helper what
it keeps: `PeekIsLeast` (the order is total, so the head exists and is strictly
least), `FreshHandleIsFresh`, `AdvanceTimersMoves`. The hard case of
`TimersHaveTimeout` is `unstable_scheduleCallback` with a new earliest timer: it
cancels the remembered timeout and requests one for itself, which is earlier than
all the timers the cancelled one may have been for.

`MinHeapProofs` (for every set of integer sort indexes and number of pushes;
assumptions `SortIndexesAssumption`, `MaxPushesAssumption`): `TypeOK`,
`HeapOrdered`, and that `MinHeap` implements `PriorityQueue`.

`HeapOrdered` speaks of the time between calls, so the inductive invariant adds
`SiftOrdered`: during a sift only the pair of the moving node and its parent
(`siftUp`) or its children (`siftDown`) may be out of order, and its children are in
order with its parent; with `NodesDistinct`, the order is total. `RootIsLeast` is an
induction along the parents, done by taking a least counterexample. A swap permutes
the nodes (`SwapPermutes`), so a sift is a stutter of the queue.

`ClassUpdateQueueProofs` (for every set of lanes, of transition lanes among them, and
number of updates; assumptions `LanesAssumption`, `MaxUpdatesAssumption`): `TypeOK`,
`UpdatesInOrder`, `UpdateLanesArePending` and `TransitionsAreInSharedLanes` are
invariants.

None of the three safety properties is inductive, because each speaks of the screen or
of a finished render, while the updates travel: from the stash to `pending`, from there
to the base queue of *both* fibers, through `processUpdateQueue`'s loop one by one, and
with the commit to the screen. `OrderInv` therefore says of either fiber that base
state, base queue, pending updates and stash, in this order, are all the updates
(`Whole`), and in the middle of the loop that what is done (`Done`), the rest, the
pending updates and the stash are. `LanesInv` follows the lanes on the same way: a
queued or skipped update has its lane on the fiber and the root (`QueuedInv`,
`FiberInv`), an update skipped by the loop has left its lane in `newLanes`
(`LoopInv`), and the lanes of a finished render are what `markRootFinished` will keep
(`WipInv`, `RemainingLanes`). That an update that arrives during a render marks both
fibers is what makes the commit's `remainingLanes` right. The lemmas before the proof
are about sequences: ids of a concatenation, appending, the head of the rest.

There too: `ClassUpdateQueue` implements `UpdateLog`, with
the state on the screen as `shown`. The steps of the queue are a `Queue` or a `Commit` of
the log, or change neither log nor screen; what has to be found are the lanes and the
point in the log of `Commit`, which are known when the render begins and not when it
commits. The invariant `ScreenInv`, over `OrderInv` and `LanesInv`, carries them along: an
entry of a queue has lost its lane exactly if its update is on the screen (`Matches`: this
is how rebasing keeps what is shown); the loop has applied, of the updates that it has
passed, those that are shown or in the render's lanes, in their order (`LoopScreen`); so a
finished render has added the updates of its lanes among the first so many, and nothing
else (`WipScreen`).

And `CallbacksFireOnce` is an invariant. Rebasing takes an
update's lane and its callback together, so by `Matches` an entry has its callback exactly
as long as it is not on the screen, and a render collects those of the updates that it adds
(`Collected`): `commitCallbacks` calls no callback again, and the sequences, having no
repetitions and the same elements, have the same length.

`WorkLoopProofs` (for any finite set of roots, lanes in use, number of updates and environments; assumptions
`RootsAssumption`, `LanesAssumption`, `MaxUpdatesAssumption`,
`EnvironmentsAssumption`) prove all the invariants of `work_loop`, two of them under a
hypothesis, and its action property. Only `Next` is used, never fairness.

*Types and control.* `TypeInv` is `TypeOK` in the form that can be kept by a step
(`DataType`) and `FrameInv`, what is on the stack: a render is the attempt's, on the
attempt's lanes; a concurrent attempt has its own root's task below it; an attempt has
lanes. The lemmas of `LaneProofs` say what the operators of `Lanes` return: `NextLanes` is a
set of pending lanes, empty only without candidates; the sync lane is next if and only if
it is a candidate; each `MarkRoot...` keeps the record's type.

*No update is lost* (`UpdatesArePending`, `FallbacksAreRetried`). As with the class
queue, the two speak of the screen, and updates get there by way of a tree that may be
suspended, thrown away or rendered again. `QueueInv` adds: the items that a tree has
taken from the queues are those it renders or hides (`TreesInv`); whatever is queued has
a pending lane, and an update is queued until it or its fallback is on the screen
(`PendInv`); a fallback has a retry listener or a retry in a queue (`RetryInv`). The
hard step is the commit: `RemainingLanes` must include those of updates that came
between the end of the render and the commit, and the lanes of skipped items.

*`UnrecoveredTreesAreComplete`.* `CompleteInv` follows `DidNotComplete` from the unwound
stack through the exit of the attempt; the only exit that loses it is the one that
`work_loop_recovery` finds.

*`TransitionsKeepTheScreen`.* `NestInv` says that suspended lanes are pending and pinged
ones suspended, that the lanes of a render and of a finished tree are pending, and that a
root is not rendered while its commit is delayed; `OwnInv` that a tree holds updates of
its root; `ScreenInv` that a tree which hides content of the screen exits in a way that
delays or drops it, and that the tree of a delayed commit hides nothing or is no
transition's. `NestInv` needs that `prepareFreshStack` cancels the delayed commit of its
root.

*`SyncWorkIsFlushedUnlessThrown`.* `SyncInv`: a root that owes synchronous work (next
lanes with `SyncLane`, waiting for neither data nor host, not the root on the stack) is in
the list, with the flag `mightHavePendingSyncWork` set and a microtask or a flush to
come, unless an exception has left `isFlushingWork` set, and then for ever. The proof
sorts the steps by what they do to a root: they ensure that it is scheduled, leave its
work alone, or end with `flushSyncWorkAcrossRoots_impl`, which has visited all roots.

*`CallbackIsUrgentEnough`.* `UrgentInv`: a callback has a priority at least as urgent as
the next lanes, or the microtask will look at its root. A root's next lanes become more
urgent only where `ensureRootIsScheduled` is called, with one exception: the timer of a
throttled commit suspends the commit's lanes and calls nothing. `ThrottledInv` says why
that is harmless to priority: these lanes are retries, and suspending them opens no lane
that was not a candidate before (`Spared`).

*`WorkIsScheduledUnlessDangling`*. The argument is that of `SyncInv`, with a callback in
place of the flush: `NodeInv` (a callback is a live task or the one on the stack, or its
root is in `dangling`), `TaskInv` (the root of the task on the stack has this callback or
none, and none during a flush or a commit) and `WorkInv` (a root that wants a task has a
callback, or is on the stack, or will be processed). Without the history variable `NodeInv`
is false, and so is the property: when a root's own task finds no lanes,
`performConcurrentWorkOnRoot` returns without looking at `root.callbackNode`
(`ReactFiberWorkLoop.js:902`), see section 6. `WorkLoopCallbacksHaveLanes` narrows the
exception: when microtasks have run, a root with a task has lanes for it, unless the
host delays a commit that a timer makes. The case left is a root's own task that the
Scheduler starts in the macrotask of another one.

*`SuspendedWorkWakesUp`*, for constants with `NoIdleUpdates`: where the host may delay
commits, events do not schedule idle updates. Every environment of the runs satisfies it;
section 6 says what goes wrong without. `PingInv`: a render that may have to suspend has
attached the ping listener for its lanes, which still listens, or has been pinged.
`DataInv`: a stack suspended on data has the listener that continues it. From these,
`WakeInv`: if the host does not delay commits, each lane that is suspended and not
pinged has a listener. If it does, that is false (section 6, the cancelled commit), and
what remains is `AliveInv`: a root with pending lanes has one to render, a delayed commit,
or a suspended lane that data will ping; `NoIdleInv` keeps the lanes non-idle.

The strengthened invariants were checked by TLC before they were proved, on the states of
`work_loop` and, where it matters, on an instance with one root and three updates.

`SchedulerProofs` also proves `SchedulerImplementsService`: without its fairness, every
behaviour of the Scheduler is one of `TaskService`. One more invariant is needed,
`QueuedTasksAreDue`: tasks in `taskQueue` have started. A delayed task gets there by
`advanceTimers` only, so `TaskService`'s `Start` is never early.

`HookQueueProofs` (for every set of event lanes, last transition lane, kinds of updates,
number of updates and of actions; assumptions `EventLanesAssumption`,
`TransitionAssumption`, `KindsAssumption`, `BoundsAssumption`): `TypeOK` is an invariant,
and `ActionUpdatesWait` holds of every step, also of those that `hook_queue` leaves out
because of what `hook_eager` finds.

A queue is processed within one step here, by a recursive function over its prefixes.
`FoldExists` shows that such a function has a value at each prefix, each from the one
before; what holds of every prefix is then proved by taking a least counterexample
(`InductionUpTo`). Two facts about the loop of `updateReducerImpl` are what the rest uses
(`ProcessQueueEntries`): an update outside of the render's lanes stays in the queue, an
optimistic one that is shown stays there without its lane; and if an update of the open
scope's lane was shown, or reverted, the result says so.

`ActionUpdatesWait` speaks of a commit; whether the value changed was decided when the
component was rendered, and updates come in between. `WaitInv` carries it along.
`ReadInv` is the decision: after the component has been rendered, if an update of the open
scope would be shown or reverted by the commit, the new value is the one on the screen,
since the component has otherwise suspended. To use it, an update that the render has seen
must be in the queue that it processes. That is `HoldInv` (every update that is not done
has an entry, in the current queue and, if it will not be done after the commit, in the new
one) with `OrderInv` (what came since the render started is in `concurrentQueues` and
nothing else is). `ScopeInv`: the updates made in a scope have its lane, which it takes over
from the event's transitions. `SyncInv` and `LanesInv`: an optimistic update that is queued
has its sync lane pending on root and component, a render is for the lanes of events or for
those of transitions, and the former neither suspends nor lets an event come in between. So
a render that suspends on a scope, of which the root keeps the screen, has not taken an
optimistic update that waits to be shown.

`HookScreenProofs` (the same constants and assumptions): `HookQueue` implements
`OptimisticLog`, for the behaviours of `EmptyQueueSpec`, in which every step is one of
`Next` and satisfies `EagerWhenEmpty`: a state is computed eagerly only when every update
to the state has been shown. That is the code's own condition, "The queue is currently
empty, which means we can eagerly compute the next state" (`ReactFiberHooks.js:3457`), and
the step of `hook_eager` is one where the code breaks it; without some such hypothesis
the theorem is false. `hook_queue` checks the refinement under `CurrentSpec`, whose
condition is on the values and leaves out fewer steps: with updates in the queue that
come to nothing it lets a state be computed. The theorem says nothing of those.

As for `UpdateLog`, the difficulty is that a `Commit` of the log speaks of statuses and
values that are the work of several renders, and that the queue has three places
(`concurrentQueues`, `pending`, and the base queues of two fibers). `ScreenInv` says of the
fiber on the screen with `status`, and of the finished render with the statuses that its
commit will give (`RenderStatuses`), that it `Shows` the log: an entry has lost its lane
exactly if its update is shown (`Matches`: what rebasing keeps); the entries of the base
queue, of `pending` and of `concurrentQueues` are in the order of the calls (`InOrder`);
the base state is that of the first so many updates to the state, all of them shown, and
every later one is still in a queue (`Based`); and the two values are the log's (`Values`).
Over that, an eager state is what the reducer makes of the updates before (`Eager`), so
that taking it (`Result`) or calling the reducer is the same; what the render has not seen
is not shown yet (`Unseen`), but for updates that change nothing; and `lastRenderedState`
is the value on the screen once no queued update has a lane (`LastInv`).

A render is one pass of `ProcessQueue` over each queue. `Progress` is its loop invariant,
again by a least counterexample over the prefixes: base state and base queue so far are
`Based` up to the update reached, and the state so far is that of the updates shown after
the commit. Updates between two entries of the queue are the other hook's, or optimistic
ones that are dropped, and leave the state so far alone (`ProgressSkips`). The events
are a `Dispatch` of the log or leave log and screen alone; a render that suspends merges
the queues of the hooks it has processed and changes no value; a commit is a `Commit` of
`renderLanes`. That `Commit` needs the statuses of the log and not of the component: a
skipped component has, by `HoldInv`, no entry with a lane of the render.
`EagerStateIsCurrent`, which `hook_eager` refutes for the code, holds under the same
hypothesis.

*No update is forgotten* (`UpdatesArePending`), under the same hypothesis. A queue does
not know the root's lanes, and the component's own are what a bailout takes away, so
`AwaitInv` says of each what it holds: the lanes of the component and of the updates in
`concurrentQueues` are pending on the root (`RootAwaits`); the lane of a queued state
update is one of those, unless the update `ChangesNothing`, and so is the revert lane of an
optimistic update that is shown (`FiberAwaits`); and a finished render has kept the lanes
of whatever waits after its commit, without exception (`RenderAwaits`). The step that
matters is a render that finds the values unchanged and bails out. It takes its lanes off
the component before anything is committed, but every update that loses its lane is one
that the render has seen and would have shown; by `ScreenInv` the render's state is that of
the log with those shown, so they are the updates that together change nothing. A commit
of a render of the component ends the exception, by `RenderAwaits`, and one that skipped
it changes none of its updates. In an earlier form of the property the updates that change
nothing were all those up to some point of the log. It held in every instance TLC had
finished and resisted the proof; an instance of ten updates, in which two abandoned renders
take off different lanes, refutes it, and the property was restated.

`ScreenInv` and `AwaitInv` were checked by TLC before they were proved.

`FizzProofs` (for any numbers of boundaries and holes, any sizes of what a destination
takes, any place of `pipe`, and steps of any number of calls; assumptions
`BoundsAssumption`, `RoomsAssumption`): `TypeOK`, `TasksAreCounted` and `AnnouncedOnce` are
invariants.

Why this needs more than the counters: the three properties hold between two steps, and
inside a step nearly everything is half done. A boundary completes and goes through its
fallback's tasks; each of these completes another boundary, and so on; the last one
calls `onAllReady`, where the program pipes, which flushes; and abort does the same
through contents. So `QInv` is about a request *and the calls that remain*, and what is
proved of each kind of call is that making it keeps `QInv` (`MakeNextKeeps`; `FinishContent`
ends in a call that no other step makes and has its own version, `ContentStep`). A step then
keeps it by induction on the number of calls made, by a least counterexample
(`BecomesIn`). The parts of `QInv`:

- `Sound`: types; what is numbered exists; children are in the content of their parent's
  boundary.
- `Counts`: a boundary's counter is the number of its live tasks; the counter of all tasks
  also counts the calls `oneTaskLess` that are still to be made, as the code decrements
  `allPendingTasks` after everything else. Both are exact for an open request; for one that
  has failed fatally only a bound is kept, since the root's tasks are not counted off then.
- `Told`: each callback has been called exactly if its counter is zero. So `AnnouncedOnce`
  is a question of counting after all: no counter that is zero is decremented again, which
  is what the bound is for.
- `Cursors`: what `forEach` over an abort set has passed is done, what is ahead of it is
  pending. So no task ends twice, although a set is emptied only after the loop and the
  calls within the loop may end tasks themselves.
- `Ranked` and `Nested`: why no loop comes to a set that is being gone through already.
  Boundaries have ranks such that a task's abort set has a lower rank than the boundary it
  blocks; each loop within a loop is over a set of higher rank. The ranks exist because
  boundaries are entered one in another; `EnterBoundary` puts the new one right above the
  abort set of the task (`NewRank`).
- `Homes`: a task is in its own abort set and in no other.
- `Roots`: while the root has tasks, nothing has been sent, no flush is on its way, and of
  the root's segments only the first can become that of the request: "There can only be one
  root segment" is never thrown.
- `Caughts`: what is thrown is caught by the flush's caller, and between the two no task
  ends; so skipping calls loses no `oneTaskLess`.

Between steps `IInv` adds what the program's position is worth: the segments on the
stack are contents one in the other, each with a fallback that is not a task yet
(`Rendering`, `Content`), and a task that waits or is pinged is live unless it is done
(`Waiting`), which is what makes `retryTask` of a task that was aborted meanwhile harmless.

Most of the code leaves all this alone: all of a flush only `Sends` (it makes calls of a
flush and changes nothing that counts), and what queues segments and boundaries only
`Alters`. The ways in which a task ends, the loops over abort sets and the actions that
make tasks or boundaries need proofs of their own.

**Only model-checked.** *Liveness* (`EveryTaskSurfaces`, `EveryUpdateIsShown`,
`EverythingSettles`, `Finishes`, and the fairness that `ImplementsTaskService` includes):
it rests on fairness and `ENABLED`, which the prover does not reason about. *`HookQueue`*:
`UpdatesArePending` and `ImplementsOptimisticLog` in the steps of `CurrentSpec` that
compute a state eagerly with updates in the queue. *`FizzTasks`*: `ShownInstructionsFit`,
`CompleteWhenClosed` and `OnlyKnownErrors`. They speak of what has been sent, so their
inductive invariant has to say of the tree of segments, of the client's document and of
the order of the three queues what `QInv` says of the tasks, with the exceptions of §6
(`Discarded`, `FlushedTwice`) in each part; that has not been done.

## 6. What the runs show of the code

Five runs end in a violation, of a statement that the code makes of itself.

1. `work_loop_recovery`. A component throws in a concurrent render; the
   synchronous retry takes in *all* pending lanes, also a transition that suspends
   outside any boundary. That retry is unwound (`RootDidNotComplete`), but because it
   attached a ping listener `recoverFromConcurrentError` returns
   `RootSuspendedWithDelay` (`ReactFiberWorkLoop.js:1056`), and the unwound tree is
   committed unless all its lanes are transitions. `UnrecoveredTreesAreComplete`
   in `work_loop` says that this is the only way.
2. `work_loop_dangling`. Retries have been rendered and their commit is throttled, with a
   timer. Another retry claims a lane that is among them and makes it pending again (four
   boundaries later in the code, two in the run), and the root gets a task. Now the timer
   finds that the host delays the commit: it suspends the commit's lanes and schedules
   nothing. The root's task finds no lanes, "Defensive coding. This is never expected to
   happen." (`ReactFiberWorkLoop.js:902`), and leaves `root.callbackNode` and
   `callbackPriority` as they are. Then an update cancels the delayed commit, is flushed
   synchronously and suspends at the root. The retries are next, their priority is that
   of `callbackPriority`, and `scheduleTaskForRootDuringMicrotask` takes the dead task for
   one it can reuse (`ReactFiberRootScheduler.js:346`): the retries wait for the next
   update, against `WorkIsScheduled`. TLC has met one more way into `dangling`, with two
   roots and four updates: in the task of another root, a layout effect updates the root
   synchronously; the update throws, its recovery renders all the lanes of the root and
   suspends them; and the Scheduler starts the root's task in the same macrotask, before
   microtasks run. `WorkIsScheduledUnlessDangling` in `work_loop` says that a dangling
   `callbackNode` is the only way.
3. `work_loop_thrown`. `flushSyncWorkAcrossRoots_impl` sets `isFlushingWork` without
   `try`/`finally`. If `root.onRecoverableError` throws from a commit in the flush,
   the flag stays set and synchronous updates are never flushed again.
4. `hook_eager`. `bailoutHooks` removes the rendered lanes from the *current* fiber
   (`:914`), also those with which an update that arrived during the render has just
   marked it: the lane of an async action's scope, or a transition lane claimed again.
   The other fiber's lanes are empty since `beginWork` has begun it. So
   `dispatchSetState` computes an eager state from a state that lacks the queued
   update, "the queue is currently empty" (`:3457`) notwithstanding, and the queued
   update is lost from the result.
5. `fizz_error`. A boundary has been sent with its fallback; a late segment of its
   content is complete and waits in `completedSegments`; in that segment is the fallback
   of a nested, client-rendered boundary, which fails. `erroredTask` gives up the outer
   boundary and leaves it in `partialBoundaries`; the flush sends the segment, meets the
   failed one and throws "Aborted, errored or already flushed boundaries should not be
   flushed again. This is a bug in React." (`ReactFizzServer.js:4023`). The whole stream
   ends because of an error within a boundary.

Met on the way, and not kept as runs:

- `getContinuationForRoot` compares `root.callbackNode` with what it was when the task
  started. A task that `commitRoot` has forgotten (`root.callbackNode = null` without a
  cancellation) is continued beside the root's new task, or, null being equal to null,
  again and again while the root waits (`ReactFiberRootScheduler.js:399`).
- An idle update that arrives while the host delays a commit cancels it and leaves its
  lanes suspended, since `markRootUpdated` clears suspended lanes for other lanes
  only (`ReactFiberWorkLoop.js:728`, `ReactFiberLane.js`). The lanes wait for the next
  update that is not idle.
- A throttled retry commit whose timer `prepareFreshStack` cancels may be left with
  neither timer nor listener until something else updates the root
  (`ReactFiberWorkLoop.js:1637`). `SuspendedWorkWakesUp` leaves idle and retry lanes
  out for these two.
- With three updates, other lanes may wait longer than they need: `flushSync` renders a
  lane that has been pinged on a root whose commit the host delays,
  `prepareFreshStack` cancels that commit, and the render suspends again. No update
  has cleared the suspended lanes, so those of the cancelled commit wait for the other
  lane's data. `HasWakeUp` says so: where the host may delay commits, a lane may wait
  for another that has a listener.
- A task that `commitRoot` forgot may run and find no lanes, too. That is harmless, since
  it is not the root's own.
- `dispatchOptimisticSetState` takes the lane in which an optimistic update is reverted
  from `requestTransitionLane` (`ReactFiberHooks.js:3554`), which does not know the open
  scope of async actions (only `requestUpdateLane` asks for it). An optimistic update made
  after an `await` gets a lane of its own and is reverted as soon as that lane is
  rendered, although the action goes on; the comment at `:3520` says it is associated with
  the action. `ActionUpdatesWait` therefore speaks of the optimistic updates of the scope's
  lane only.
- `processUpdateQueue` never resets `shared.lanes` (`ReactFiberClassUpdateQueue.js:800`):
  the reset for an empty base queue is inside the branch for a non-empty one. It costs
  entanglement that is not needed, no update.
- `onResolution` of `renderRootConcurrent` checks the suspended reason and the root, not
  the thenable: a stack suspended again on other data is resumed early, and suspends
  again.
- A nested boundary of Fizz whose suspended fallback has been sent as a placeholder is
  flushed a second time when the fallback's segment completes (`ReactFizzServer.js:4080`
  gives it another `rootSegmentID` and marks it again, and its later reveal names a
  container that was never sent), or it is inlined as complete (`:4125`) and leaves a
  placeholder unfilled. With two holes the flush may throw "A previously unvisited
  boundary must have exactly one root segment. This is a bug in React."
- A boundary in the fallback of a boundary that is already revealed gets a completion
  instruction whose content was never sent; the client's `completeBoundary` finds null.
- A boundary whose content failed leaves the task of its suspended fallback only in its
  own `fallbackAbortableTasks`, which `abort()` never visits (`ReactFizzServer.js:4531`):
  the request stays open until that data settles.

## 7. Plan

Done: the Scheduler with `TaskService` and its proofs; the heap with `PriorityQueue`
and its proofs; `ClassUpdateQueue` with `UpdateLog` and proofs of all its safety
properties and of the refinement; `Lanes` and `WorkLoop` with proofs of all safety
properties that hold; `HookQueue` with `AsyncAction` and `OptimisticLog`, and proofs of its
types, of `ActionUpdatesWait`, of `UpdatesArePending` and of the refinement; `FizzTasks`
with proofs of its types, counters and announcements.

To do, most important first:

1. Proofs: the invariants of `FizzTasks` about what is sent.
2. `PassiveEffects` with `rootWithPendingPassiveEffects`; `ExternalStore`
   (`useSyncExternalStore` against concurrent renders), which needs both.
3. `ActionQueue` (`useActionState`), over `AsyncAction`.
4. `FlightClient`: chunks, against "every waiter is called once".
5. `EventReplaying`; `ActQueue`; `ChildReconciliation` as a pure algorithm against
   "applying the placements and deletions gives the new list"; the lanes' bit
   arithmetic against the sets of `Lanes`.
6. `WorkLoop` composed with `Scheduler`: the root's task in its heap.
