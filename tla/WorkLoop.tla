------------------------------ MODULE WorkLoop ------------------------------
(***************************************************************************)
(* The work loop of the reconciler and its root scheduler:                 *)
(* ReactFiberWorkLoop.js and ReactFiberRootScheduler.js, over the lanes of *)
(* Lanes.  Updates are scheduled on roots; renders may yield, be           *)
(* interrupted, suspend on data, throw, restart, have their commit         *)
(* delayed; data resolves and timers fire in between.                      *)
(*                                                                         *)
(* A root's tree is flat.  Each update is known by its number and has a    *)
(* component of its own, rendered in the order of the numbers, with one of *)
(* the contents                                                            *)
(*   "plain"   renders at once                                             *)
(*   "inner"   reads data inside a Suspense boundary that the update mounts*)
(*   "shell"   reads data inside a boundary whose content is visible       *)
(*   "root"    reads data outside any boundary                             *)
(*   "error"   may throw, inside an error boundary                         *)
(* A work item [id, lane] is an update or a retry in its component's queue.*)
(*                                                                         *)
(* JavaScript runs to completion.  The control state pc is "idle" when the *)
(* stack is empty; otherwise it says where the code on the stack is:       *)
(* "render", "exit" (the render has an exit status), "layout" (effects of  *)
(* a commit), "flush" (flushSyncWorkAcrossRoots), "end" (of the task),     *)
(* "scheduler" (the Scheduler's loop, between two tasks).                  *)
(***************************************************************************)
EXTENDS Lanes, Sequences, SequencesExt

CONSTANTS
  Roots, NoRoot,
  LanesInUse,             \* the lanes of an instance
  LastTransitionLane,     \* TransitionLane15 in the code
  LastRetryLane,          \* RetryLane4 in the code
  MaxUpdates,             \* bound: updates ever scheduled
  Environments            \* what the program and the host may do

(* Lanes are claimed in turn from the first to the last of their kind.     *)
ClaimedLanes == (7..LastTransitionLane) \cup (22..LastRetryLane)

ASSUME RootsAssumption == NoRoot \notin Roots
ASSUME LanesAssumption ==
  /\ LastTransitionLane \in TransitionLanes /\ LastRetryLane \in RetryLanes
  /\ {SyncLane} \cup ClaimedLanes \subseteq LanesInUse
  /\ LanesInUse \subseteq SyncLane..IdleLane
ASSUME MaxUpdatesAssumption == MaxUpdates \in Nat

(* The lanes of an event's priority; a transition lane asks for a claim.   *)
EventLanes == {SyncLane, InputContinuousLane, DefaultLane, IdleLane}
                \cup TransitionLanes

(* roots: those that are updated.  layoutUpdates: layout effects schedule  *)
(* updates.  errorsThrow: root.onRecoverableError throws.                  *)
Environment ==
  [roots : SUBSET Roots, eventLanes : SUBSET (LanesInUse \cap EventLanes),
   layoutUpdates : BOOLEAN,
   contents : SUBSET {"plain", "inner", "shell", "root", "error"},
   popState : BOOLEAN, timeOuts : BOOLEAN, suspendsCommits : BOOLEAN,
   storesTear : BOOLEAN, errorsThrow : BOOLEAN]

ASSUME EnvironmentsAssumption == \A e \in Environments : e \in Environment

VARIABLES
  environment,            \* one of Environments, for ever
  updates,                \* history: [root, lane, content] of each update
  resolved,               \* updates whose data has loaded
  shown, fallbacks,       \* updates on the screen, or their boundary's fallback
  work,                   \* items in the fibers' queues
  concurrentQueues,       \* items that are not yet in them
  root,                   \* the lanes of each root
  wip,                    \* the module variables workInProgress*
  finished,               \* root.finishedWork, root.finishedLanes
  pendingCommit,          \* root.timeoutHandle, root.cancelPendingCommit
  listeners, ready,       \* on each update's data; those whose microtask is due
  recentFallback,         \* globalMostRecentFallbackTime is recent
  schedule,               \* the roots in the list of firstScheduledRoot
  didScheduleMicrotask, mightHavePendingSyncWork, isFlushingWork,
  callbackNode, callbackPriority,
  tasks,                  \* the live Scheduler tasks of each root
  dangling,               \* history: roots whose callbackNode ran in vain
  currentEventTransitionLane, nextTransitionLane, nextRetryLane,
  pc,
  task,                   \* performConcurrentWorkOnRoot's frame, or NoTask
  attempt                 \* the perform*WorkOnRoot frame being executed

screenVars == <<environment, updates, resolved, shown, fallbacks>>
queueVars == <<work, concurrentQueues>>
commitVars == <<finished, pendingCommit>>
listenerVars == <<listeners, ready, recentFallback>>
flagVars == <<schedule, didScheduleMicrotask, mightHavePendingSyncWork>>
callbackVars == <<callbackNode, callbackPriority, tasks, dangling>>
claimVars == <<currentEventTransitionLane, nextTransitionLane, nextRetryLane>>
frameVars == <<pc, task, attempt>>
vars == <<screenVars, queueVars, root, wip, commitVars, listenerVars, flagVars,
          isFlushingWork, callbackVars, claimVars, frameVars>>

-----------------------------------------------------------------------------
UpdateIds == 1..MaxUpdates
NoLane == 99
NoTask == [root |-> NoRoot, node |-> 0, original |-> 0]
NoTree == [lanes |-> {}, rendered |-> {}, hidden |-> {}, done |-> {},
           complete |-> TRUE, recovered |-> FALSE]

RootOf(id) == updates[id].root
LanesOf(items) == {i.lane : i \in items}
WorkOf(r) == {i \in work : RootOf(i.id) = r}

(* use(), the data not being there yet.                                    *)
Suspends(id) ==
  updates[id].content \in {"inner", "shell", "root"} /\ id \notin resolved

(* getShellBoundary() === null: what the screen shows would be hidden.     *)
InShell(id) ==
  \/ updates[id].content = "root"
  \/ updates[id].content = "shell" /\ id \notin fallbacks

InitialRoot ==
  [pendingLanes |-> {}, suspendedLanes |-> {}, pingedLanes |-> {},
   expiredLanes |-> {}, entangledLanes |-> {}, errorRecoveryDisabledLanes |-> {},
   entanglements |-> [l \in LanesInUse |-> {}],
   expirationTimes |-> [l \in LanesInUse |-> "none"]]

NextLanes(r) ==
  GetNextLanes(root[r], IF wip.root = r THEN wip.lanes ELSE {})

SuspendedOnData(r) == wip.root = r /\ wip.reason = "Data"

(* markRootSuspended of the work loop: pinged and updated lanes are not.   *)
Suspend(rec, lanes) ==
  MarkRootSuspended(rec, lanes \ (wip.pinged \cup wip.interleaved))

(* Mutants: a root that is in the list is not scheduled again; the flag of *)
(* flushSync's fast path is not set.                                       *)
EnsureRootIsScheduledOnce(r) ==
  /\ schedule' = schedule \cup {r}
  /\ mightHavePendingSyncWork' = (mightHavePendingSyncWork \/ r \notin schedule)
  /\ didScheduleMicrotask' = (didScheduleMicrotask \/ r \notin schedule)

EnsureRootIsScheduledWithoutFlag(r) ==
  /\ schedule' = schedule \cup {r}
  /\ didScheduleMicrotask' = TRUE
  /\ UNCHANGED mightHavePendingSyncWork

(* The root joins the list; a microtask will process the list.             *)
EnsureRootIsScheduled(r) ==
  /\ schedule' = schedule \cup {r}
  /\ mightHavePendingSyncWork' = TRUE
  /\ didScheduleMicrotask' = TRUE

(* A macrotask has run, its microtasks too.                                *)
Quiescent == pc = "idle" /\ ready = <<>> /\ ~didScheduleMicrotask

(* The Scheduler may run several tasks in a macrotask.                     *)
SchedulerRuns == Quiescent \/ pc = "scheduler"

-----------------------------------------------------------------------------
FinishQueueing(queues) ==
  /\ work' = work \cup queues
  /\ concurrentQueues' = {}

FreshStack(r, lanes, items) ==
  [root |-> r, lanes |-> lanes,
   entangled |-> GetEntangledLanes(root[r], lanes),
   todo |-> IF lanes = {} THEN {} ELSE {i \in items : RootOf(i.id) = r},
   rendered |-> {}, hidden |-> {}, done |-> {},
   reason |-> "NotSuspended", exit |-> "InProgress",
   skipped |-> {}, interleaved |-> {}, pinged |-> {},
   didAttachPing |-> FALSE, complete |-> TRUE]

(* Whatever was being rendered is thrown away, a delayed commit is         *)
(* cancelled.                                                              *)
PrepareFreshStack(r, lanes) ==
  /\ wip' = FreshStack(r, lanes, work \cup concurrentQueues)
  /\ finished' = [finished EXCEPT ![r] = NoTree]
  /\ pendingCommit' = [pendingCommit EXCEPT ![r] = "no"]
  /\ FinishQueueing(concurrentQueues)

-----------------------------------------------------------------------------
(* scheduleUpdateOnFiber, after the enqueue.  A render suspended on data,  *)
(* or a commit suspended on the host, is thrown away.  (Its lanes are not  *)
(* marked as suspended: the fresh stack has no lanes.)                     *)
ScheduleUpdateOnFiber(r, lane, item) ==
  LET restart == SuspendedOnData(r) \/ pendingCommit[r] = "host"
      queues == concurrentQueues \cup {item}
      updated == MarkRootUpdated(root[r], lane)
      interrupted == wip.root = r /\ ~restart
      now == [wip EXCEPT !.interleaved = @ \cup {lane}]
  IN  /\ IF restart
           THEN /\ wip' = [FreshStack(r, {}, {}) EXCEPT !.interleaved = {lane}]
                /\ finished' = [finished EXCEPT ![r] = NoTree]
                /\ pendingCommit' = [pendingCommit EXCEPT ![r] = "no"]
                /\ FinishQueueing(queues)
           ELSE /\ wip' = IF interrupted THEN now ELSE wip
                /\ concurrentQueues' = queues
                /\ UNCHANGED <<finished, pendingCommit, work>>
      /\ root' = [root EXCEPT ![r] =
           IF interrupted /\ wip.exit = "SuspendedWithDelay"
           THEN MarkRootSuspended(updated,
                                  wip.lanes \ (wip.pinged \cup now.interleaved))
           ELSE updated]
      /\ EnsureRootIsScheduled(r)

(* requestTransitionLane: one lane for all the transitions of an event.    *)
RequestUpdateLane(eventLane, lane) ==
  IF eventLane \in TransitionLanes
  THEN IF currentEventTransitionLane = NoLane
       THEN /\ lane = nextTransitionLane
            /\ currentEventTransitionLane' = nextTransitionLane
            /\ nextTransitionLane' =
                 IF lane = LastTransitionLane THEN 7 ELSE lane + 1
       ELSE /\ lane = currentEventTransitionLane
            /\ UNCHANGED <<currentEventTransitionLane, nextTransitionLane>>
  ELSE /\ lane = eventLane
       /\ UNCHANGED <<currentEventTransitionLane, nextTransitionLane>>

Update(r, eventLane, content) ==
  /\ Len(updates) < MaxUpdates
  /\ \E lane \in LanesInUse :
       /\ RequestUpdateLane(eventLane, lane)
       /\ updates' = Append(updates,
                            [root |-> r, lane |-> lane, content |-> content])
       /\ ScheduleUpdateOnFiber(r, lane, [id |-> Len(updates) + 1, lane |-> lane])
  /\ UNCHANGED <<environment, resolved, shown, fallbacks, listenerVars,
                 isFlushingWork, callbackVars, nextRetryLane, frameVars>>

EventUpdate ==
  /\ pc = "idle" /\ ready = <<>>
  /\ \E r \in environment.roots, eventLane \in environment.eventLanes,
        content \in environment.contents :
       Update(r, eventLane, content)

(* setState in a layout effect.                                            *)
LayoutUpdate ==
  /\ pc = "layout" /\ environment.layoutUpdates
  /\ \E r \in environment.roots, content \in environment.contents :
       Update(r, SyncLane, content)

-----------------------------------------------------------------------------
(* A callbackNode dangles until the root gets another one, or none.        *)
KeepDangling == dangling' = {r \in dangling : callbackNode'[r] = callbackNode[r]}

(* The existing task will do.  Mutant: whatever its priority.              *)
ReusesAnyTask(r, priority) == callbackPriority[r] # NoLane
ReusesTask(r, priority) == priority = callbackPriority[r]

(* A task's node is a number, 0 is null.  A new task gets the least number *)
(* that is not in use.                                                     *)
FreshNode(r) ==
  LET used == tasks[r] \cup {callbackNode[r], task.node, task.original}
  IN  CHOOSE n \in 1..(Cardinality(used) + 1) :
        n \notin used /\ 1..(n - 1) \subseteq used

(* scheduleTaskForRootDuringMicrotask: the root's lanes with the starved   *)
(* ones marked, its callback and the live tasks.                           *)
ScheduleTask(r, rec) ==
  LET marked == MarkStarvedLanesAsExpired(rec)
      next == GetNextLanes(marked, IF wip.root = r THEN wip.lanes ELSE {})
      others == tasks[r] \ {callbackNode[r]}
      nothing == next = {} \/ SuspendedOnData(r) \/ pendingCommit[r] = "host"
      fresh == FreshNode(r)
      Result(priority, node, live) ==
        [root |-> marked, priority |-> priority, node |-> node, tasks |-> live]
  IN  CASE nothing -> Result(NoLane, 0, others)
        [] ~nothing /\ SyncLane \in next -> Result(SyncLane, 0, others)
        [] OTHER ->
             LET priority == HighestPriorityLane(next)
             IN  IF ReusesTask(r, priority)
                 THEN Result(callbackPriority[r], callbackNode[r], tasks[r])
                 ELSE Result(priority, fresh, others \cup {fresh})

(* flushSyncWorkAcrossRoots_impl, entered with an empty stack or at the    *)
(* end of a commit; else it returns to where pcAfter says.                 *)
FlushSyncWork(mightHave, pcAfter) ==
  IF isFlushingWork \/ ~mightHave
  THEN pc' = pcAfter /\ UNCHANGED isFlushingWork
  ELSE pc' = "flush" /\ isFlushingWork' = TRUE

(* processRootScheduleInMicrotask.  During a popstate event the event's    *)
(* transition is made synchronous, on every scheduled root.                *)
ProcessRootSchedule ==
  /\ pc = "idle" /\ ready = <<>> /\ didScheduleMicrotask
  /\ \E isPopState \in IF environment.popState THEN BOOLEAN ELSE {FALSE} :
       LET Upgraded(r) ==
             IF isPopState /\ currentEventTransitionLane # NoLane
             THEN UpgradePendingLaneToSync(root[r], currentEventTransitionLane)
             ELSE root[r]
           result == [r \in schedule |-> ScheduleTask(r, Upgraded(r))]
           Set(f, field) ==
             [r \in Roots |-> IF r \in schedule THEN result[r][field] ELSE f[r]]
       IN  /\ root' = Set(root, "root")
           /\ callbackNode' = Set(callbackNode, "node")
           /\ callbackPriority' = Set(callbackPriority, "priority")
           /\ tasks' = Set(tasks, "tasks")
           /\ schedule' = {r \in schedule : result[r].priority # NoLane}
           /\ mightHavePendingSyncWork' =
                (\E r \in schedule : result[r].priority = SyncLane)
  /\ KeepDangling
  /\ didScheduleMicrotask' = FALSE
  /\ currentEventTransitionLane' = NoLane
  /\ FlushSyncWork(mightHavePendingSyncWork', "idle")
  /\ UNCHANGED <<screenVars, queueVars, wip, commitVars, listenerVars,
                 nextTransitionLane, nextRetryLane, task, attempt>>

(* flushSync, its callback's updates having been scheduled.                *)
FlushSync ==
  /\ pc = "idle" /\ ready = <<>> /\ mightHavePendingSyncWork
  /\ FlushSyncWork(mightHavePendingSyncWork, "idle")
  /\ UNCHANGED <<screenVars, queueVars, root, wip, commitVars, listenerVars,
                 flagVars, callbackVars, claimVars, task, attempt>>

-----------------------------------------------------------------------------
(* renderRootSync or renderRootConcurrent, up to the work loop: a stack    *)
(* for the same root and lanes is continued.                               *)
RenderRoot(r, lanes) ==
  /\ IF wip.root = r /\ wip.lanes = lanes
       THEN UNCHANGED <<wip, finished, pendingCommit, queueVars>>
       ELSE PrepareFreshStack(r, lanes)
  /\ pc' = "render"

NoAttempt == [root |-> NoRoot, lanes |-> {}, concurrent |-> FALSE,
              sync |-> FALSE, phase |-> "first", errored |-> {},
              recovered |-> FALSE]

Attempt(r, lanes, concurrent, sync) ==
  [NoAttempt EXCEPT !.root = r, !.lanes = lanes, !.concurrent = concurrent,
                    !.sync = sync]

(* performConcurrentWorkOnRoot up to the render: the Scheduler runs one of *)
(* its live tasks, which need not be root.callbackNode.                    *)
StartTask(r, node) ==
  /\ SchedulerRuns
  /\ tasks' = [tasks EXCEPT ![r] = @ \ {node}]
  /\ NextLanes(r) # {}
  /\ task' = [root |-> r, node |-> node, original |-> callbackNode[r]]
  /\ \E didTimeout \in IF environment.timeOuts THEN BOOLEAN ELSE {FALSE} :
       attempt' = Attempt(r, NextLanes(r),
                          /\ NextLanes(r) \cap SyncDefaultLanes = {}
                          /\ NextLanes(r) \cap root[r].expiredLanes = {}
                          /\ ~didTimeout, FALSE)
  /\ RenderRoot(r, NextLanes(r))
  /\ UNCHANGED <<screenVars, root, listenerVars, flagVars, isFlushingWork,
                 callbackNode, callbackPriority, dangling, claimVars>>

(* The code's "Defensive coding": it returns without ensureRootIsScheduled *)
(* and leaves callbackNode as it is, the root's own task or not.           *)
StartTaskWithoutLanes(r, node) ==
  /\ SchedulerRuns
  /\ tasks' = [tasks EXCEPT ![r] = @ \ {node}]
  /\ NextLanes(r) = {}
  /\ dangling' = IF node = callbackNode[r] THEN dangling \cup {r} ELSE dangling
  /\ pc' = "scheduler"
  /\ UNCHANGED <<screenVars, queueVars, root, wip, commitVars, listenerVars,
                 flagVars, isFlushingWork, callbackNode, callbackPriority,
                 claimVars, task, attempt>>

(* The Scheduler's loop yields to the host.                                *)
YieldToHost ==
  /\ pc = "scheduler"
  /\ pc' = "idle"
  /\ UNCHANGED <<screenVars, queueVars, root, wip, commitVars, listenerVars,
                 flagVars, isFlushingWork, callbackVars, claimVars, task,
                 attempt>>

(* performSyncWorkOnRoot up to the render, on any root with sync work.     *)
FlushRoot(r) ==
  /\ pc = "flush" /\ r \in schedule
  /\ SyncLane \in NextLanes(r)
  /\ attempt' = Attempt(r, NextLanes(r), FALSE, TRUE)
  /\ RenderRoot(r, NextLanes(r))
  /\ UNCHANGED <<screenVars, root, listenerVars, flagVars, isFlushingWork,
                 callbackVars, claimVars, task>>

FlushDone ==
  /\ pc = "flush"
  /\ \A r \in schedule : SyncLane \notin NextLanes(r)
  /\ isFlushingWork' = FALSE
  /\ pc' = IF task = NoTask THEN "idle" ELSE "end"
  /\ attempt' = NoAttempt
  /\ UNCHANGED <<screenVars, queueVars, root, wip, commitVars, listenerVars,
                 flagVars, callbackVars, claimVars, task>>

-----------------------------------------------------------------------------
(* The component being rendered: the next one with work in its queue.      *)
Unit == CHOOSE id \in {i.id : i \in wip.todo} :
          \A i \in wip.todo : id <= i.id

Rendering == pc = "render" /\ wip.reason = "NotSuspended" /\ wip.todo # {}

Included(id) == {i \in wip.todo : i.id = id /\ i.lane \in wip.entangled}
Rest(id) == {i \in wip.todo : i.id # id}

renderUnchanged == <<screenVars, queueVars, commitVars, flagVars,
                     isFlushingWork, callbackVars, claimVars, task, attempt,
                     recentFallback>>

(* bailoutOnAlreadyFinishedWork: markSkippedUpdateLanes.                   *)
SkipUnit ==
  /\ Rendering /\ Included(Unit) = {}
  /\ wip' = [wip EXCEPT
       !.skipped = @ \cup LanesOf({i \in wip.todo : i.id = Unit}),
       !.todo = Rest(Unit)]
  /\ UNCHANGED <<renderUnchanged, root, listeners, ready, pc>>

RenderUnit ==
  /\ Rendering /\ Included(Unit) # {} /\ ~Suspends(Unit)
  /\ wip' = [wip EXCEPT !.rendered = @ \cup {Unit},
                        !.done = @ \cup Included(Unit), !.todo = Rest(Unit)]
  /\ UNCHANGED <<renderUnchanged, root, listeners, ready, pc>>

(* An error boundary captures the error: renderDidError.                   *)
UnitThrows ==
  /\ Rendering /\ Included(Unit) # {} /\ updates[Unit].content = "error"
  /\ wip' = [wip EXCEPT
       !.rendered = @ \cup {Unit},
       !.done = @ \cup Included(Unit), !.todo = Rest(Unit),
       !.exit = IF @ = "SuspendedWithDelay" THEN @ ELSE "Errored"]
  /\ UNCHANGED <<renderUnchanged, root, listeners, ready, pc>>

NonIdle(lanes) == lanes \cap NonIdleLanes # {}

ShouldRemainOnPreviousScreen(id) ==
  \/ updates[id].content = "root"
  \/ wip.lanes \subseteq TransitionLanes /\ InShell(id)
  \/ wip.lanes \subseteq RetryLanes /\ ~InShell(id)

(* handleThrow of a SuspenseException.                                     *)
UnitSuspends ==
  /\ Rendering /\ Included(Unit) # {} /\ Suspends(Unit)
  /\ wip' = [wip EXCEPT !.reason =
       IF ShouldRemainOnPreviousScreen(Unit)
          /\ ~NonIdle(wip.skipped \cup wip.interleaved)
       THEN "Data" ELSE "Immediate"]
  /\ UNCHANGED <<renderUnchanged, root, listeners, ready, pc>>

(* The promise has resolved: replaySuspendedUnitOfWork.                    *)
Replay ==
  /\ pc = "render" /\ attempt.concurrent
  /\ wip.reason \in {"Data", "Ready"} /\ ~Suspends(Unit)
  /\ wip' = [wip EXCEPT !.reason = "NotSuspended"]
  /\ UNCHANGED <<renderUnchanged, root, listeners, ready, pc>>

(* wakeable.then(listener), unless it has been added before.               *)
Wakes(listener) == listener \in Range(listeners[listener.id]) \cup Range(ready)

Listen(listener) ==
  IF listener.id \in resolved
  THEN ready' = Append(ready, listener) /\ UNCHANGED listeners
  ELSE /\ listeners' = [listeners EXCEPT ![listener.id] = Append(@, listener)]
       /\ UNCHANGED ready

(* Mutant: one listener for a root and its data is enough.                 *)
AddOneListener(listener) ==
  IF \E l \in Range(listeners[listener.id]) \cup Range(ready) :
       l.id = listener.id /\ l.root = listener.root
  THEN UNCHANGED <<listeners, ready>>
  ELSE Listen(listener)

AddListener(listener) ==
  IF Wakes(listener) THEN UNCHANGED <<listeners, ready>> ELSE Listen(listener)

WaitForData ==
  /\ pc = "render" /\ attempt.concurrent
  /\ wip.reason = "Data" /\ Suspends(Unit)
  /\ AddListener([kind |-> "continue", id |-> Unit, root |-> wip.root,
                  lanes |-> {}])
  /\ pc' = "end"
  /\ UNCHANGED <<renderUnchanged, root, wip>>

(* SuspendedOnImmediate: a microtask may bring the data.                   *)
YieldToMicrotasks ==
  /\ pc = "render" /\ attempt.concurrent /\ wip.reason = "Immediate"
  /\ wip' = [wip EXCEPT !.reason = "Ready"]
  /\ pc' = "end"
  /\ UNCHANGED <<renderUnchanged, root, listeners, ready>>

(* The listener that pings the root for the lanes being rendered.          *)
PingListener(id) ==
  [kind |-> "ping", id |-> id, root |-> wip.root, lanes |-> wip.lanes]

(* Mutant: hiding what is on the screen counts as a new boundary's.        *)
SuspendedExitInShell(captured) ==
  CASE ~captured -> "DidNotComplete"
    [] captured /\ wip.exit = "InProgress" -> "Suspended"
    [] OTHER -> wip.exit

(* renderDidSuspendDelayIfPossible if what the screen shows would be       *)
(* hidden, renderDidSuspend for a new boundary.                            *)
SuspendedExit(captured) ==
  CASE ~captured -> "DidNotComplete"
    [] captured /\ InShell(Unit) -> "SuspendedWithDelay"
    [] captured /\ ~InShell(Unit) /\ Unit \notin fallbacks
         /\ wip.exit = "InProgress" -> "Suspended"
    [] OTHER -> wip.exit

(* throwAndUnwindWorkLoop, throwException: a fallback is rendered instead, *)
(* or, without a boundary, the whole tree is unwound.                      *)
Unwind ==
  /\ pc = "render"
  /\ IF attempt.concurrent THEN wip.reason = "Ready" /\ Suspends(Unit)
                           ELSE wip.reason # "NotSuspended"
  /\ LET ping == PingListener(Unit)
         captured == updates[Unit].content # "root"
     IN  /\ wip' = [wip EXCEPT
              !.reason = "NotSuspended",
              !.exit = SuspendedExit(captured),
              !.hidden = IF captured THEN @ \cup {Unit} ELSE @,
              !.done = IF captured THEN @ \cup Included(Unit) ELSE @,
              !.todo = IF captured THEN Rest(Unit) ELSE {},
              !.complete = captured,
              !.didAttachPing = @ \/ ~Wakes(ping)]
         /\ AddListener(ping)
         /\ root' = IF InShell(Unit) /\ NonIdle(wip.skipped \cup wip.interleaved)
                    THEN [root EXCEPT ![wip.root] = Suspend(@, wip.lanes)]
                    ELSE root
  /\ UNCHANGED <<renderUnchanged, pc>>

(* shouldYield().                                                          *)
Yield ==
  /\ Rendering /\ attempt.concurrent
  /\ pc' = "end"
  /\ UNCHANGED <<renderUnchanged, root, wip, listeners, ready>>

CompleteRender ==
  /\ pc = "render" /\ wip.reason = "NotSuspended" /\ wip.todo = {}
  /\ wip' = [wip EXCEPT !.root = NoRoot, !.lanes = {},
                        !.exit = IF @ = "InProgress" THEN "Completed" ELSE @]
  /\ FinishQueueing(concurrentQueues)
  /\ pc' = "exit"
  /\ UNCHANGED <<screenVars, root, commitVars, listenerVars, flagVars,
                 isFlushingWork, callbackVars, claimVars, task, attempt>>

-----------------------------------------------------------------------------
(* What performConcurrentWorkOnRoot and performSyncWorkOnRoot do with the  *)
(* exit status.  An external store may have changed during a render that   *)
(* yields: the tree is rendered again, synchronously.                      *)
RenderTornTree ==
  /\ pc = "exit" /\ environment.storesTear
  /\ attempt.concurrent /\ wip.exit # "DidNotComplete"
  /\ attempt' = [attempt EXCEPT !.concurrent = FALSE]
  /\ RenderRoot(attempt.root, attempt.lanes)
  /\ UNCHANGED <<screenVars, root, listenerVars, flagVars, isFlushingWork,
                 callbackVars, claimVars, task>>

ErrorRetryLanes ==
  IF wip.exit = "Errored" /\ attempt.phase = "first"
  THEN LanesToRetrySynchronouslyOnError(root[attempt.root], attempt.lanes)
  ELSE {}

(* recoverFromConcurrentError: one more render, of all the pending lanes.  *)
RetryAfterError ==
  /\ pc = "exit" /\ ErrorRetryLanes # {}
  /\ attempt' = [attempt EXCEPT !.lanes = ErrorRetryLanes,
                                !.concurrent = FALSE,
                                !.phase = "recovering",
                                !.errored = attempt.lanes]
  /\ RenderRoot(attempt.root, ErrorRetryLanes)
  /\ UNCHANGED <<screenVars, root, listenerVars, flagVars, isFlushingWork,
                 callbackVars, claimVars, task>>

Recovered == attempt.phase = "recovering" /\ wip.exit # "Errored"

(* The second render attached a ping listener: it is suspended whatever    *)
(* its exit status, and the lanes' errors are not retried again.           *)
SuspendRecovery ==
  /\ pc = "exit" /\ Recovered /\ wip.didAttachPing
  /\ root' = [root EXCEPT
       ![attempt.root].errorRecoveryDisabledLanes = @ \cup attempt.errored]
  /\ wip' = [wip EXCEPT !.interleaved = @ \cup attempt.errored,
                        !.exit = "SuspendedWithDelay"]
  /\ attempt' = [attempt EXCEPT !.phase = "suspended"]
  /\ UNCHANGED <<screenVars, queueVars, commitVars, listenerVars, flagVars,
                 isFlushingWork, callbackVars, claimVars, pc, task>>

(* The exit status is the last.                                            *)
Exits ==
  /\ pc = "exit"
  /\ ErrorRetryLanes = {}
  /\ ~(Recovered /\ wip.didAttachPing)

SuspendRoot ==
  root' = [root EXCEPT ![attempt.root] = Suspend(@, attempt.lanes)]

DidNotComplete ==
  /\ Exits /\ wip.exit = "DidNotComplete"
  /\ SuspendRoot
  /\ IF attempt.sync
       THEN EnsureRootIsScheduled(attempt.root) /\ pc' = "flush"
       ELSE UNCHANGED flagVars /\ pc' = "end"
  /\ UNCHANGED <<screenVars, queueVars, wip, commitVars, listenerVars,
                 isFlushingWork, callbackVars, claimVars, task, attempt>>

FinishedTree ==
  [lanes |-> attempt.lanes, rendered |-> wip.rendered, hidden |-> wip.hidden,
   done |-> wip.done, complete |-> wip.complete, recovered |-> Recovered]

(* Mutant: also a tree that was unwound.                                   *)
FinishesAnyConcurrent == Exits /\ ~attempt.sync

FinishesConcurrent ==
  Exits /\ ~attempt.sync /\ wip.exit # "DidNotComplete"

(* RootSuspendedWithDelay: the screen stays as it is, until a ping.        *)
SuspendsIndefinitely ==
  wip.exit = "SuspendedWithDelay" /\ attempt.lanes \subseteq TransitionLanes

Throttles ==
  ~SuspendsIndefinitely /\ attempt.lanes \subseteq RetryLanes /\ recentFallback

finishUnchanged == <<screenVars, queueVars, wip, listenerVars, flagVars,
                     isFlushingWork, callbackVars, claimVars, task, attempt>>

SuspendIndefinitely ==
  /\ FinishesConcurrent /\ SuspendsIndefinitely
  /\ finished' = [finished EXCEPT ![attempt.root] = FinishedTree]
  /\ SuspendRoot
  /\ pc' = "end"
  /\ UNCHANGED <<finishUnchanged, pendingCommit>>

(* Retries are committed a while after the last fallback.  If there is     *)
(* other work they are not, and no timer is set.                           *)
ThrottleRetries ==
  /\ FinishesConcurrent /\ Throttles
  /\ finished' = [finished EXCEPT ![attempt.root] = FinishedTree]
  /\ SuspendRoot
  /\ pendingCommit' =
       IF GetNextLanes(root'[attempt.root], {}) = {}
       THEN [pendingCommit EXCEPT ![attempt.root] = "throttled"]
       ELSE pendingCommit
  /\ pc' = "end"
  /\ UNCHANGED finishUnchanged

(* commitRootWhenReady: the host is not ready, e.g. loads a stylesheet.    *)
SuspendCommit ==
  /\ FinishesConcurrent /\ ~SuspendsIndefinitely /\ ~Throttles
  /\ environment.suspendsCommits
  /\ finished' = [finished EXCEPT ![attempt.root] = FinishedTree]
  /\ pendingCommit' = [pendingCommit EXCEPT ![attempt.root] = "host"]
  /\ SuspendRoot
  /\ pc' = "end"
  /\ UNCHANGED finishUnchanged

-----------------------------------------------------------------------------
(* attachSuspenseRetryListeners: the data may be there by now.  Mutant:    *)
(* then nothing is done.                                                   *)
RetryListener(id) ==
  [kind |-> "retry", id |-> id, root |-> RootOf(id), lanes |-> {}]

NewRetries(tree) == {id \in tree.hidden : ~Wakes(RetryListener(id))}

AttachNoLateRetryListeners(tree) ==
  /\ listeners' = [id \in UpdateIds |->
       IF id \in NewRetries(tree) \ resolved
       THEN Append(listeners[id], RetryListener(id)) ELSE listeners[id]]
  /\ UNCHANGED ready

AttachRetryListeners(tree) ==
  /\ listeners' = [id \in UpdateIds |->
       IF id \in NewRetries(tree) \ resolved
       THEN Append(listeners[id], RetryListener(id)) ELSE listeners[id]]
  /\ ready' = ready \o SetToSeq({RetryListener(id) :
                                   id \in NewRetries(tree) \cap resolved})

(* The lanes of skipped work, and those that any root was updated at since *)
(* the render.  Mutant: without the latter.                                *)
RemainingLanesOfTree(r, tree) == LanesOf(WorkOf(r) \ tree.done)
RemainingLanes(r, tree) ==
  LanesOf(WorkOf(r) \ tree.done) \cup LanesOf(concurrentQueues)

(* commitRoot up to the layout effects.  It clears callbackNode without    *)
(* cancelling the task.                                                    *)
CommitRoot(r, tree) ==
  /\ finished' = [finished EXCEPT ![r] = NoTree]
  /\ pendingCommit' = [pendingCommit EXCEPT ![r] = "no"]
  /\ root' = [root EXCEPT ![r] = MarkRootFinished(@, RemainingLanes(r, tree))]
  /\ work' = work \ tree.done
  /\ shown' = shown \cup tree.rendered
  /\ fallbacks' = (fallbacks \ tree.rendered) \cup tree.hidden
  /\ recentFallback' = \/ recentFallback
                        \/ tree.hidden \ fallbacks # {}
                        \/ tree.rendered \cap fallbacks # {}
  /\ AttachRetryListeners(tree)
  /\ callbackNode' = [callbackNode EXCEPT ![r] = 0]
  /\ callbackPriority' = [callbackPriority EXCEPT ![r] = NoLane]
  /\ KeepDangling
  /\ wip' = IF wip.root = r THEN [wip EXCEPT !.root = NoRoot, !.lanes = {}]
                            ELSE wip
  /\ pc' = "layout"
  /\ UNCHANGED <<environment, updates, resolved, concurrentQueues, flagVars,
                 isFlushingWork, tasks, claimVars, task>>

CommitSync ==
  /\ Exits /\ attempt.sync /\ wip.exit # "DidNotComplete"
  /\ CommitRoot(attempt.root, FinishedTree)
  /\ attempt' = [attempt EXCEPT !.recovered = Recovered]

CommitConcurrent ==
  /\ FinishesConcurrent /\ ~SuspendsIndefinitely /\ ~Throttles
  /\ CommitRoot(attempt.root, FinishedTree)
  /\ attempt' = [attempt EXCEPT !.recovered = Recovered]

(* The timer of a throttled commit, and the host's ready event.            *)
CommitDelayed(r) ==
  /\ Quiescent /\ pendingCommit[r] \in {"throttled", "host"}
  /\ CommitRoot(r, finished[r])
  /\ attempt' = [NoAttempt EXCEPT !.root = r, !.recovered = finished[r].recovered]

TimeoutThenSuspendCommit(r) ==
  /\ Quiescent /\ pendingCommit[r] = "throttled"
  /\ environment.suspendsCommits
  /\ pendingCommit' = [pendingCommit EXCEPT ![r] = "host"]
  /\ root' = [root EXCEPT ![r] = Suspend(@, finished[r].lanes)]
  /\ UNCHANGED <<screenVars, queueVars, wip, finished, listenerVars, flagVars,
                 isFlushingWork, callbackVars, claimVars, frameVars>>

(* The rest of commitRoot, and of performSyncWorkOnRoot.                   *)
CommitDone ==
  /\ pc = "layout"
  /\ EnsureRootIsScheduled(attempt.root)
  /\ IF attempt.sync
       THEN pc' = "flush" /\ UNCHANGED isFlushingWork
       ELSE FlushSyncWork(TRUE, IF task = NoTask THEN "idle" ELSE "end")
  /\ UNCHANGED <<screenVars, queueVars, root, wip, commitVars, listenerVars,
                 callbackVars, claimVars, task, attempt>>

(* root.onRecoverableError throws: nothing on the stack catches it.        *)
CommitThrows ==
  /\ pc = "layout" /\ environment.errorsThrow /\ attempt.recovered
  /\ EnsureRootIsScheduled(attempt.root)
  /\ pc' = "idle" /\ task' = NoTask /\ attempt' = NoAttempt
  /\ UNCHANGED <<screenVars, queueVars, root, wip, commitVars, listenerVars,
                 isFlushingWork, callbackVars, claimVars>>

(* Mutant: the task goes on as the root's callback, if there is one or not.*)
EndTaskOfCallback ==
  /\ pc = "end"
  /\ EnsureRootIsScheduled(task.root)
  /\ LET r == task.root
         result == ScheduleTask(r, root[r])
     IN  /\ root' = [root EXCEPT ![r] = result.root]
         /\ callbackNode' = [callbackNode EXCEPT ![r] = result.node]
         /\ callbackPriority' = [callbackPriority EXCEPT ![r] = result.priority]
         /\ tasks' = [tasks EXCEPT ![r] = result.tasks \cup {result.node}]
  /\ KeepDangling
  /\ pc' = "idle" /\ task' = NoTask /\ attempt' = NoAttempt
  /\ UNCHANGED <<screenVars, queueVars, wip, commitVars, listenerVars,
                 isFlushingWork, claimVars>>

(* The end of performConcurrentWorkOnRoot, getContinuationForRoot.  The    *)
(* Scheduler yields to the host after a task that returns a continuation.  *)
EndTask ==
  /\ pc = "end"
  /\ EnsureRootIsScheduled(task.root)
  /\ LET r == task.root
         result == ScheduleTask(r, root[r])
         continues == result.node = task.original
     IN  /\ root' = [root EXCEPT ![r] = result.root]
         /\ callbackNode' = [callbackNode EXCEPT ![r] = result.node]
         /\ callbackPriority' = [callbackPriority EXCEPT ![r] = result.priority]
         /\ tasks' = [tasks EXCEPT ![r] =
              result.tasks \cup (IF continues THEN {task.node} ELSE {})]
         /\ pc' = IF continues THEN "idle" ELSE "scheduler"
  /\ KeepDangling
  /\ task' = NoTask /\ attempt' = NoAttempt
  /\ UNCHANGED <<screenVars, queueVars, wip, commitVars, listenerVars,
                 isFlushingWork, claimVars>>

-----------------------------------------------------------------------------
(* Data loads: the listeners on it will run, in the order they were added. *)
Resolve(id) ==
  /\ Quiescent /\ Suspends(id)
  /\ resolved' = resolved \cup {id}
  /\ ready' = listeners[id]
  /\ listeners' = [listeners EXCEPT ![id] = <<>>]
  /\ UNCHANGED <<environment, updates, shown, fallbacks, queueVars, root, wip,
                 commitVars,
                 recentFallback, flagVars, isFlushingWork, callbackVars,
                 claimVars, frameVars>>

Runs(kind) == pc = "idle" /\ ready # <<>> /\ Head(ready).kind = kind

listenerUnchanged == <<screenVars, listeners, recentFallback, isFlushingWork,
                       callbackVars, frameVars>>

(* pingSuspendedRoot: a render that will have to wait anyway restarts.     *)
Ping ==
  /\ Runs("ping")
  /\ ready' = Tail(ready)
  /\ LET r == Head(ready).root
         lanes == Head(ready).lanes
         sameLanes == wip.root = r /\ lanes \subseteq wip.lanes
         restart == /\ sameLanes
                    /\ \/ wip.exit = "SuspendedWithDelay"
                       \/ /\ wip.exit = "Suspended" /\ recentFallback
                          /\ wip.lanes \subseteq RetryLanes
     IN  /\ root' = [root EXCEPT ![r] = MarkRootPinged(@, lanes)]
         /\ IF restart
              THEN PrepareFreshStack(r, {})
              ELSE /\ wip' = IF sameLanes
                             THEN [wip EXCEPT !.pinged = @ \cup lanes] ELSE wip
                   /\ UNCHANGED <<finished, pendingCommit, queueVars>>
         /\ EnsureRootIsScheduled(r)
  /\ UNCHANGED <<listenerUnchanged, claimVars>>

(* onResolution: the render that is suspended on data may continue.        *)
Continue ==
  /\ Runs("continue")
  /\ ready' = Tail(ready)
  /\ LET r == Head(ready).root
     IN  /\ wip' = IF SuspendedOnData(r) THEN [wip EXCEPT !.reason = "Ready"]
                                         ELSE wip
         /\ EnsureRootIsScheduled(r)
  /\ UNCHANGED <<listenerUnchanged, queueVars, root, commitVars, claimVars>>

(* retryTimedOutBoundary: an update of the boundary, at a lane of its own. *)
Retry ==
  /\ Runs("retry")
  /\ ready' = Tail(ready)
  /\ LET r == Head(ready).root
         item == [id |-> Head(ready).id, lane |-> nextRetryLane]
     IN  /\ concurrentQueues' = concurrentQueues \cup {item}
         /\ root' = [root EXCEPT ![r] = MarkRootUpdated(@, nextRetryLane)]
         /\ EnsureRootIsScheduled(r)
  /\ nextRetryLane' =
       IF nextRetryLane = LastRetryLane THEN 22 ELSE nextRetryLane + 1
  /\ UNCHANGED <<listenerUnchanged, work, wip, commitVars,
                 currentEventTransitionLane, nextTransitionLane>>

(* FALLBACK_THROTTLE_MS after the last change of a fallback.               *)
ThrottlePasses ==
  /\ Quiescent /\ recentFallback
  /\ recentFallback' = FALSE
  /\ UNCHANGED <<screenVars, queueVars, root, wip, commitVars, listeners, ready,
                 flagVars, isFlushingWork, callbackVars, claimVars, frameVars>>

LaneExpires(r, lane) ==
  /\ Quiescent /\ environment.timeOuts
  /\ root[r].expirationTimes[lane] = "later"
  /\ root' = [root EXCEPT ![r].expirationTimes[lane] = "reached"]
  /\ UNCHANGED <<screenVars, queueVars, wip, commitVars, listenerVars, flagVars,
                 isFlushingWork, callbackVars, claimVars, frameVars>>

-----------------------------------------------------------------------------
Init ==
  /\ environment \in Environments
  /\ updates = <<>> /\ resolved = {} /\ shown = {} /\ fallbacks = {}
  /\ work = {} /\ concurrentQueues = {}
  /\ root = [r \in Roots |-> InitialRoot]
  /\ wip = [root |-> NoRoot, lanes |-> {}, entangled |-> {}, todo |-> {},
            rendered |-> {}, hidden |-> {}, done |-> {},
            reason |-> "NotSuspended", exit |-> "InProgress", skipped |-> {},
            interleaved |-> {}, pinged |-> {}, didAttachPing |-> FALSE,
            complete |-> TRUE]
  /\ finished = [r \in Roots |-> NoTree]
  /\ pendingCommit = [r \in Roots |-> "no"]
  /\ listeners = [id \in UpdateIds |-> <<>>] /\ ready = <<>> /\ recentFallback = FALSE
  /\ schedule = {} /\ didScheduleMicrotask = FALSE
  /\ mightHavePendingSyncWork = FALSE /\ isFlushingWork = FALSE
  /\ callbackNode = [r \in Roots |-> 0]
  /\ callbackPriority = [r \in Roots |-> NoLane]
  /\ tasks = [r \in Roots |-> {}] /\ dangling = {}
  /\ currentEventTransitionLane = NoLane
  /\ nextTransitionLane = 7 /\ nextRetryLane = 22
  /\ pc = "idle" /\ task = NoTask /\ attempt = NoAttempt

Render ==
  \/ SkipUnit \/ RenderUnit \/ UnitThrows \/ UnitSuspends
  \/ Replay \/ WaitForData \/ YieldToMicrotasks \/ Unwind \/ CompleteRender

Exit ==
  \/ RenderTornTree \/ RetryAfterError \/ SuspendRecovery \/ DidNotComplete
  \/ SuspendIndefinitely \/ ThrottleRetries \/ SuspendCommit
  \/ CommitSync \/ CommitConcurrent

(* Steps of code that is on the stack, and of microtasks.                  *)
Run ==
  \/ YieldToHost \/ Render \/ Exit \/ CommitDone \/ CommitThrows
  \/ (\E r \in Roots : FlushRoot(r)) \/ FlushDone \/ EndTask
  \/ Ping \/ Continue \/ Retry \/ ProcessRootSchedule

Next ==
  \/ EventUpdate \/ LayoutUpdate \/ FlushSync \/ Run \/ Yield
  \/ ThrottlePasses
  \/ \E r \in Roots :
       \/ \E node \in tasks[r] : StartTask(r, node) \/ StartTaskWithoutLanes(r, node)
       \/ CommitDelayed(r) \/ TimeoutThenSuspendCommit(r)
       \/ \E lane \in LanesInUse : LaneExpires(r, lane)
  \/ \E id \in 1..Len(updates) : Resolve(id)

Spec == Init /\ [][Next]_vars


(* Code on the stack runs to the end and microtasks run, though an event   *)
(* may call flushSync before they do.  The Scheduler runs live tasks,      *)
(* delayed commits are due in the end, data loads: strong fairness, as the *)
(* events in between disable all these.  A render does not yield for ever  *)
(* before it has rendered a component.                                     *)
Fairness ==
  /\ WF_vars(Run) /\ SF_vars(ProcessRootSchedule) /\ SF_vars(Render)
  /\ SF_vars(\E r \in Roots : \E node \in tasks[r] :
               StartTask(r, node) \/ StartTaskWithoutLanes(r, node))
  /\ SF_vars(\E r \in Roots : CommitDelayed(r))
  /\ SF_vars(\E id \in UpdateIds : id <= Len(updates) /\ Resolve(id))

FairSpec == Spec /\ Fairness

-----------------------------------------------------------------------------
Item == [id : UpdateIds, lane : LanesInUse]
Lane == LanesInUse \cup {NoLane}

TypeOK ==
  /\ environment \in Environments
  /\ Len(updates) <= MaxUpdates
  /\ work \cup concurrentQueues \subseteq Item
  /\ resolved \cup shown \cup fallbacks \subseteq 1..Len(updates)
  /\ schedule \cup dangling \subseteq Roots
  /\ \A r \in Roots :
       /\ root[r].pendingLanes \subseteq LanesInUse
       /\ callbackPriority[r] \in Lane
       /\ tasks[r] \subseteq Nat \ {0} /\ callbackNode[r] \in Nat
  /\ pc \in {"idle", "render", "exit", "layout", "flush", "end", "scheduler"}
  /\ pc \in {"render", "exit", "layout"} => attempt.root \in Roots
  /\ pc = "end" => task.root \in Roots

(* No update is lost: until its component or its fallback is on the        *)
(* screen, it is in a queue and its lane is pending, whatever renders have *)
(* been interrupted, restarted, suspended or thrown away.                  *)
UpdatesArePending ==
  \A id \in 1..Len(updates) \ (shown \cup fallbacks) :
    \E i \in work \cup concurrentQueues :
      i.id = id /\ i.lane \in root[RootOf(id)].pendingLanes

(* A fallback does not stay on the screen for ever: its boundary waits for *)
(* the data, or the retry is in a queue and its lane is pending.           *)
FallbacksAreRetried ==
  \A id \in fallbacks :
    \/ Wakes(RetryListener(id))
    \/ \E i \in work \cup concurrentQueues :
         i.id = id /\ i.lane \in root[RootOf(id)].pendingLanes

(* A root waits if its stack is suspended on data, if data will schedule   *)
(* it again (another root's stack may have replaced the suspended one), or *)
(* if the host delays its commit.                                          *)
Waits(r) ==
  \/ SuspendedOnData(r)
  \/ \E l \in (UNION {Range(listeners[id]) : id \in UpdateIds}) \cup Range(ready) :
       l.root = r /\ l.kind = "continue"
  \/ pendingCommit[r] = "host"

(* When microtasks have run, a root with work to do has a live Scheduler   *)
(* task, unless it waits for data or for the host, and unless a flush has  *)
(* been left by an exception.  It rests on "This is never expected to      *)
(* happen" (performConcurrentWorkOnRoot), that a root's own task finds the *)
(* root without lanes: which does, and scheduleTaskForRootDuringMicrotask  *)
(* may then take the dead task for one that it can reuse.                  *)
WorkIsScheduled ==
  Quiescent /\ ~isFlushingWork =>
    \A r \in Roots :
      NextLanes(r) # {} /\ ~Waits(r) => callbackNode[r] \in tasks[r]

(* So it is, but for a root whose callbackNode is a task that found no     *)
(* lanes: nothing has replaced or cleared it since.                        *)
WorkIsScheduledUnlessDangling ==
  Quiescent /\ ~isFlushingWork =>
    \A r \in Roots :
      NextLanes(r) # {} /\ ~Waits(r) =>
        callbackNode[r] \in tasks[r] \/ r \in dangling

(* A root's callback is as urgent as its work, also when the work has      *)
(* changed since it was scheduled.                                         *)
CallbackIsUrgentEnough ==
  Quiescent => \A r \in Roots : callbackNode[r] # 0 =>
    \A lane \in NextLanes(r) : callbackPriority[r] <= lane

(* Synchronous work is done when microtasks have run, and before that the  *)
(* fast path of flushSync does not pass it over; unless the root waits for *)
(* data or for the host.                                                   *)
SyncWorkWillBeFlushed ==
  \A r \in Roots :
    SyncLane \in NextLanes(r) /\ ~Waits(r) =>
      ~Quiescent /\ r \in schedule /\ mightHavePendingSyncWork

SyncWorkIsFlushed == pc = "idle" => SyncWorkWillBeFlushed

(* So it is as long as no flush has been left by an exception.             *)
SyncWorkIsFlushedUnlessThrown ==
  pc = "idle" /\ ~isFlushingWork => SyncWorkWillBeFlushed

(* Work that is suspended will be woken up: a stack that waits for data    *)
(* has a listener that continues it; if all of a root's work is suspended, *)
(* each lane has a listener that pings it, or a commit is coming.  If the  *)
(* host delays commits, a lane may also wait for the commit of another one *)
(* that has a listener: flushSync may cancel a delayed commit for a pinged *)
(* lane that suspends again.                                               *)
HasWakeUp(r, lane) ==
  \/ pendingCommit[r] # "no"
  \/ \E l \in UNION {Range(listeners[id]) : id \in UpdateIds} :
       /\ l.root = r
       /\ \/ lane \in l.lanes
          \/ /\ environment.suspendsCommits
             /\ l.lanes \cap root[r].suspendedLanes # {}

SuspendedWorkWakesUp ==
  Quiescent => \A r \in Roots :
    /\ SuspendedOnData(r) =>
         Wakes([kind |-> "continue", id |-> Unit, root |-> r, lanes |-> {}])
    /\ NextLanes(r) = {} =>
         \A lane \in root[r].pendingLanes \cap (NonIdleLanes \ RetryLanes) :
           HasWakeUp(r, lane)

(* A tree that was unwound because there was no Suspense boundary is not   *)
(* committed: "exit the current render without producing a consistent tree *)
(* or committing" (performConcurrentWorkOnRoot).                           *)
CommittedTreesAreComplete ==
  [][/\ CommitSync \/ CommitConcurrent => wip.complete
     /\ \A r \in Roots : CommitDelayed(r) => finished[r].complete]_vars

(* So it is, commits that are delayed included, but for a tree whose       *)
(* render after an error was suspended.                                    *)
UnrecoveredTreesAreComplete ==
  [][CommitSync \/ CommitConcurrent \/ ThrottleRetries \/ SuspendCommit
       => wip.complete \/ attempt.phase = "suspended"]_vars

(* A transition does not hide what is on the screen behind a fallback,     *)
(* neither its own nor a fallback met in an interrupted or delayed commit. *)
TransitionsKeepTheScreen ==
  [][\A id \in fallbacks' \ fallbacks :
       updates[id].content = "shell" =>
         LET lanes == IF pc = "exit" THEN attempt.lanes
                                     ELSE finished[RootOf(id)].lanes
         IN  ~(lanes \subseteq TransitionLanes)]_vars

(* Every update reaches the screen, if data loads and tasks run: again and *)
(* again, and in the end for ever, all the updates there are are shown.    *)
EveryUpdateIsShown == []<>(1..Len(updates) \subseteq shown)
=============================================================================
