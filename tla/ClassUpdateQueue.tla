-------------------------- MODULE ClassUpdateQueue --------------------------
(***************************************************************************)
(* The update queue of a class component that is mounted and visible:      *)
(* ReactFiberClassUpdateQueue.js, with the parts of the work loop and of   *)
(* ReactFiberConcurrentUpdates.js that hand it its updates and commit its  *)
(* result.                                                                 *)
(*                                                                         *)
(* An update is known by its id, its place in the order of the setState    *)
(* calls; a state is the sequence of the ids applied to the initial state. *)
(* The linked lists of updates are sequences.  The control state pc is     *)
(*   "idle"        the root is not being rendered                          *)
(*   "started"     a render has started, not yet reached the component     *)
(*   "processing"  processUpdateQueue, one loop iteration per step         *)
(*   "begun"       the render has passed the component                     *)
(*   "rendered"    the tree is complete, its commit may be delayed         *)
(* Events come in whenever the work loop is off the stack: a concurrent    *)
(* render yields before and after the component, never while processing.   *)
(***************************************************************************)
EXTENDS Naturals, Sequences, Functions

CONSTANTS
  Lanes, TransitionLanes, NoLane,
  MaxUpdates            \* bound: updates ever queued

ASSUME LanesAssumption == TransitionLanes \subseteq Lanes /\ NoLane \notin Lanes
ASSUME MaxUpdatesAssumption == MaxUpdates \in Nat

VARIABLES
  log,                  \* history: the lane of every update queued so far
  concurrentQueues,     \* updates not yet in the queue: a render may be on
  pending,              \* shared.pending
  sharedLanes,          \* shared.lanes: superset of the queue's transitions
  current, wip,         \* the component's two fibers
  childLanes,           \* of the root of a completed tree: bubbled up from wip
  pendingLanes,         \* root.pendingLanes
  otherLanes,           \* lanes of the work that other components have
  renderLanes,
  rest, newState, newBaseState, newBase, newLanes,    \* of the loop
  callbacks,            \* queue.callbacks of the work-in-progress queue
  fired,                \* the callbacks called so far
  pc

rootVars == <<pendingLanes, otherLanes>>
queueVars == <<concurrentQueues, pending, sharedLanes>>
loopVars == <<rest, newState, newBaseState, newBase, newLanes>>
vars == <<log, queueVars, current, wip, childLanes, rootVars, renderLanes,
          loopVars, callbacks, fired, pc>>

UpdateIds == 1..MaxUpdates

Update == [id : UpdateIds, lane : Lanes \cup {NoLane}, callback : BOOLEAN]

State == Seq(UpdateIds)

Fiber == [memoizedState : State, lanes : SUBSET Lanes,
          baseState : State, baseUpdates : Seq(Update)]

Ids(updates) == [i \in 1..Len(updates) |-> updates[i].id]

-----------------------------------------------------------------------------
(* Mutant: the transitions that are still in the queue are forgotten.      *)
EntangleLastTransition(lane) ==
  sharedLanes' = IF lane \in TransitionLanes THEN {lane} ELSE sharedLanes

(* Called after markRootUpdated: root.pendingLanes is the new value.       *)
EntangleTransitions(lane) ==
  sharedLanes' = IF lane \in TransitionLanes
                   THEN (sharedLanes \cap pendingLanes') \cup {lane}
                   ELSE sharedLanes

(* setState from an event: enqueueUpdate, markRootUpdated,                 *)
(* entangleTransitions.  The fiber's lanes are marked at once, for the     *)
(* eager bailout; the queue waits for finishQueueingConcurrentUpdates.     *)
EnqueueUpdate(lane) ==
  /\ pc # "processing"
  /\ Len(log) < MaxUpdates
  /\ log' = Append(log, lane)
  /\ concurrentQueues' = Append(concurrentQueues,
       [id |-> Len(log) + 1, lane |-> lane, callback |-> TRUE])
  /\ current' = [current EXCEPT !.lanes = @ \cup {lane}]
  /\ wip' = [wip EXCEPT !.lanes = @ \cup {lane}]
  /\ pendingLanes' = pendingLanes \cup {lane}
  /\ EntangleTransitions(lane)
  /\ UNCHANGED <<otherLanes, pending, childLanes, renderLanes, loopVars,
                 callbacks, fired, pc>>

(* An update of another component of the tree.                             *)
UpdateOther(lane) ==
  /\ pc # "processing"
  /\ lane \notin otherLanes
  /\ otherLanes' = otherLanes \cup {lane}
  /\ pendingLanes' = pendingLanes \cup {lane}
  /\ UNCHANGED <<log, queueVars, current, wip, childLanes, renderLanes,
                 loopVars, callbacks, fired, pc>>

ConcurrentlyUpdatedLanes == {u.lane : u \in Range(concurrentQueues)}

(* finishQueueingConcurrentUpdates, both fibers being marked again: a      *)
(* render may have reset the work-in-progress lanes meanwhile.  Only this  *)
(* marks their parents, up to the root, too: see childLanes.               *)
FinishQueueing ==
  /\ concurrentQueues' = <<>>
  /\ pending' = pending \o concurrentQueues
  /\ current' = [current EXCEPT !.lanes = @ \cup ConcurrentlyUpdatedLanes]
  /\ wip' = [wip EXCEPT !.lanes = @ \cup ConcurrentlyUpdatedLanes]

(* prepareFreshStack: what a previous attempt rendered is abandoned.  The  *)
(* lanes are any that are pending: choosing them is another component's.   *)
PrepareFreshStack(lanes) ==
  /\ pc # "processing"
  /\ lanes # {} /\ lanes \subseteq pendingLanes
  /\ FinishQueueing
  /\ childLanes' = {}
  /\ renderLanes' = lanes
  /\ pc' = "started"
  /\ UNCHANGED <<log, sharedLanes, rootVars, loopVars, callbacks, fired>>

(* prepareFreshStack with NoLanes, on a ping or an update to a suspended   *)
(* root, or for another root, while this one was being rendered.           *)
AbandonRender ==
  /\ pc \in {"started", "begun", "rendered"}
  /\ FinishQueueing
  /\ childLanes' = {}
  /\ renderLanes' = {}
  /\ pc' = "idle"
  /\ UNCHANGED <<log, sharedLanes, rootVars, loopVars, callbacks, fired>>

(* Another root's render starts while this one is not being rendered.      *)
OtherRootRenders ==
  /\ pc \in {"idle", "rendered"}
  /\ concurrentQueues # <<>>
  /\ FinishQueueing
  /\ childLanes' = IF pc = "rendered" THEN childLanes \cup ConcurrentlyUpdatedLanes
                                     ELSE {}
  /\ UNCHANGED <<log, sharedLanes, rootVars, renderLanes, loopVars,
                 callbacks, fired, pc>>

-----------------------------------------------------------------------------
(* beginWork: no scheduled update has one of renderLanes.                  *)
BailOut ==
  /\ pc = "started"
  /\ current.lanes \cap renderLanes = {}
  /\ wip' = current
  /\ callbacks' = <<>>
  /\ pc' = "begun"
  /\ UNCHANGED <<log, queueVars, current, childLanes, rootVars, renderLanes,
                 loopVars, fired>>

(* Mutant: pending updates are transferred to the work-in-progress only.   *)
BeginOnWipOnly ==
  /\ pc = "started"
  /\ wip' = [current EXCEPT !.baseUpdates = @ \o pending, !.lanes = {}]
  /\ pending' = <<>>
  /\ callbacks' = <<>>
  /\ rest' = wip'.baseUpdates
  /\ newState' = current.baseState
  /\ newBaseState' = <<>> /\ newBase' = <<>> /\ newLanes' = {}
  /\ pc' = IF rest' = <<>> THEN "begun" ELSE "processing"
  /\ UNCHANGED <<log, concurrentQueues, sharedLanes, current, childLanes,
                 rootVars, renderLanes, fired>>

(* beginWork's `workInProgress.lanes = NoLanes', cloneUpdateQueue, and     *)
(* processUpdateQueue up to its loop: the pending updates go to both       *)
(* queues.  New props or a context make it run without an update, too.     *)
Begin ==
  /\ pc = "started"
  /\ current' = [current EXCEPT !.baseUpdates = @ \o pending]
  /\ wip' = [current' EXCEPT !.lanes = {}]
  /\ pending' = <<>>
  /\ callbacks' = <<>>
  /\ rest' = current'.baseUpdates
  /\ newState' = current.baseState
  /\ newBaseState' = <<>> /\ newBase' = <<>> /\ newLanes' = {}
  /\ pc' = IF rest' = <<>> THEN "begun" ELSE "processing"
  /\ UNCHANGED <<log, concurrentQueues, sharedLanes, childLanes, rootVars,
                 renderLanes, fired>>

(* Mutant: a rebased update is skipped like any other.                     *)
SufficientLane(update) == update.lane \in renderLanes

Sufficient(update) == update.lane = NoLane \/ update.lane \in renderLanes

(* Mutant: the lane of a skipped update is not kept.                       *)
SkipForgetsLane ==
  /\ pc = "processing" /\ rest # <<>>
  /\ ~Sufficient(Head(rest))
  /\ newBase' = Append(newBase, Head(rest))
  /\ newBaseState' = IF newBase = <<>> THEN newState ELSE newBaseState
  /\ rest' = Tail(rest)
  /\ UNCHANGED <<log, queueVars, current, wip, childLanes, rootVars, renderLanes,
                 newState, newLanes, callbacks, fired, pc>>

SkipUpdate ==
  /\ pc = "processing" /\ rest # <<>>
  /\ ~Sufficient(Head(rest))
  /\ newBase' = Append(newBase, Head(rest))
  /\ newBaseState' = IF newBase = <<>> THEN newState ELSE newBaseState
  /\ newLanes' = newLanes \cup {Head(rest).lane}
  /\ rest' = Tail(rest)
  /\ UNCHANGED <<log, queueVars, current, wip, childLanes, rootVars, renderLanes,
                 newState, callbacks, fired, pc>>

(* Mutant: a rebased update keeps its callback.                            *)
RebasedWithCallback(update) == [update EXCEPT !.lane = NoLane]

(* Mutant: a rebased update keeps its lane.                                *)
RebasedWithLane(update) == [update EXCEPT !.callback = FALSE]

(* What stays in the base queue of an update applied after a skipped one:  *)
(* it is never skipped again and its callback is not called again.         *)
Rebased(update) == [update EXCEPT !.lane = NoLane, !.callback = FALSE]

ApplyUpdate ==
  /\ pc = "processing" /\ rest # <<>>
  /\ LET update == Head(rest)
     IN  /\ Sufficient(update)
         /\ newBase' = IF newBase = <<>> THEN newBase
                       ELSE Append(newBase, Rebased(update))
         /\ newState' = Append(newState, update.id)
         /\ callbacks' = IF update.callback THEN Append(callbacks, update.id)
                                            ELSE callbacks
  /\ rest' = Tail(rest)
  /\ UNCHANGED <<log, queueVars, current, wip, childLanes, rootVars, renderLanes,
                 newBaseState, newLanes, fired, pc>>

(* The code's `if (firstBaseUpdate === null) queue.shared.lanes = NoLanes' *)
(* is inside an `if (firstBaseUpdate !== null)': it never happens.         *)
FinishProcessing ==
  /\ pc = "processing" /\ rest = <<>>
  /\ wip' = [baseState |-> IF newBase = <<>> THEN newState ELSE newBaseState,
             baseUpdates |-> newBase, lanes |-> newLanes,
             memoizedState |-> newState]
  /\ pc' = "begun"
  /\ UNCHANGED <<log, queueVars, current, childLanes, rootVars, renderLanes,
                 loopVars, callbacks, fired>>

-----------------------------------------------------------------------------
(* completeWork bubbles the lanes of the component up to the root.         *)
CompleteRender ==
  /\ pc = "begun"
  /\ FinishQueueing
  /\ childLanes' = wip'.lanes
  /\ pc' = "rendered"
  /\ UNCHANGED <<log, sharedLanes, rootVars, renderLanes, loopVars,
                 callbacks, fired>>

(* The lanes of the other components after a render: an update that came   *)
(* during the render may or may not be part of it.                         *)
Unfinished ==
  {lanes \in SUBSET otherLanes : otherLanes \ renderLanes \subseteq lanes}

(* Mutant: updates queued since the render are not counted as remaining.   *)
CommitIgnoresConcurrent ==
  /\ pc = "rendered"
  /\ current' = wip /\ wip' = current
  /\ otherLanes' \in Unfinished
  /\ pendingLanes' = childLanes \cup otherLanes'
  /\ fired' = fired \o callbacks
  /\ callbacks' = <<>>
  /\ renderLanes' = {} /\ childLanes' = {}
  /\ pc' = "idle"
  /\ UNCHANGED <<log, queueVars, loopVars>>

(* commitRoot: the fibers swap, markRootFinished, commitCallbacks.         *)
Commit ==
  /\ pc = "rendered"
  /\ current' = wip /\ wip' = current
  /\ otherLanes' \in Unfinished
  /\ pendingLanes' = childLanes \cup otherLanes' \cup ConcurrentlyUpdatedLanes
  /\ fired' = fired \o callbacks
  /\ callbacks' = <<>>
  /\ renderLanes' = {} /\ childLanes' = {}
  /\ pc' = "idle"
  /\ UNCHANGED <<log, queueVars, loopVars>>

-----------------------------------------------------------------------------
InitialFiber == [memoizedState |-> <<>>, lanes |-> {},
                 baseState |-> <<>>, baseUpdates |-> <<>>]

Init ==
  /\ log = <<>> /\ concurrentQueues = <<>> /\ pending = <<>>
  /\ sharedLanes = {} /\ pendingLanes = {} /\ otherLanes = {}
  /\ renderLanes = {} /\ childLanes = {}
  /\ current = InitialFiber /\ wip = InitialFiber
  /\ rest = <<>> /\ newState = <<>> /\ newBaseState = <<>> /\ newBase = <<>>
  /\ newLanes = {} /\ callbacks = <<>> /\ fired = <<>>
  /\ pc = "idle"

ProcessUpdateQueue == Begin \/ SkipUpdate \/ ApplyUpdate \/ FinishProcessing

Next ==
  \/ \E lane \in Lanes : EnqueueUpdate(lane) \/ UpdateOther(lane)
  \/ \E lanes \in SUBSET Lanes : PrepareFreshStack(lanes)
  \/ AbandonRender \/ OtherRootRenders
  \/ BailOut \/ ProcessUpdateQueue
  \/ CompleteRender \/ Commit

Spec == Init /\ [][Next]_vars

(* Yielding, the scheduling of a render and its commit are the work of     *)
(* other components: a pending lane is included in some render, and not    *)
(* every render of a lane is interrupted before it commits.                *)
Fairness ==
  /\ WF_vars(ProcessUpdateQueue)
  /\ \A lane \in Lanes :
       /\ SF_vars(lane \in renderLanes /\ Begin)
       /\ SF_vars(lane \in renderLanes /\ CompleteRender)
       /\ SF_vars(lane \in renderLanes /\ Commit)
       /\ SF_vars(\E lanes \in SUBSET Lanes :
                    lane \in lanes /\ pc = "idle" /\ PrepareFreshStack(lanes))

FairSpec == Spec /\ Fairness

-----------------------------------------------------------------------------
TypeOK ==
  /\ log \in Seq(Lanes) /\ Len(log) <= MaxUpdates
  /\ concurrentQueues \in Seq(Update) /\ pending \in Seq(Update)
  /\ sharedLanes \subseteq TransitionLanes
  /\ current \in Fiber /\ wip \in Fiber
  /\ pendingLanes \subseteq Lanes /\ otherLanes \subseteq Lanes
  /\ renderLanes \subseteq Lanes /\ childLanes \subseteq Lanes
  /\ rest \in Seq(Update) /\ newBase \in Seq(Update)
  /\ newState \in State /\ newBaseState \in State
  /\ newLanes \subseteq Lanes
  /\ callbacks \in Seq(UpdateIds) /\ fired \in Seq(UpdateIds)
  /\ pc \in {"idle", "started", "processing", "begun", "rendered"}

FirstUpdates(s, n) == Len(s) = n /\ \A i \in 1..n : s[i] = i

(* The updates a fiber's queue, shared.pending and concurrentQueues hold,  *)
(* appended to the base state, are all updates, each once, in the order of *)
(* the setState calls - for the current fiber at any time, however many    *)
(* renders were abandoned after they had taken the pending updates, and    *)
(* for the work-in-progress once it is processed.  So the state reached    *)
(* when all are processed does not depend on priorities or interruptions.  *)
UpdatesInOrder ==
  LET Queued(fiber) == fiber.baseState \o Ids(fiber.baseUpdates)
                         \o Ids(pending) \o Ids(concurrentQueues)
  IN  /\ FirstUpdates(Queued(current), Len(log))
      /\ pc \in {"begun", "rendered"} => FirstUpdates(Queued(wip), Len(log))

(* No update is forgotten: until it is applied on the screen its lane is   *)
(* pending on the root, so it will be rendered, and set on the fiber, so   *)
(* the render will not bail out of the component.                          *)
UpdateLanesArePending ==
  \A u \in 1..Len(log) :
    u \notin Range(current.memoizedState) =>
      log[u] \in pendingLanes /\ log[u] \in current.lanes

(* The queue's transitions stay entangled: shared.lanes includes the lane  *)
(* of every transition not yet on the screen, although it is intersected   *)
(* with root.pendingLanes at each update (entangleTransitions).            *)
TransitionsAreInSharedLanes ==
  \A u \in 1..Len(log) :
    u \notin Range(current.memoizedState) /\ log[u] \in TransitionLanes
      => log[u] \in sharedLanes

(* The callback of each update is called exactly once, when the update     *)
(* first appears on the screen, although the update may be processed by    *)
(* renders that are abandoned and again when it is rebased.                *)
CallbacksFireOnce ==
  /\ Len(fired) = Len(current.memoizedState)
  /\ Range(fired) = Range(current.memoizedState)

(* Every update is applied on the screen in the end.                       *)
EveryUpdateIsShown ==
  \A u \in UpdateIds :
    Len(log) >= u ~> u \in Range(current.memoizedState)

(* The component's state on the screen: what was shown stays, each render  *)
(* adds the updates of its lanes, all in the order they were queued.       *)
Log == INSTANCE UpdateLog WITH shown <- current.memoizedState

ImplementsUpdateLog == Log!LogSpec
=============================================================================
