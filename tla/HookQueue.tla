----------------------------- MODULE HookQueue -----------------------------
(***************************************************************************)
(* The update queues of a mounted function component                       *)
(*   const [state, setState] = useState(...)                               *)
(*   const [optimistic, setOptimistic] = useOptimistic(state, reducer)     *)
(* (ReactFiberHooks.js) and the async actions that its updates belong to   *)
(* (AsyncAction), on a root whose lanes (Lanes) choose what to render.     *)
(*                                                                         *)
(* An update is known by its id, its place in the order of the calls.  A   *)
(* state is the sequence of the ids of the updates applied since the last  *)
(* one that reset it: an update adds its id, keeps the state as it is, or  *)
(* resets it, so that some updates change nothing.                         *)
(*                                                                         *)
(* A render is a step that starts it, a step for the component, and a step *)
(* that completes and commits it; events come in between them if the lanes *)
(* rendered let the work loop yield.  What delays a commit, and the time   *)
(* after which lanes expire, are WorkLoop's.                               *)
(***************************************************************************)
EXTENDS Lanes, AsyncAction, Sequences, SequencesExt

CONSTANTS
  EventLanes,           \* lanes of the events that are not transitions
  LastTransitionLane,   \* 21 in the code: with less, lanes are reused sooner
  Kinds,                \* of updates to the state: "add", "keep", "reset"
  MaxUpdates,           \* bound: updates ever dispatched
  MaxActions            \* bound: async actions ever started

ASSUME EventLanesAssumption == EventLanes \subseteq SyncUpdateLanes
ASSUME TransitionAssumption == LastTransitionLane \in TransitionLanes
ASSUME KindsAssumption == Kinds \subseteq {"add", "keep", "reset"}
ASSUME BoundsAssumption == MaxUpdates \in Nat /\ MaxActions \in Nat

VARIABLES
  log,                  \* history: every update dispatched so far
  status,               \* history: of each, "queued", "shown" or "dropped"
  seen,                 \* history: updates dispatched when the render started
  inScope,              \* history: those made in the open scope of actions
  concurrentQueues,     \* updates not yet in a queue: a render may be on
  pending,              \* queue.pending of each hook
  queueLanes,           \* queue.lanes of the state: superset of transitions
  lastRenderedState,    \* queue.lastRenderedState of the state
  current, wip,         \* the component's two fibers
  root,                 \* the root's lanes
  wipLanes, renderLanes,  \* of the render, without and with those entangled
  touched,              \* lanes pinged, or updated, during the render
  pc,                   \* "idle", "started", then, after the component,
                        \* "begun" or, if it had no work, "skipped"
  inTransition,         \* ReactSharedInternals.T: startTransition is running
  microtask,            \* didScheduleMicrotask
  currentEventTransitionLane, nextTransitionLane,
  scope,                \* the scope of the async actions: see AsyncAction
  actions               \* bound: async actions started so far

historyVars == <<log, status, seen, inScope>>
queueVars == <<concurrentQueues, pending, queueLanes, lastRenderedState>>
fiberVars == <<current, wip>>
renderVars == <<wipLanes, renderLanes, touched, pc>>
transitionVars == <<currentEventTransitionLane, nextTransitionLane>>
actionVars == <<scope, actions>>
vars == <<historyVars, queueVars, fiberVars, root, renderVars, inTransition,
          microtask, transitionVars, actionVars>>

Hooks == {"state", "optimistic"}
UsedTransitionLanes == 7..LastTransitionLane
UsedLanes == {SyncLane} \cup EventLanes \cup UsedTransitionLanes

State == Seq(1..MaxUpdates)

(* An optimistic update has a revertLane; eagerState is the set of the     *)
(* state computed when the update was dispatched, if one was.  The updates *)
(* of the root's "other" components are known by their lane.               *)
Update ==
  [id : 1..MaxUpdates, hook : Hooks \cup {"other"}, kind : {"add", "keep", "reset"},
   lane : UsedLanes \cup {NoLane}, revertLane : UsedTransitionLanes \cup {NoLane},
   eagerState : SUBSET State]

Hook == [memoizedState : State, baseState : State, baseQueue : Seq(Update)]
Fiber == [lanes : SUBSET UsedLanes, hooks : [Hooks -> Hook]]

Reduce(s, update) ==
  CASE update.kind = "add" -> Append(s, update.id)
    [] update.kind = "keep" -> s
    [] update.kind = "reset" -> <<>>

(* What an update makes of a state: its eager state, if it has one.        *)
Result(s, update) ==
  IF update.eagerState = {} THEN Reduce(s, update)
  ELSE CHOOSE eager \in update.eagerState : TRUE

-----------------------------------------------------------------------------
(* The lane of the event's transitions: claimed by the first of them.      *)
RequestedLane == IF currentEventTransitionLane # NoLane
                 THEN currentEventTransitionLane ELSE nextTransitionLane

(* Mutant: the cycle starts over one lane too late.                        *)
ClaimPastTheLast ==
  nextTransitionLane' = IF nextTransitionLane > LastTransitionLane THEN 7
                        ELSE nextTransitionLane + 1

(* Cyclically: see RequestTransitionLane.                                  *)
ClaimNextTransitionLane ==
  nextTransitionLane' = IF nextTransitionLane = LastTransitionLane THEN 7
                        ELSE nextTransitionLane + 1

RequestTransitionLane ==
  /\ currentEventTransitionLane' = RequestedLane
  /\ IF currentEventTransitionLane = NoLane
       THEN ClaimNextTransitionLane ELSE UNCHANGED nextTransitionLane

(* Work in these lanes, once rendering, does not yield.                    *)
Blocking(lanes) == lanes \cap (SyncDefaultLanes \cup {SyncLane}) # {}

(* Code of the page may run: no render is on the stack, and the sync work  *)
(* that the microtask has flushed is over.                                 *)
EventsRun ==
  /\ pc = "idle" \/ ~Blocking(wipLanes)
  /\ microtask \/ SyncLane \notin root.pendingLanes

(* getWorkInProgressRoot() !== null.                                       *)
IsRendering == pc # "idle"

LanesOf(updates) == {u.lane : u \in ToSet(updates)} \ {NoLane}

Mark(fiber, lanes) == [fiber EXCEPT !.lanes = @ \cup lanes]

Enqueued(queues, updates) ==
  LET after[n \in 0..Len(updates)] ==
        IF n = 0 THEN queues
        ELSE LET update == updates[n]
             IN  [after[n - 1] EXCEPT ![update.hook] = Append(@, update)]
  IN  after[Len(updates)]

FinishQueueing(updates) ==
  /\ concurrentQueues' = <<>>
  /\ pending' = Enqueued(pending, updates)
  /\ current' = Mark(current, LanesOf(updates))
  /\ wip' = Mark(wip, LanesOf(updates))

(* enqueueConcurrentHookUpdate, scheduleUpdateOnFiber, entangleTransitions.*)
Schedule(update, entangled) ==
  /\ concurrentQueues' = Append(concurrentQueues, update)
  /\ current' = Mark(current, {update.lane})
  /\ wip' = Mark(wip, {update.lane})
  /\ root' = IF entangled = {} THEN MarkRootUpdated(root, update.lane)
             ELSE MarkRootEntangled(MarkRootUpdated(root, update.lane), entangled)
  /\ touched' = IF IsRendering THEN touched \cup {update.lane} ELSE touched
  /\ microtask' = TRUE
  /\ UNCHANGED pending

(* enqueueConcurrentHookUpdateAndEagerlyBailout: nothing is scheduled.     *)
EagerlyBailOut(update) ==
  /\ IF IsRendering
       THEN /\ concurrentQueues' = Append(concurrentQueues, update)
            /\ UNCHANGED <<pending, current, wip>>
       ELSE FinishQueueing(Append(concurrentQueues, update))
  /\ UNCHANGED <<root, touched, microtask>>

(* Mutant: only the fiber that is on the screen is asked.                  *)
NoLanesOnWip == wip.lanes = {}

(* Neither fiber has lanes: every update is in lastRenderedState.          *)
NoLanesOnFibers == current.lanes = {} /\ wip.lanes = {}

(* The queue's transitions that are not finished, and the new one.         *)
QueueLanes(lane) == (queueLanes \cap (root.pendingLanes \cup {lane})) \cup {lane}

(* Mutant: transitions do not join the scope of the actions that are on.   *)
UpdateLaneOfEvent(eventLane) == IF inTransition THEN RequestedLane ELSE eventLane

(* requestUpdateLane.                                                      *)
UpdateLane(eventLane) ==
  IF ~inTransition THEN eventLane
  ELSE IF IsOpen(scope) THEN scope.lane
  ELSE RequestedLane

DispatchSetState(kind, eventLane) ==
  /\ EventsRun /\ Len(log) < MaxUpdates
  /\ IF inTransition /\ ~IsOpen(scope)
       THEN RequestTransitionLane ELSE UNCHANGED transitionVars
  /\ LET id == Len(log) + 1
         lane == UpdateLane(eventLane)
         plain == [id |-> id, hook |-> "state", kind |-> kind, lane |-> lane,
                   revertLane |-> NoLane, eagerState |-> {}]
         eager == Reduce(lastRenderedState, plain)
         update == [plain EXCEPT !.eagerState = IF NoLanesOnFibers THEN {eager} ELSE {}]
     IN  IF update.eagerState = {lastRenderedState}
         THEN /\ EagerlyBailOut([update EXCEPT !.lane = NoLane])
              /\ log' = Append(log, [update EXCEPT !.lane = NoLane])
              /\ status' = Append(status, "shown")
              /\ UNCHANGED queueLanes
         ELSE /\ Schedule(update, IF lane \in TransitionLanes
                                  THEN QueueLanes(lane) ELSE {})
              /\ log' = Append(log, update)
              /\ status' = Append(status, "queued")
              /\ queueLanes' = IF lane \in TransitionLanes
                               THEN QueueLanes(lane) ELSE queueLanes
  /\ inScope' = IF inTransition THEN inScope \cup {Len(log) + 1} ELSE inScope
  /\ UNCHANGED <<seen, lastRenderedState, wipLanes, renderLanes, pc,
                 inTransition, actionVars>>

(* Applied at once, in SyncLane; reverted with a transition of the event,  *)
(* even when an async action is on: the scope's lane is not asked for.     *)
DispatchOptimisticSetState ==
  /\ EventsRun /\ Len(log) < MaxUpdates
  /\ inTransition \/ IsOpen(scope)
  /\ RequestTransitionLane
  /\ LET update == [id |-> Len(log) + 1, hook |-> "optimistic", kind |-> "add",
                    lane |-> SyncLane, revertLane |-> RequestedLane,
                    eagerState |-> {}]
     IN  /\ Schedule(update, {})
         /\ log' = Append(log, update)
         /\ status' = Append(status, "queued")
  /\ inScope' = inScope \cup {Len(log) + 1}
  /\ UNCHANGED <<seen, queueLanes, lastRenderedState, wipLanes, renderLanes, pc,
                 inTransition, actionVars>>

(* Another component of the tree is updated, maybe this one's parent.      *)
UpdateOther(eventLane) ==
  /\ EventsRun /\ Len(log) < MaxUpdates
  /\ IF inTransition /\ ~IsOpen(scope)
       THEN RequestTransitionLane ELSE UNCHANGED transitionVars
  /\ LET lane == UpdateLane(eventLane)
     IN  /\ log' = Append(log,
              [id |-> Len(log) + 1, hook |-> "other", kind |-> "keep",
               lane |-> lane, revertLane |-> NoLane, eagerState |-> {}])
         /\ root' = MarkRootUpdated(root, lane)
         /\ touched' = IF IsRendering THEN touched \cup {lane} ELSE touched
  /\ status' = Append(status, "queued")
  /\ microtask' = TRUE
  /\ UNCHANGED <<seen, inScope, queueVars, fiberVars, wipLanes, renderLanes, pc,
                 inTransition, actionVars>>

(* The lanes of the other components, after a render.                      *)
OtherLanes(statuses) ==
  {log[u].lane : u \in {v \in DOMAIN log : log[v].hook = "other"
                                          /\ statuses[v] = "queued"}}

-----------------------------------------------------------------------------
(* startTransition calls its function ...                                  *)
StartTransition ==
  /\ EventsRun /\ ~inTransition /\ Len(log) < MaxUpdates
  /\ inTransition' = TRUE
  /\ UNCHANGED <<historyVars, queueVars, fiberVars, root, renderVars, microtask,
                 transitionVars, actionVars>>

(* ... which returns, ...                                                  *)
FinishTransition ==
  /\ inTransition
  /\ inTransition' = FALSE
  /\ inScope' = IF IsOpen(scope) THEN inScope ELSE {}
  /\ UNCHANGED <<log, status, seen, queueVars, fiberVars, root, renderVars, microtask,
                 transitionVars, actionVars>>

(* ... or returns a promise: it is an async action.                        *)
FinishAction ==
  /\ inTransition /\ actions < MaxActions
  /\ inTransition' = FALSE
  /\ actions' = actions + 1
  /\ scope' = EntangleAsyncAction(scope, RequestedLane)
  /\ IF IsOpen(scope) THEN UNCHANGED transitionVars ELSE RequestTransitionLane
  /\ UNCHANGED <<historyVars, queueVars, fiberVars, root, renderVars, microtask>>

(* The promise of an action settles; the last one pings the root for each  *)
(* render that the scope suspended.                                        *)
SettleAction ==
  /\ IsOpen(scope) /\ ~inTransition /\ EventsRun
  /\ scope' = PingEntangledActionScope(scope)
  /\ inScope' = IF IsOpen(scope') THEN inScope ELSE {}
  /\ LET pinged == IF IsOpen(scope') THEN {} ELSE scope.listeners
     IN  /\ root' = MarkRootPinged(root, UNION pinged)
         /\ touched' = IF IsRendering
                       THEN touched \cup UNION {l \in pinged : l \subseteq wipLanes}
                       ELSE touched
         /\ microtask' = (microtask \/ pinged # {})
  /\ UNCHANGED <<log, status, seen, queueVars, fiberVars, wipLanes, renderLanes, pc,
                 inTransition, transitionVars, actions>>

(* processRootScheduleInMicrotask, after the event: see WorkLoop.          *)
ProcessRootSchedule ==
  /\ microtask /\ ~inTransition
  /\ microtask' = FALSE
  /\ currentEventTransitionLane' = NoLane
  /\ UNCHANGED <<historyVars, queueVars, fiberVars, root, renderVars,
                 inTransition, nextTransitionLane, actionVars>>

-----------------------------------------------------------------------------
RenderSteps == ~microtask /\ ~inTransition

NextLanes == GetNextLanes(root, wipLanes)

(* prepareFreshStack: a render that other lanes interrupt is abandoned.    *)
PrepareFreshStack ==
  /\ RenderSteps
  /\ NextLanes \notin {{}, wipLanes}
  /\ FinishQueueing(concurrentQueues)
  /\ wipLanes' = NextLanes
  /\ renderLanes' = GetEntangledLanes(root, NextLanes)
  /\ touched' = {}
  /\ pc' = "started"
  /\ seen' = Len(log)
  /\ UNCHANGED <<log, status, inScope, queueLanes, lastRenderedState, root,
                 inTransition, microtask, transitionVars, actionVars>>

(* beginWork: no scheduled update has one of renderLanes.                  *)
BailOut ==
  /\ pc = "started" /\ RenderSteps /\ NextLanes = wipLanes
  /\ current.lanes \cap renderLanes = {}
  /\ wip' = current
  /\ pc' = "skipped"
  /\ UNCHANGED <<historyVars, queueVars, current, root, wipLanes, renderLanes,
                 touched, inTransition, microtask, transitionVars, actionVars>>

(* Mutant: what a kept update waits for is not set on the component.       *)
KeepWithoutLane(result, update, lane) ==
  [result EXCEPT
     !.baseQueue = Append(@, update),
     !.baseState = IF result.baseQueue = <<>> THEN result.state ELSE @]

(* updateReducerImpl, one update; `lane' is what the update waits for.     *)
Keep(result, update, lane) ==
  [result EXCEPT
     !.baseQueue = Append(@, update),
     !.baseState = IF result.baseQueue = <<>> THEN result.state ELSE @,
     !.lanes = @ \cup {lane}]

Apply(result, update) == [result EXCEPT !.state = Result(@, update)]

Process(result, update) ==
  LET applied == [update EXCEPT !.lane = NoLane]
      Reads(lane) == [result EXCEPT !.didReadFromAction = @ \/ lane = scope.lane]
  IN  IF update.lane \notin renderLanes \cup {NoLane}
        THEN Keep(result, update, update.lane)
      ELSE IF update.revertLane = NoLane
        THEN Apply([Reads(update.lane) EXCEPT
               !.baseQueue = IF @ = <<>> THEN @ ELSE Append(@, applied)], update)
      ELSE IF update.revertLane \in renderLanes
        THEN Reads(update.revertLane)
        ELSE Apply(Keep(result, applied, update.revertLane), update)

ProcessQueue(updates, baseState) ==
  LET after[n \in 0..Len(updates)] ==
        IF n = 0
          THEN [state |-> baseState, baseState |-> baseState, baseQueue |-> <<>>,
                lanes |-> {}, didReadFromAction |-> FALSE]
          ELSE Process(after[n - 1], updates[n])
  IN  after[Len(updates)]

(* The pending updates are appended to the queues of both fibers.          *)
Merged(h) == current.hooks[h].baseQueue \o pending[h]

(* updateOptimisticImpl: on top of the latest value passed in.             *)
PassthroughBase(passthrough) == passthrough

NewHook(result) ==
  [memoizedState |-> result.state, baseQueue |-> result.baseQueue,
   baseState |-> IF result.baseQueue = <<>> THEN result.state ELSE result.baseState]

(* The function reads the value of an action that is not finished.         *)
Suspends(h, result) ==
  /\ result.state # current.hooks[h].memoizedState
  /\ result.didReadFromAction /\ IsOpen(scope)

(* The state's hook is processed: see updateReducerImpl's last lines.      *)
FinishStateHook(result) ==
  /\ lastRenderedState' = IF Merged("state") = <<>> THEN lastRenderedState
                          ELSE result.state
  /\ queueLanes' = IF Merged("state") = <<>> THEN {} ELSE queueLanes

(* The function threw the scope's thenable: the root keeps what it shows,  *)
(* the lanes wait for the scope to close unless they were touched since.   *)
Suspend(hooks, lanes) ==
  /\ concurrentQueues' = <<>>
  /\ current' = [Mark(current, LanesOf(concurrentQueues)) EXCEPT
       !.hooks = [h \in Hooks |->
          IF h \in hooks THEN [@[h] EXCEPT !.baseQueue = Merged(h)] ELSE @[h]]]
  /\ pending' = Enqueued([h \in Hooks |-> IF h \in hooks THEN <<>> ELSE pending[h]],
                         concurrentQueues)
  /\ wip' = [wip EXCEPT !.lanes = lanes \cup LanesOf(concurrentQueues)]
  /\ scope' = Listen(scope, wipLanes)
  /\ root' = MarkRootSuspended(root, wipLanes \ touched)
  /\ wipLanes' = {} /\ renderLanes' = {} /\ touched' = {}
  /\ pc' = "idle"

(* bailoutHooks changes the fiber on the screen.                           *)
Complete(state, optimistic, newProps) ==
  LET result == [state |-> state, optimistic |-> optimistic]
      DidReceiveUpdate(h) ==
        Merged(h) # <<>> /\ result[h].state # current.hooks[h].memoizedState
      bailsOut == ~newProps /\ \A h \in Hooks : ~DidReceiveUpdate(h)
  IN  /\ current' = [lanes |-> IF bailsOut THEN current.lanes \ renderLanes
                               ELSE current.lanes,
                     hooks |-> [h \in Hooks |->
                       [current.hooks[h] EXCEPT !.baseQueue = Merged(h)]]]
      /\ wip' = [lanes |-> state.lanes \cup optimistic.lanes,
                 hooks |-> [h \in Hooks |-> NewHook(result[h])]]
      /\ pending' = [h \in Hooks |-> <<>>]
      /\ pc' = "begun"
      /\ UNCHANGED <<concurrentQueues, scope, root, wipLanes, renderLanes, touched>>

(* updateFunctionComponent, for an update or because of its new props.     *)
RenderComponent(newProps) ==
  /\ pc = "started" /\ RenderSteps /\ NextLanes = wipLanes
  /\ IF newProps THEN OtherLanes(status) \cap renderLanes # {}
                 ELSE current.lanes \cap renderLanes # {}
  /\ LET state == ProcessQueue(Merged("state"), current.hooks["state"].baseState)
         optimistic == ProcessQueue(Merged("optimistic"), PassthroughBase(state.state))
     IN  \/ /\ Suspends("state", state)
            /\ Suspend({"state"}, {})
            /\ UNCHANGED <<lastRenderedState, queueLanes>>
         \/ /\ ~Suspends("state", state) /\ Suspends("optimistic", optimistic)
            /\ Suspend(Hooks, {})
            /\ FinishStateHook(state)
         \/ /\ ~Suspends("state", state) /\ ~Suspends("optimistic", optimistic)
            /\ Complete(state, optimistic, newProps)
            /\ FinishStateHook(state)
  /\ UNCHANGED <<historyVars, inTransition, microtask, transitionVars, actions>>

(* So does another component that an update made in the scope changes.     *)
OtherSuspends ==
  /\ IsOpen(scope) /\ scope.lane \in renderLanes
  /\ \E u \in 1..seen : log[u].hook = "other" /\ status[u] = "queued"
                      /\ log[u].lane = scope.lane

SuspendInOther ==
  /\ pc # "idle" /\ RenderSteps /\ NextLanes = wipLanes
  /\ OtherSuspends
  /\ Suspend({}, wip.lanes)
  /\ UNCHANGED <<historyVars, queueLanes, lastRenderedState, inTransition, microtask,
                 transitionVars, actions>>

-----------------------------------------------------------------------------
StatusAfter(u) ==
  LET update == log[u]
  IN  IF \/ u > seen \/ status[u] = "dropped"
         \/ pc = "skipped" /\ update.hook \in Hooks
        THEN status[u]
      ELSE IF update.revertLane \in renderLanes THEN "dropped"
      ELSE IF update.lane \in renderLanes THEN "shown"
      ELSE status[u]

(* The render's end and commitRoot: what was queued since the component    *)
(* was begun is still to do.  Its microtask ends the event's transitions.  *)
Commit ==
  /\ pc \in {"begun", "skipped"} /\ RenderSteps /\ NextLanes = wipLanes
  /\ ~OtherSuspends
  /\ concurrentQueues' = <<>>
  /\ pending' = Enqueued(pending, concurrentQueues)
  /\ current' = Mark(wip, LanesOf(concurrentQueues))
  /\ wip' = Mark(current, LanesOf(concurrentQueues))
  /\ status' = [u \in DOMAIN status |-> StatusAfter(u)]
  /\ root' = MarkRootFinished(root, current'.lanes \cup OtherLanes(status'))
  /\ wipLanes' = {} /\ renderLanes' = {} /\ touched' = {}
  /\ pc' = "idle"
  /\ currentEventTransitionLane' = NoLane
  /\ UNCHANGED <<log, seen, inScope, queueLanes, lastRenderedState, inTransition,
                 microtask, nextTransitionLane, actionVars>>

-----------------------------------------------------------------------------
InitialHook == [memoizedState |-> <<>>, baseState |-> <<>>, baseQueue |-> <<>>]
InitialFiber == [lanes |-> {}, hooks |-> [h \in Hooks |-> InitialHook]]

InitialRoot ==
  [pendingLanes |-> {}, suspendedLanes |-> {}, pingedLanes |-> {},
   expiredLanes |-> {}, entangledLanes |-> {}, errorRecoveryDisabledLanes |-> {},
   entanglements |-> [l \in UsedLanes |-> {}],
   expirationTimes |-> [l \in UsedLanes |-> "none"]]

Init ==
  /\ log = <<>> /\ status = <<>> /\ seen = 0 /\ inScope = {}
  /\ concurrentQueues = <<>> /\ pending = [h \in Hooks |-> <<>>]
  /\ queueLanes = {} /\ lastRenderedState = <<>>
  /\ current = InitialFiber /\ wip = InitialFiber
  /\ root = InitialRoot
  /\ wipLanes = {} /\ renderLanes = {} /\ touched = {} /\ pc = "idle"
  /\ inTransition = FALSE /\ microtask = FALSE
  /\ currentEventTransitionLane = NoLane /\ nextTransitionLane = 7
  /\ scope = NoScope /\ actions = 0

Render ==
  \/ PrepareFreshStack \/ BailOut \/ SuspendInOther \/ Commit
  \/ \E newProps \in BOOLEAN : RenderComponent(newProps)

Next ==
  \/ \E kind \in Kinds, lane \in EventLanes : DispatchSetState(kind, lane)
  \/ \E lane \in EventLanes : UpdateOther(lane)
  \/ DispatchOptimisticSetState
  \/ StartTransition \/ FinishTransition \/ FinishAction \/ SettleAction
  \/ ProcessRootSchedule \/ Render

Spec == Init /\ [][Next]_vars

(* The microtask and the root's task run although events keep coming, what *)
(* is given to startTransition returns, the promises of actions settle.    *)
Fairness ==
  /\ SF_vars(Render) /\ SF_vars(ProcessRootSchedule)
  /\ WF_vars(FinishTransition) /\ SF_vars(SettleAction)

FairSpec == Spec /\ Fairness

-----------------------------------------------------------------------------
TypeOK ==
  /\ log \in Seq(Update) /\ Len(log) <= MaxUpdates
  /\ status \in Seq({"queued", "shown", "dropped"}) /\ Len(status) = Len(log)
  /\ seen \in 0..Len(log) /\ inScope \subseteq DOMAIN log
  /\ concurrentQueues \in Seq(Update) /\ pending \in [Hooks -> Seq(Update)]
  /\ queueLanes \subseteq UsedTransitionLanes /\ lastRenderedState \in State
  /\ current \in Fiber /\ wip \in Fiber
  /\ root.pendingLanes \subseteq UsedLanes
  /\ root.suspendedLanes \subseteq UsedLanes /\ root.pingedLanes \subseteq UsedLanes
  /\ root.entanglements \in [UsedLanes -> SUBSET UsedTransitionLanes]
  /\ wipLanes \subseteq UsedLanes /\ renderLanes \subseteq UsedLanes
  /\ touched \subseteq UsedLanes /\ pc \in {"idle", "started", "begun", "skipped"}
  /\ inTransition \in BOOLEAN /\ microtask \in BOOLEAN
  /\ currentEventTransitionLane \in UsedTransitionLanes \cup {NoLane}
  /\ nextTransitionLane \in UsedTransitionLanes
  /\ scope.lane \in UsedTransitionLanes \cup {NoLane}
  /\ scope.listeners \subseteq SUBSET UsedLanes
  /\ scope.pendingCount \in 0..MaxActions /\ actions \in 0..MaxActions

Value(h) == current.hooks[h].memoizedState

(* The values on the screen are those of OptimisticLog: the updates of the *)
(* lanes rendered so far in the order of the calls, however many were      *)
(* skipped, rebased, taken by a render that was abandoned or suspended, or *)
(* never queued because the eager state was the same; and the optimistic   *)
(* updates on top of the latest state until their transition commits.      *)
Screen == INSTANCE OptimisticLog
  WITH state <- Value("state"), optimistic <- Value("optimistic")

ImplementsOptimisticLog == Screen!LogSpec

(* The state when the updates up to u are all applied.                     *)
StateAfter(u) == Screen!Applied(<<>>, log, [v \in DOMAIN log |-> "shown"], "state", u)

Awaits(u) ==
  CASE status[u] = "queued" -> {log[u].lane}
    [] status[u] = "shown" -> {log[u].revertLane} \ {NoLane}
    [] OTHER -> {}

QueuedStates == {u \in DOMAIN log : log[u].hook = "state" /\ status[u] = "queued"}

(* The state if these updates were shown too.                              *)
StateWith(updates) ==
  Screen!Applied(<<>>, log,
    [u \in DOMAIN log |-> IF u \in updates THEN "shown" ELSE status[u]],
    "state", Len(log))

(* Nothing is forgotten: the lane that an update waits for, to be shown or *)
(* if it is an optimistic one to be dropped, is pending on the root.  The  *)
(* exception are updates that together change nothing: a render that found *)
(* so and was then abandoned has taken their lanes off the component.      *)
UpdatesArePending ==
  \A u \in DOMAIN log :
    \/ Awaits(u) \subseteq root.pendingLanes
    \/ \E updates \in SUBSET QueuedStates :
         u \in updates /\ Value("state") = StateWith(updates)

(* While the actions of a scope are on, an update to the state made in it  *)
(* does not change the screen, and an optimistic one that shares its lane  *)
(* stays: they wait, all together, for the last of the actions.            *)
ActionUpdatesWait ==
  [][IsOpen(scope) /\ IsOpen(scope') =>
       \A u \in inScope :
         /\ status[u] # status'[u]
         /\ \/ log[u].hook = "state"
            \/ log[u].revertLane = scope.lane /\ status'[u] = "dropped"
         => Value(log[u].hook) = Value(log[u].hook)']_vars

(* In the end the screen shows every update to the state, and no optimistic*)
(* one: they have all been dropped.                                        *)
EverythingSettles ==
  <>[](/\ Value("state") = StateAfter(Len(log))
       /\ Value("optimistic") = Value("state"))

(* "The queue is currently empty, which means we can eagerly compute the   *)
(* next state" (dispatchSetState): when it does, the state that the update *)
(* is applied to is that of all the updates there are.                     *)
AppliesToCurrentState ==
  log' # log /\ Last(log').eagerState # {}
    => lastRenderedState = StateAfter(Len(log))

EagerStateIsCurrent == [][AppliesToCurrentState]_vars
=============================================================================
