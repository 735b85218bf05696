-------------------------- MODULE WorkLoopProofs --------------------------
(***************************************************************************)
(* The work loop keeps its types, and what is on the stack fits together:  *)
(* whatever the roots, the lanes in use, the number of updates and the     *)
(* environment.  It loses no update and no fallback, commits no tree that  *)
(* it has unwound and hides nothing behind a transition.  The operators of *)
(* WorkLoop map lanes in use, queued items, stacks, trees and listeners to *)
(* such; the steps are taken in groups, one lemma for each.  The parts are *)
(* then the queues, the trees, the lanes of the roots and the screen; each *)
(* begins with its inductive invariant and the kinds of steps it tells     *)
(* apart.                                                                  *)
(* Last comes the root scheduler: synchronous work is flushed, a root's    *)
(* Scheduler task is as urgent as its work, every root that wants one has  *)
(* one, and suspended work has what will wake it up; three of these        *)
(* theorems assume more of the environment.                                *)
(***************************************************************************)
EXTENDS WorkLoop, LaneProofs, FiniteSetTheorems, SequenceTheorems

Ids == 1..Len(updates)
QueuedItem == [id : Ids, lane : LanesInUse]
LaneSets == SUBSET LanesInUse
Contents == {"plain", "inner", "shell", "root", "error"}
UpdateRecord == [root : Roots, lane : LanesInUse, content : Contents]

Tree ==
  [lanes : LaneSets, rendered : SUBSET Ids, hidden : SUBSET Ids,
   done : SUBSET QueuedItem, complete : BOOLEAN, recovered : BOOLEAN]

ExitStatus == {"InProgress", "Completed", "Suspended", "SuspendedWithDelay",
               "Errored", "DidNotComplete"}

Stack ==
  [root : Roots \cup {NoRoot}, lanes : LaneSets, entangled : LaneSets,
   todo : SUBSET QueuedItem, rendered : SUBSET Ids, hidden : SUBSET Ids,
   done : SUBSET QueuedItem,
   reason : {"NotSuspended", "Immediate", "Data", "Ready"},
   exit : ExitStatus, skipped : LaneSets, interleaved : LaneSets,
   pinged : LaneSets, didAttachPing : BOOLEAN, complete : BOOLEAN]

Listener ==
  [kind : {"ping", "continue", "retry"}, id : Ids, root : Roots, lanes : LaneSets]

TaskSets == {S \in SUBSET (Nat \ {0}) : IsFiniteSet(S)}
TaskFrame == [root : Roots, node : Nat \ {0}, original : Nat]

Frame ==
  [root : Roots \cup {NoRoot}, lanes : LaneSets, concurrent : BOOLEAN,
   sync : BOOLEAN, phase : {"first", "recovering", "suspended"},
   errored : LaneSets, recovered : BOOLEAN]

-----------------------------------------------------------------------------
ProgramType ==
  /\ environment \in Environments
  /\ updates \in Seq(UpdateRecord) /\ Len(updates) <= MaxUpdates
  /\ resolved \in SUBSET Ids /\ shown \in SUBSET Ids /\ fallbacks \in SUBSET Ids

QueueType == work \in SUBSET QueuedItem /\ concurrentQueues \in SUBSET QueuedItem
RootType == root \in [Roots -> RootRecord(LanesInUse)]
StackType == wip \in Stack

CommitType ==
  /\ finished \in [Roots -> Tree]
  /\ pendingCommit \in [Roots -> {"no", "throttled", "host"}]

ListenerType ==
  listeners \in [UpdateIds -> Seq(Listener)] /\ ready \in Seq(Listener)

FlagType ==
  /\ schedule \in SUBSET Roots
  /\ didScheduleMicrotask \in BOOLEAN /\ mightHavePendingSyncWork \in BOOLEAN
  /\ isFlushingWork \in BOOLEAN /\ recentFallback \in BOOLEAN

CallbackType ==
  /\ callbackNode \in [Roots -> Nat] /\ callbackPriority \in [Roots -> Lane]
  /\ tasks \in [Roots -> TaskSets]
  /\ dangling \subseteq Roots

ClaimType ==
  /\ currentEventTransitionLane \in (7..LastTransitionLane) \cup {NoLane}
  /\ nextTransitionLane \in 7..LastTransitionLane
  /\ nextRetryLane \in 22..LastRetryLane

FrameType ==
  /\ pc \in {"idle", "render", "exit", "layout", "flush", "end", "scheduler"}
  /\ task \in TaskFrame \cup {NoTask} /\ attempt \in Frame

DataType ==
  /\ ProgramType /\ QueueType /\ RootType /\ StackType /\ CommitType
  /\ ListenerType /\ FlagType /\ CallbackType /\ ClaimType /\ FrameType

(* What is on the stack: a render is the attempt's, on its lanes; a task   *)
(* waits for the attempt unless a flush or a delayed commit has begun it.  *)
FrameInv ==
  /\ pc \in {"render", "exit", "layout"} => attempt.root \in Roots
  /\ pc \in {"render", "exit"} => attempt.lanes # {}
  /\ pc = "render" => wip.root = attempt.root /\ wip.lanes = attempt.lanes
  /\ pc = "exit" => wip.root = NoRoot /\ wip.todo = {}
  /\ wip.reason # "NotSuspended" => wip.todo # {}
  /\ pc = "end" => task # NoTask
  /\ pc \in {"render", "exit"} /\ ~attempt.sync =>
       task # NoTask /\ task.root = attempt.root
  /\ pc = "layout" /\ ~attempt.sync => task = NoTask \/ task.root = attempt.root
  /\ attempt.concurrent => ~attempt.sync
  /\ pc \in {"idle", "scheduler"} => task = NoTask

TypeInv == DataType /\ FrameInv

-----------------------------------------------------------------------------
LEMMA LanesFacts ==
  /\ LanesInUse \in SUBSET (SyncLane..IdleLane) /\ LanesInUse \in SUBSET Nat
  /\ SyncLane \in LanesInUse /\ NoLane \notin LanesInUse
  /\ 7..LastTransitionLane \subseteq LanesInUse
  /\ 22..LastRetryLane \subseteq LanesInUse
  /\ LastTransitionLane \in Nat /\ LastTransitionLane >= 7
  /\ LastRetryLane \in Nat /\ LastRetryLane >= 22
<1>1. /\ LanesInUse \in SUBSET (SyncLane..IdleLane)
      /\ 7..LastTransitionLane \subseteq LanesInUse
      /\ 22..LastRetryLane \subseteq LanesInUse
      /\ SyncLane \in LanesInUse
  BY LanesAssumption DEF ClaimedLanes
<1>2. LanesInUse \in SUBSET Nat /\ NoLane \notin LanesInUse
  BY <1>1 DEF SyncLane, IdleLane, NoLane
<1>3. /\ LastTransitionLane \in Nat /\ LastTransitionLane >= 7
      /\ LastRetryLane \in Nat /\ LastRetryLane >= 22
  BY LanesAssumption DEF TransitionLanes, RetryLanes
<1>. QED  BY <1>1, <1>2, <1>3

LEMMA ItemLanes ==
  ASSUME NEW items \in SUBSET QueuedItem
  PROVE  LanesOf(items) \in LaneSets
BY DEF LanesOf, QueuedItem, LaneSets

LEMMA UpdateOf ==
  ASSUME ProgramType, NEW id \in Ids
  PROVE  updates[id] \in UpdateRecord /\ RootOf(id) \in Roots /\ id \in UpdateIds
<1>1. id \in 1..Len(updates) /\ Len(updates) \in Nat /\ Len(updates) <= MaxUpdates
  BY DEF ProgramType, Ids
<1>2. updates[id] \in UpdateRecord
  BY <1>1 DEF ProgramType
<1>3. id \in UpdateIds
  BY <1>1, MaxUpdatesAssumption DEF UpdateIds
<1>. QED  BY <1>2, <1>3 DEF RootOf, UpdateRecord

LEMMA NextLanesInUse ==
  ASSUME RootType, StackType, NEW r \in Roots
  PROVE  NextLanes(r) \in LaneSets
<1>1. root[r] \in RootRecord(LanesInUse)
  BY DEF RootType
<1>2. (IF wip.root = r THEN wip.lanes ELSE {}) \in SUBSET LanesInUse
  BY DEF StackType, Stack, LaneSets
<1>. QED  BY <1>1, <1>2, LanesFacts, NextLanesType DEF NextLanes, LaneSets

(* The component being rendered is that of an item on the stack.           *)
LEMMA UnitIsToDo ==
  ASSUME StackType, wip.todo # {}
  PROVE  /\ Unit \in Ids
         /\ \E i \in wip.todo : i.id = Unit
         /\ Included(Unit) \in SUBSET QueuedItem
         /\ Rest(Unit) \in SUBSET QueuedItem
<1>. DEFINE S == {i.id : i \in wip.todo}
<1>1. wip.todo \in SUBSET QueuedItem
  BY DEF StackType, Stack
<1>2. S \in SUBSET Nat /\ S \in SUBSET Ids
  BY <1>1 DEF QueuedItem, Ids
<1>3. S # {}
  OBVIOUS
<1>4. PICK m \in S : \A n \in S : m <= n
  BY <1>2, <1>3, LeastExists
<1>5. \A i \in wip.todo : m <= i.id
  BY <1>4
<1>6. Unit \in S
  BY <1>4, <1>5, Zenon DEF Unit
<1>. QED  BY <1>1, <1>2, <1>6 DEF Included, Rest

LEMMA SuspendType ==
  ASSUME StackType, NEW rec \in RootRecord(LanesInUse), NEW lanes \in LaneSets
  PROVE  Suspend(rec, lanes) \in RootRecord(LanesInUse)
<1>1. lanes \ (wip.pinged \cup wip.interleaved)
        = (lanes \ (wip.pinged \cup wip.interleaved)) \cap LanesInUse
  BY DEF LaneSets
<1>. QED  BY <1>1, MarkRootSuspendedType DEF Suspend

LEMMA FreshStackType ==
  ASSUME RootType, NEW r \in Roots, NEW lanes \in LaneSets,
         NEW items \in SUBSET QueuedItem
  PROVE  FreshStack(r, lanes, items) \in Stack
<1>1. root[r] \in RootRecord(LanesInUse)
  BY DEF RootType
<1>2. GetEntangledLanes(root[r], lanes) \in LaneSets
  BY <1>1, GetEntangledLanesType DEF LaneSets
<1>3. (IF lanes = {} THEN {} ELSE {i \in items : RootOf(i.id) = r}) \in SUBSET QueuedItem
  OBVIOUS
<1>. QED  BY <1>2, <1>3 DEF FreshStack, Stack, LaneSets, ExitStatus

LEMMA NoTreeType == NoTree \in Tree
BY DEF NoTree, Tree, LaneSets

LEMMA PrepareFreshStackType ==
  ASSUME QueueType, RootType, CommitType, updates' = updates,
         NEW r \in Roots, NEW lanes \in LaneSets, PrepareFreshStack(r, lanes)
  PROVE  QueueType' /\ StackType' /\ CommitType'
<1>1. Ids' = Ids /\ QueuedItem' = QueuedItem /\ Stack' = Stack /\ Tree' = Tree
  BY DEF Ids, QueuedItem, Stack, Tree
<1>2. wip' \in Stack
  BY FreshStackType DEF PrepareFreshStack, QueueType
<1>3. QueueType'
  BY <1>1 DEF PrepareFreshStack, FinishQueueing, QueueType
<1>4. CommitType'
  BY <1>1, NoTreeType DEF PrepareFreshStack, CommitType
<1>. QED  BY <1>1, <1>2, <1>3, <1>4 DEF StackType

LEMMA RenderRootType ==
  ASSUME QueueType, RootType, StackType, CommitType, updates' = updates,
         NEW r \in Roots, NEW lanes \in LaneSets, RenderRoot(r, lanes)
  PROVE  QueueType' /\ StackType' /\ CommitType'
<1>1. Ids' = Ids /\ QueuedItem' = QueuedItem /\ Stack' = Stack /\ Tree' = Tree
  BY DEF Ids, QueuedItem, Stack, Tree
<1>2. CASE PrepareFreshStack(r, lanes)
  BY <1>2, PrepareFreshStackType
<1>3. CASE UNCHANGED <<wip, finished, pendingCommit, queueVars>>
  BY <1>1, <1>3 DEF queueVars, QueueType, StackType, CommitType
<1>. QED  BY <1>2, <1>3 DEF RenderRoot

LEMMA ScheduleUpdateType ==
  ASSUME RootType, StackType, CommitType, ListenerType, QueueType,
         Ids \subseteq Ids', NEW r \in Roots, NEW lane \in LanesInUse,
         NEW item \in QueuedItem', FlagType,
         ScheduleUpdateOnFiber(r, lane, item),
         UNCHANGED <<isFlushingWork, recentFallback>>
  PROVE  QueueType' /\ RootType' /\ StackType' /\ CommitType' /\ FlagType'
<1>. DEFINE fresh == FreshStack(r, {}, {})
            updated == MarkRootUpdated(root[r], lane)
<1>1. /\ QueuedItem \subseteq QueuedItem'
      /\ Stack \subseteq Stack' /\ Tree \subseteq Tree'
  BY DEF QueuedItem, Stack, Tree
<1>2. fresh \in Stack
  BY FreshStackType DEF LaneSets
<1>3. wip' \in Stack
  <2>1. [fresh EXCEPT !.interleaved = {lane}] \in Stack
    BY <1>2 DEF Stack, LaneSets
  <2>2. [wip EXCEPT !.interleaved = @ \cup {lane}] \in Stack
    BY DEF StackType, Stack, LaneSets
  <2>. HIDE DEF fresh
  <2>. QED  BY <2>1, <2>2 DEF StackType, ScheduleUpdateOnFiber, fresh
<1>4. QueueType'
  BY <1>1 DEF ScheduleUpdateOnFiber, FinishQueueing, QueueType
<1>5. CommitType'
  <2>1. finished' \in [Roots -> Tree]
    BY NoTreeType DEF CommitType, ScheduleUpdateOnFiber
  <2>2. pendingCommit' \in [Roots -> {"no", "throttled", "host"}]
    BY DEF CommitType, ScheduleUpdateOnFiber
  <2>. QED  BY <1>1, <2>1, <2>2 DEF CommitType
<1>6. RootType'
  <2>1. updated \in RootRecord(LanesInUse)
    BY MarkRootUpdatedType DEF RootType
  <2>2. \A lanes : MarkRootSuspended(updated, wip.lanes \ lanes) \in RootRecord(LanesInUse)
    <3>1. TAKE lanes
    <3>2. wip.lanes \ lanes = (wip.lanes \ lanes) \cap LanesInUse
      BY DEF StackType, Stack, LaneSets
    <3>. QED  BY <2>1, <3>2, MarkRootSuspendedType
  <2>. HIDE DEF updated
  <2>. QED  BY <2>1, <2>2 DEF RootType, ScheduleUpdateOnFiber, updated
<1>7. FlagType'
  BY DEF ScheduleUpdateOnFiber, EnsureRootIsScheduled, FlagType
<1>. QED  BY <1>1, <1>3, <1>4, <1>5, <1>6, <1>7 DEF StackType

(* There is a free number for a new task.                                  *)
LEMMA FreshNodeIsFree ==
  ASSUME CallbackType, FrameType, NEW r \in Roots
  PROVE  FreshNode(r) \in Nat \ {0} /\ FreshNode(r) # callbackNode[r]
<1>. DEFINE used == tasks[r] \cup {callbackNode[r], task.node, task.original}
            n == Cardinality(used) + 1
            free == {k \in 1..n : k \notin used}
<1>1. IsFiniteSet(used) /\ Cardinality(used) \in Nat
  <2>1. IsFiniteSet(tasks[r])
    BY DEF CallbackType, TaskSets
  <2>2. IsFiniteSet(((tasks[r] \cup {callbackNode[r]}) \cup {task.node})
                      \cup {task.original})
    BY <2>1, FS_AddElement
  <2>3. used = ((tasks[r] \cup {callbackNode[r]}) \cup {task.node})
                 \cup {task.original}
    OBVIOUS
  <2>. QED  BY <2>2, <2>3, FS_CardinalityType, Zenon
<1>2. free # {}
  <2>1. ASSUME 1..n \subseteq used PROVE FALSE
    <3>1. Cardinality(1..n) <= Cardinality(used)
      BY <1>1, <2>1, FS_Subset
    <3>2. Cardinality(1..n) = n
      BY <1>1, FS_Interval
    <3>. QED  BY <1>1, <3>1, <3>2
  <2>. QED  BY <2>1
<1>3. free \in SUBSET Nat
  BY <1>1
<1>4. PICK k \in free : \A m \in free : k <= m
  BY <1>2, <1>3, LeastExists
<1>5. 1..(k - 1) \subseteq used
  <2>1. SUFFICES ASSUME NEW m \in 1..(k - 1), m \notin used PROVE FALSE
    OBVIOUS
  <2>2. m \in 1..n /\ ~(k <= m)
    BY <1>1, <1>4
  <2>. QED  BY <2>1, <2>2, <1>4
<1>6. k \in 1..n /\ k \notin used
  BY <1>4
<1>. HIDE DEF used, n, free
<1>7. FreshNode(r) \in 1..n /\ FreshNode(r) \notin used
  <2>1. FreshNode(r) = CHOOSE j \in 1..n : j \notin used /\ 1..(j - 1) \subseteq used
    BY DEF FreshNode, used, n
  <2>. QED  BY <1>5, <1>6, <2>1
<1>8. callbackNode[r] \in used
  BY DEF used
<1>. QED  BY <1>1, <1>7, <1>8 DEF n

LEMMA HighestLaneInUse ==
  ASSUME NEW lanes \in LaneSets, lanes # {}
  PROVE  /\ HighestPriorityLane(lanes) \in lanes
         /\ HighestPriorityLane(lanes) \in LanesInUse
         /\ \A lane \in lanes : HighestPriorityLane(lanes) <= lane
BY LanesFacts, HighestPriorityLaneIsLeast DEF LaneSets

(* What scheduleTaskForRootDuringMicrotask decides: the root waits or has  *)
(* nothing to do, or is flushed in the microtask, or has a task with the   *)
(* priority of its next lanes, which are the same as before.               *)
LEMMA ScheduleTaskDecides ==
  ASSUME RootType, StackType, CallbackType, FrameType, NEW r \in Roots,
         NEW rec \in RootRecord(LanesInUse)
  PROVE  LET result == ScheduleTask(r, rec)
             next == GetNextLanes(rec, IF wip.root = r THEN wip.lanes ELSE {})
             nothing == next = {} \/ SuspendedOnData(r) \/ pendingCommit[r] = "host"
         IN  /\ result.root = MarkStarvedLanesAsExpired(rec)
             /\ result.node \in Nat /\ result.tasks \in TaskSets
             /\ nothing => result.priority = NoLane /\ result.node = 0
             /\ ~nothing /\ SyncLane \in next =>
                  result.priority = SyncLane /\ result.node = 0
             /\ ~nothing /\ SyncLane \notin next =>
                  /\ result.priority = HighestPriorityLane(next)
                  /\ result.priority \in LanesInUse \ {SyncLane}
                  /\ \A lane \in next : result.priority <= lane
                  /\ \/ /\ result.node = callbackNode[r] /\ result.tasks = tasks[r]
                        /\ result.priority = callbackPriority[r]
                     \/ result.node \in result.tasks
<1>. DEFINE w == IF wip.root = r THEN wip.lanes ELSE {}
            next == GetNextLanes(rec, w)
            marked == MarkStarvedLanesAsExpired(rec)
            others == tasks[r] \ {callbackNode[r]}
            nothing == next = {} \/ SuspendedOnData(r) \/ pendingCommit[r] = "host"
            priority == HighestPriorityLane(next)
            fresh == FreshNode(r)
            result == ScheduleTask(r, rec)
<1>1. GetNextLanes(marked, w) = next
  BY MarkStarvedKeepsNextLanes
<1>2. next \in LaneSets
  BY LanesFacts, NextLanesType DEF LaneSets, StackType, Stack
<1>3. tasks[r] \in TaskSets /\ callbackNode[r] \in Nat /\ callbackPriority[r] \in Lane
  BY DEF CallbackType
<1>4. others \in TaskSets
  BY <1>3, FS_Subset DEF TaskSets
<1>5. fresh \in Nat \ {0}
  BY FreshNodeIsFree
<1>6. others \cup {fresh} \in TaskSets
  BY <1>4, <1>5, FS_AddElement DEF TaskSets
<1>7. next # {} => /\ priority \in LanesInUse /\ priority \in next
                   /\ \A lane \in next : priority <= lane
  BY <1>2, HighestLaneInUse
<1>. HIDE DEF marked, next, w, others, priority, fresh
<1>8. CASE nothing
  <2>1. result = [root |-> marked, priority |-> NoLane, node |-> 0, tasks |-> others]
    BY <1>1, <1>8 DEF ScheduleTask, marked, others, w
  <2>. QED  BY <1>4, <1>8, <2>1 DEF next, w, marked
<1>9. CASE ~nothing /\ SyncLane \in next
  <2>1. result = [root |-> marked, priority |-> SyncLane, node |-> 0, tasks |-> others]
    BY <1>1, <1>9 DEF ScheduleTask, marked, others, w
  <2>. QED  BY <1>4, <1>9, <2>1 DEF next, w, marked
<1>10. CASE ~nothing /\ SyncLane \notin next
  <2>1. result = IF ReusesTask(r, priority)
                 THEN [root |-> marked, priority |-> callbackPriority[r],
                       node |-> callbackNode[r], tasks |-> tasks[r]]
                 ELSE [root |-> marked, priority |-> priority, node |-> fresh,
                       tasks |-> others \cup {fresh}]
    BY <1>1, <1>10 DEF ScheduleTask, marked, others, w, priority, fresh
  <2>2. /\ result.root = marked /\ result.priority = priority
        /\ \/ /\ result.node = callbackNode[r] /\ result.tasks = tasks[r]
              /\ result.priority = callbackPriority[r]
           \/ result.node = fresh /\ result.tasks = others \cup {fresh}
    BY <2>1 DEF ReusesTask
  <2>. HIDE DEF result
  <2>3. result.node \in Nat /\ result.tasks \in TaskSets
    BY <2>2, <1>3, <1>5, <1>6
  <2>4. \/ /\ result.node = callbackNode[r] /\ result.tasks = tasks[r]
           /\ result.priority = callbackPriority[r]
        \/ result.node \in result.tasks
    BY <2>2
  <2>. QED  BY <1>7, <1>10, <2>2, <2>3, <2>4 DEF next, w, marked, priority, result
<1>. QED  BY <1>8, <1>9, <1>10

LEMMA ScheduleTaskType ==
  ASSUME RootType, StackType, CallbackType, FrameType, NEW r \in Roots,
         NEW rec \in RootRecord(LanesInUse)
  PROVE  /\ ScheduleTask(r, rec).root \in RootRecord(LanesInUse)
         /\ ScheduleTask(r, rec).priority \in Lane
         /\ ScheduleTask(r, rec).node \in Nat
         /\ ScheduleTask(r, rec).tasks \in TaskSets
<1>1. MarkStarvedLanesAsExpired(rec) \in RootRecord(LanesInUse)
  BY MarkStarvedType
<1>. QED  BY <1>1, ScheduleTaskDecides, LanesFacts, Zenon DEF Lane

-----------------------------------------------------------------------------
LEMMA RangeAppend ==
  ASSUME NEW T, NEW s \in Seq(T), NEW x \in T
  PROVE  Range(Append(s, x)) = Range(s) \cup {x}
<1>1. PICK n \in Nat : n = Len(s)
  OBVIOUS
<1>2. DOMAIN s = 1..n /\ DOMAIN Append(s, x) = 1..(n + 1)
  BY <1>1
<1>3. \A i \in 1..n : Append(s, x)[i] = s[i]
  BY <1>1
<1>4. Append(s, x)[n + 1] = x
  BY <1>1
<1>. QED  BY <1>2, <1>3, <1>4 DEF Range

LEMMA HeadAndTail ==
  ASSUME NEW T, NEW s \in Seq(T), s # <<>>
  PROVE  /\ Head(s) \in T /\ Tail(s) \in Seq(T)
         /\ Range(s) = {Head(s)} \cup Range(Tail(s))
<1>1. PICK n \in Nat \ {0} : n = Len(s)
  OBVIOUS
<1>2. /\ DOMAIN s = 1..n /\ DOMAIN Tail(s) = 1..(n - 1)
      /\ Head(s) = s[1] /\ \A i \in 1..(n - 1) : Tail(s)[i] = s[i + 1]
  BY <1>1
<1>3. \A i \in 1..n : i = 1 \/ (i - 1 \in 1..(n - 1) /\ i = (i - 1) + 1)
  OBVIOUS
<1>4. Range(s) \subseteq {Head(s)} \cup Range(Tail(s))
  <2>1. SUFFICES ASSUME NEW i \in DOMAIN s
                 PROVE  s[i] \in {Head(s)} \cup Range(Tail(s))
    BY Zenon DEF Range
  <2>2. CASE i - 1 \in 1..(n - 1) /\ i = (i - 1) + 1
    <3>1. Tail(s)[i - 1] = s[i]
      BY <1>2, <2>2
    <3>. QED  BY <1>2, <2>2, <3>1, Zenon DEF Range
  <2>. QED  BY <1>2, <1>3, <2>2
<1>5. 1 \in 1..n /\ \A i \in 1..(n - 1) : i + 1 \in 1..n
  OBVIOUS
<1>6. {Head(s)} \cup Range(Tail(s)) \subseteq Range(s)
  BY <1>2, <1>5 DEF Range
<1>. QED  BY <1>1, <1>4, <1>6

LEMMA AppendListener ==
  ASSUME NEW s \in Seq(Listener), NEW l \in Listener
  PROVE  Append(s, l) \in Seq(Listener)
OBVIOUS

LEMMA AddListenerType ==
  ASSUME ProgramType, ListenerType, updates' = updates,
         NEW l \in Listener, AddListener(l)
  PROVE  ListenerType'
<1>1. Listener' = Listener
  BY DEF Listener, Ids
<1>2. l.id \in UpdateIds
  BY UpdateOf DEF Listener
<1>3. CASE UNCHANGED <<listeners, ready>>
  BY <1>1, <1>3 DEF ListenerType
<1>4. CASE ready' = Append(ready, l) /\ UNCHANGED listeners
  BY <1>1, <1>4, AppendListener DEF ListenerType
<1>5. CASE /\ listeners' = [listeners EXCEPT ![l.id] = Append(@, l)]
           /\ UNCHANGED ready
  <2>1. Append(listeners[l.id], l) \in Seq(Listener)
    BY <1>2, AppendListener DEF ListenerType
  <2>. QED  BY <1>1, <1>5, <2>1 DEF ListenerType
<1>. QED  BY <1>3, <1>4, <1>5 DEF AddListener, Listen

(* SetToSeq lists the elements of a finite set, each of them once.         *)
LEMMA SetToSeqLists ==
  ASSUME NEW S, IsFiniteSet(S)
  PROVE  SetToSeq(S) \in Seq(S) /\ Range(SetToSeq(S)) = S
<1>. DEFINE n == Cardinality(S)
            f == SetToSeq(S)
<1>1. n \in Nat /\ \E g : g \in Bijection(1..n, S)
  BY FS_CardinalityType DEF ExistsBijection
<1>2. PICK g : g \in Bijection(1..n, S)
  BY <1>1
<1>3. g \in [1..n -> S] /\ IsInjective(g)
  BY <1>2 DEF Bijection, Injection, IsInjective
<1>4. f \in [1..n -> S] /\ IsInjective(f)
  BY <1>3, Zenon DEF SetToSeq
<1>. HIDE DEF f
<1>5. f \in Injection(1..n, S)
  BY <1>4 DEF Injection
<1>6. IsFiniteSet(1..n) /\ Cardinality(1..n) = n
  BY <1>1, FS_Interval
<1>7. Range(f) \subseteq S
  BY <1>4 DEF Range
<1>8. f \in Surjection(1..n, Range(f))
  BY <1>4 DEF Surjection, Range
<1>9. f \in Bijection(1..n, Range(f))
  BY <1>4, <1>8 DEF Bijection, Injection, Surjection
<1>10. Cardinality(Range(f)) = n
  BY <1>6, <1>9, FS_Bijection DEF ExistsBijection
<1>11. Range(f) = S
  BY <1>7, <1>10, FS_Subset
<1>. QED  BY <1>1, <1>4, <1>11 DEF f

(* The listeners that a commit attaches: those of the fallbacks it shows,  *)
(* and no others.                                                          *)
LEMMA AttachesRetries ==
  ASSUME ProgramType, ListenerType, updates' = updates, NEW tree \in Tree,
         AttachRetryListeners(tree)
  PROVE  /\ ListenerType'
         /\ \A id \in UpdateIds :
              /\ Range(listeners[id]) \subseteq Range(listeners'[id])
              /\ Range(listeners'[id]) \subseteq
                   Range(listeners[id]) \cup
                     {RetryListener(i) : i \in NewRetries(tree)}
         /\ Range(ready') = Range(ready) \cup
              {RetryListener(i) : i \in NewRetries(tree) \cap resolved}
         /\ \A id \in NewRetries(tree) \ resolved :
              RetryListener(id) \in Range(listeners'[id])
<1>. DEFINE new == NewRetries(tree)
            late == {RetryListener(id) : id \in new \cap resolved}
<1>1. Listener' = Listener
  BY DEF Listener, Ids
<1>2. new \in SUBSET Ids /\ \A id \in Ids : id \in UpdateIds
  BY UpdateOf DEF NewRetries, Tree
<1>3. \A id \in new : RetryListener(id) \in Listener
  BY <1>2, UpdateOf DEF RetryListener, Listener, LaneSets
<1>4. IsFiniteSet(late)
  <2>1. IsFiniteSet(Ids)
    BY FS_Interval DEF Ids, ProgramType
  <2>2. IsFiniteSet(new \cap resolved)
    BY <1>2, <2>1, FS_Subset
  <2>3. ASSUME NEW S, IsFiniteSet(S)
        PROVE  IsFiniteSet({RetryListener(id) : id \in S})
    <3>. DEFINE T == {RetryListener(id) : id \in S}
                f == [id \in S |-> RetryListener(id)]
    <3>1. f \in Surjection(S, T)
      BY DEF Surjection
    <3>. QED  BY <2>3, <3>1, FS_Surjection DEF ExistsSurjection
  <2>. HIDE DEF new
  <2>. QED  BY <2>2, <2>3, Zenon
<1>5. SetToSeq(late) \in Seq(late) /\ Range(SetToSeq(late)) = late
  BY <1>4, SetToSeqLists, Zenon
<1>6. late \subseteq Listener
  BY <1>3
<1>7. listeners' = [id \in UpdateIds |->
        IF id \in new \ resolved
        THEN Append(listeners[id], RetryListener(id)) ELSE listeners[id]]
  BY DEF AttachRetryListeners
<1>8. ready' = ready \o SetToSeq(late)
  BY DEF AttachRetryListeners
<1>. HIDE DEF new, late
<1>9. listeners' \in [UpdateIds -> Seq(Listener)]
  BY <1>2, <1>3, <1>7, AppendListener DEF ListenerType
<1>10. ready' \in Seq(Listener)
  <2>1. SetToSeq(late) \in Seq(Listener)
    BY <1>5, <1>6
  <2>. QED  BY <1>8, <2>1 DEF ListenerType
<1>11. \A id \in UpdateIds :
         Range(listeners'[id]) = Range(listeners[id]) \cup
           (IF id \in new \ resolved THEN {RetryListener(id)} ELSE {})
  <2>1. SUFFICES ASSUME NEW id \in UpdateIds
                 PROVE  Range(listeners'[id]) = Range(listeners[id]) \cup
                          (IF id \in new \ resolved THEN {RetryListener(id)} ELSE {})
    OBVIOUS
  <2>2. listeners[id] \in Seq(Listener)
    BY DEF ListenerType
  <2>3. CASE id \in new \ resolved
    BY <1>3, <1>7, <2>2, <2>3, RangeAppend
  <2>4. CASE id \notin new \ resolved
    BY <1>7, <2>4
  <2>. QED  BY <2>3, <2>4
<1>12. Range(ready') = Range(ready) \cup late
  BY <1>5, <1>6, <1>8, RangeConcatenation DEF ListenerType
<1>. QED  BY <1>1, <1>2, <1>9, <1>10, <1>11, <1>12 DEF ListenerType, new, late

LEMMA RemainingLanesInUse ==
  ASSUME QueueType, NEW r, NEW tree
  PROVE  RemainingLanes(r, tree) \in LaneSets
<1>1. WorkOf(r) \ tree.done \in SUBSET QueuedItem
  BY DEF WorkOf, QueueType
<1>. QED  BY <1>1, ItemLanes DEF RemainingLanes, QueueType, LaneSets

LEMMA CommitRootType ==
  ASSUME DataType, NEW r \in Roots, NEW tree \in Tree, CommitRoot(r, tree)
  PROVE  /\ ProgramType' /\ QueueType' /\ RootType' /\ StackType' /\ CommitType'
         /\ ListenerType' /\ FlagType' /\ CallbackType' /\ ClaimType'
         /\ Frame' = Frame
<1>. USE DEF DataType
<1>1. /\ Ids' = Ids /\ QueuedItem' = QueuedItem /\ Stack' = Stack /\ Tree' = Tree
      /\ Frame' = Frame
  BY DEF Ids, QueuedItem, Stack, Tree, CommitRoot, Frame
<1>2. ProgramType'
  BY <1>1 DEF ProgramType, CommitRoot, Tree
<1>3. QueueType'
  BY <1>1 DEF QueueType, CommitRoot
<1>4. RootType'
  BY RemainingLanesInUse, MarkRootFinishedType DEF RootType, CommitRoot, LaneSets
<1>5. StackType'
  BY <1>1 DEF StackType, Stack, CommitRoot, LaneSets
<1>6. CommitType'
  BY <1>1, NoTreeType DEF CommitType, CommitRoot
<1>7. ListenerType'
  BY AttachesRetries DEF CommitRoot
<1>8. FlagType'
  BY DEF FlagType, CommitRoot, flagVars
<1>9. CallbackType'
  BY DEF CallbackType, CommitRoot, KeepDangling, Lane
<1>10. ClaimType'
  BY DEF ClaimType, CommitRoot, claimVars
<1>. QED  BY <1>1, <1>2, <1>3, <1>4, <1>5, <1>6, <1>7, <1>8, <1>9, <1>10

LEMMA FinishedTreeType ==
  ASSUME StackType, attempt \in Frame
  PROVE  FinishedTree \in Tree
BY DEF StackType, FinishedTree, Tree, Stack, Frame, Recovered

LEMMA AttemptType ==
  ASSUME NEW r \in Roots, NEW lanes \in LaneSets, NEW concurrent \in BOOLEAN,
         NEW sync \in BOOLEAN
  PROVE  /\ Attempt(r, lanes, concurrent, sync) \in Frame
         /\ Attempt(r, lanes, concurrent, sync).root = r
         /\ Attempt(r, lanes, concurrent, sync).lanes = lanes
         /\ Attempt(r, lanes, concurrent, sync).concurrent = concurrent
         /\ Attempt(r, lanes, concurrent, sync).sync = sync
         /\ Attempt(r, lanes, concurrent, sync).phase = "first"
BY DEF Attempt, NoAttempt, Frame, LaneSets

LEMMA NoAttemptType == NoAttempt \in Frame
BY DEF NoAttempt, Frame, LaneSets

(* A render begins: the stack is the attempt's.                            *)
LEMMA RenderRootBegins ==
  ASSUME NEW r, NEW lanes, RenderRoot(r, lanes),
         wip.reason # "NotSuspended" => wip.todo # {}
  PROVE  /\ pc' = "render" /\ wip'.root = r /\ wip'.lanes = lanes
         /\ wip'.reason # "NotSuspended" => wip'.todo # {}
BY DEF RenderRoot, PrepareFreshStack, FreshStack


LEMMA UnchangedTypes ==
  ASSUME DataType
  PROVE  /\ UNCHANGED updates =>
              /\ Ids' = Ids /\ QueuedItem' = QueuedItem /\ Stack' = Stack
              /\ Tree' = Tree /\ Listener' = Listener /\ Frame' = Frame
         /\ UNCHANGED screenVars => ProgramType'
         /\ UNCHANGED <<updates, work, concurrentQueues>> => QueueType'
         /\ UNCHANGED root => RootType'
         /\ UNCHANGED <<updates, wip>> => StackType'
         /\ UNCHANGED <<updates, finished, pendingCommit>> => CommitType'
         /\ UNCHANGED <<updates, listeners, ready>> => ListenerType'
         /\ UNCHANGED <<schedule, didScheduleMicrotask, mightHavePendingSyncWork,
                        isFlushingWork, recentFallback>> => FlagType'
         /\ UNCHANGED <<callbackNode, callbackPriority, tasks, dangling>> => CallbackType'
         /\ UNCHANGED <<currentEventTransitionLane, nextTransitionLane,
                        nextRetryLane>> => ClaimType'
<1>1. ASSUME UNCHANGED updates
      PROVE  /\ Ids' = Ids /\ QueuedItem' = QueuedItem /\ Stack' = Stack
             /\ Tree' = Tree /\ Listener' = Listener /\ Frame' = Frame
  BY <1>1 DEF Ids, QueuedItem, Stack, Tree, Listener, Frame
<1>2. ASSUME UNCHANGED screenVars PROVE ProgramType'
  BY <1>2 DEF screenVars, DataType, ProgramType, Ids
<1>. QED
  BY <1>1, <1>2 DEF DataType, QueueType, RootType, StackType, CommitType,
     ListenerType, FlagType, CallbackType, ClaimType

(* Every action but Update leaves the updates alone.                       *)
LEMMA DataStep ==
  ASSUME DataType,
         /\ ProgramType' /\ QueueType' /\ RootType' /\ StackType' /\ CommitType'
         /\ ListenerType' /\ FlagType' /\ CallbackType' /\ ClaimType'
         /\ FrameType'
  PROVE  DataType'
BY DEF DataType

LEMMA UpdateTypes ==
  ASSUME TypeInv, NEW r \in Roots, NEW eventLane \in LanesInUse,
         NEW content \in Contents, Update(r, eventLane, content)
  PROVE  DataType' /\ Ids \subseteq Ids'
<1>. USE DEF TypeInv, DataType
<1>1. PICK lane \in LanesInUse :
        /\ RequestUpdateLane(eventLane, lane)
        /\ updates' = Append(updates,
                             [root |-> r, lane |-> lane, content |-> content])
        /\ ScheduleUpdateOnFiber(r, lane, [id |-> Len(updates) + 1, lane |-> lane])
  BY DEF Update
<1>2. PICK n \in Nat : n = Len(updates)
  BY DEF ProgramType
<1>3. /\ updates' \in Seq(UpdateRecord) /\ Len(updates') = n + 1
      /\ n + 1 <= MaxUpdates
  BY <1>1, <1>2, MaxUpdatesAssumption DEF Update, ProgramType, UpdateRecord
<1>4. Ids \subseteq Ids' /\ n + 1 \in Ids'
  BY <1>2, <1>3 DEF Ids
<1>5. ProgramType'
  BY <1>3, <1>4 DEF ProgramType, Update
<1>6. [id |-> n + 1, lane |-> lane] \in QueuedItem'
  BY <1>4 DEF QueuedItem
<1>7. QueueType' /\ RootType' /\ StackType' /\ CommitType' /\ FlagType'
  BY <1>1, <1>2, <1>4, <1>6, ScheduleUpdateType DEF Update, listenerVars
<1>8. ListenerType'
  <2>1. Listener \subseteq Listener'
    BY <1>4 DEF Listener
  <2>2. listeners' = listeners /\ ready' = ready
    BY DEF Update, listenerVars
  <2>3. \A t \in Seq(Listener) : t \in Seq(Listener')
    BY <2>1
  <2>. QED  BY <2>2, <2>3 DEF ListenerType
<1>9. CallbackType'
  BY DEF Update, callbackVars, CallbackType
<1>10. ClaimType'
  BY <1>1, LanesFacts DEF Update, ClaimType, RequestUpdateLane
<1>11. FrameType'
  BY DEF Update, frameVars, FrameType, Frame
<1>. QED  BY <1>4, <1>5, <1>7, <1>8, <1>9, <1>10, <1>11


(* The steps of the work loop: the stack and the listeners change, and the *)
(* root when a render gives up.                                            *)
LEMMA RenderTypes ==
  ASSUME TypeInv, Render
  PROVE  TypeInv'
<1>. USE DEF TypeInv, DataType
<1>1. /\ UNCHANGED updates /\ ProgramType' /\ CallbackType' /\ ClaimType'
      /\ CommitType' /\ FlagType'
  <2>1. /\ UNCHANGED <<screenVars, commitVars, flagVars, isFlushingWork>>
        /\ UNCHANGED <<callbackVars, claimVars, recentFallback>>
    BY DEF Render, SkipUnit, RenderUnit, UnitThrows, UnitSuspends, Replay,
       WaitForData, YieldToMicrotasks, Unwind, CompleteRender, renderUnchanged,
       listenerVars
  <2>. QED
    BY <2>1, UnchangedTypes DEF screenVars, commitVars, flagVars, callbackVars,
       claimVars
<1>2. /\ Stack' = Stack /\ Frame' = Frame
  BY <1>1, UnchangedTypes
<1>3. wip.todo # {} => /\ Unit \in Ids /\ Included(Unit) \in SUBSET QueuedItem
                       /\ Rest(Unit) \in SUBSET QueuedItem
  BY UnitIsToDo
<1>4. pc = "render" => wip.root \in Roots
  BY DEF FrameInv
<1>5. CASE SkipUnit
  <2>1. LanesOf({i \in wip.todo : i.id = Unit}) \in LaneSets
    BY ItemLanes DEF StackType, Stack
  <2>2. StackType'
    BY <1>2, <1>3, <1>5, <2>1 DEF SkipUnit, Rendering, StackType, Stack, LaneSets
  <2>3. QueueType' /\ RootType' /\ ListenerType'
    BY <1>5, UnchangedTypes DEF SkipUnit, renderUnchanged, queueVars, screenVars
  <2>4. FrameType' /\ FrameInv'
    BY <1>2, <1>5 DEF SkipUnit, Rendering, renderUnchanged, FrameType, FrameInv,
       StackType, Stack
  <2>. QED  BY <1>1, <2>2, <2>3, <2>4
<1>6. CASE RenderUnit
  <2>1. StackType'
    BY <1>2, <1>3, <1>6 DEF RenderUnit, Rendering, StackType, Stack
  <2>2. QueueType' /\ RootType' /\ ListenerType'
    BY <1>6, UnchangedTypes DEF RenderUnit, renderUnchanged, queueVars, screenVars
  <2>3. FrameType' /\ FrameInv'
    BY <1>2, <1>6 DEF RenderUnit, Rendering, renderUnchanged, FrameType, FrameInv,
       StackType, Stack
  <2>. QED  BY <1>1, <2>1, <2>2, <2>3
<1>7. CASE UnitThrows
  <2>1. StackType'
    <3>. DEFINE exit == IF wip.exit = "SuspendedWithDelay"
                        THEN wip.exit ELSE "Errored"
    <3>1. exit \in ExitStatus
      BY DEF ExitStatus
    <3>2. wip' = [wip EXCEPT !.rendered = @ \cup {Unit},
                             !.done = @ \cup Included(Unit), !.todo = Rest(Unit),
                             !.exit = exit]
      BY <1>7 DEF UnitThrows
    <3>3. wip.todo # {}
      BY <1>7 DEF UnitThrows, Rendering
    <3>. HIDE DEF exit
    <3>. QED  BY <1>2, <1>3, <3>1, <3>2, <3>3 DEF StackType, Stack
  <2>2. QueueType' /\ RootType' /\ ListenerType'
    BY <1>7, UnchangedTypes DEF UnitThrows, renderUnchanged, queueVars, screenVars
  <2>3. FrameType' /\ FrameInv'
    BY <1>2, <1>7 DEF UnitThrows, Rendering, renderUnchanged, FrameType, FrameInv,
       StackType, Stack
  <2>. QED  BY <1>1, <2>1, <2>2, <2>3
<1>8. CASE UnitSuspends
  <2>1. StackType'
    BY <1>2, <1>8 DEF UnitSuspends, Rendering, StackType, Stack
  <2>2. QueueType' /\ RootType' /\ ListenerType'
    BY <1>8, UnchangedTypes DEF UnitSuspends, renderUnchanged, queueVars, screenVars
  <2>3. FrameType' /\ FrameInv'
    BY <1>2, <1>8 DEF UnitSuspends, Rendering, renderUnchanged, FrameType,
       FrameInv, StackType, Stack
  <2>. QED  BY <1>1, <2>1, <2>2, <2>3
<1>9. CASE Replay
  <2>1. StackType'
    BY <1>2, <1>9 DEF Replay, StackType, Stack
  <2>2. QueueType' /\ RootType' /\ ListenerType'
    BY <1>9, UnchangedTypes DEF Replay, renderUnchanged, queueVars, screenVars
  <2>3. FrameType' /\ FrameInv'
    BY <1>2, <1>9 DEF Replay, renderUnchanged, FrameType, FrameInv, StackType, Stack
  <2>. QED  BY <1>1, <2>1, <2>2, <2>3
<1>10. CASE WaitForData
  <2>1. Unit \in Ids
    BY <1>3, <1>10 DEF WaitForData, FrameInv
  <2>2. [kind |-> "continue", id |-> Unit, root |-> wip.root, lanes |-> {}] \in Listener
    BY <1>4, <1>10, <2>1 DEF WaitForData, Listener, LaneSets
  <2>3. ListenerType'
    BY <1>1, <1>10, <2>2, AddListenerType DEF WaitForData
  <2>4. QueueType' /\ RootType' /\ StackType'
    BY <1>10, UnchangedTypes DEF WaitForData, renderUnchanged, queueVars, screenVars
  <2>5. FrameType' /\ FrameInv'
    BY <1>2, <1>10 DEF WaitForData, renderUnchanged, FrameType, FrameInv
  <2>. QED  BY <1>1, <2>3, <2>4, <2>5
<1>11. CASE YieldToMicrotasks
  <2>1. StackType'
    BY <1>2, <1>11 DEF YieldToMicrotasks, StackType, Stack
  <2>2. QueueType' /\ RootType' /\ ListenerType'
    BY <1>11, UnchangedTypes DEF YieldToMicrotasks, renderUnchanged, queueVars,
       screenVars
  <2>3. FrameType' /\ FrameInv'
    BY <1>2, <1>11 DEF YieldToMicrotasks, renderUnchanged, FrameType, FrameInv,
       StackType, Stack
  <2>. QED  BY <1>1, <2>1, <2>2, <2>3
<1>12. CASE Unwind
  <2>1. wip.todo # {} /\ pc = "render"
    BY <1>12 DEF Unwind, FrameInv
  <2>2. PingListener(Unit) \in Listener
    BY <1>3, <1>4, <2>1 DEF PingListener, Listener, StackType, Stack
  <2>3. ListenerType'
    BY <1>1, <1>12, <2>2, AddListenerType DEF Unwind
  <2>4. StackType'
    <3>1. \A captured \in BOOLEAN : SuspendedExit(captured) \in ExitStatus
      BY DEF SuspendedExit, StackType, Stack, ExitStatus
    <3>. DEFINE captured == updates[Unit].content # "root"
                exit == SuspendedExit(captured)
                hidden == IF captured THEN wip.hidden \cup {Unit} ELSE wip.hidden
                done == IF captured THEN wip.done \cup Included(Unit) ELSE wip.done
                todo == IF captured THEN Rest(Unit) ELSE {}
                attached == wip.didAttachPing \/ ~Wakes(PingListener(Unit))
    <3>2. /\ exit \in ExitStatus /\ hidden \in SUBSET Ids
          /\ done \in SUBSET QueuedItem /\ todo \in SUBSET QueuedItem
          /\ captured \in BOOLEAN
      BY <1>3, <2>1, <3>1 DEF StackType, Stack
    <3>3. attached \in BOOLEAN
      BY DEF StackType, Stack
    <3>4. wip' = [wip EXCEPT !.reason = "NotSuspended", !.exit = exit,
                    !.hidden = hidden, !.done = done, !.todo = todo,
                    !.complete = captured, !.didAttachPing = attached]
      BY <1>12, Zenon DEF Unwind
    <3>. HIDE DEF captured, exit, hidden, done, todo, attached
    <3>5. wip \in Stack
      BY DEF StackType
    <3>6. wip' \in Stack
      BY <3>2, <3>3, <3>4, <3>5 DEF Stack
    <3>. QED  BY <1>2, <3>6 DEF StackType
  <2>5. RootType'
    <3>1. root[wip.root] \in RootRecord(LanesInUse) /\ wip.lanes \in LaneSets
      BY <1>4, <2>1 DEF RootType, StackType, Stack
    <3>2. Suspend(root[wip.root], wip.lanes) \in RootRecord(LanesInUse)
      BY <3>1, SuspendType
    <3>. QED  BY <1>4, <1>12, <2>1, <3>2 DEF Unwind, RootType
  <2>6. QueueType'
    BY <1>12, UnchangedTypes DEF Unwind, renderUnchanged, queueVars, screenVars
  <2>7. FrameType' /\ FrameInv'
    BY <1>2, <1>12 DEF Unwind, renderUnchanged, FrameType, FrameInv, StackType, Stack
  <2>. QED  BY <1>1, <2>3, <2>4, <2>5, <2>6, <2>7
<1>13. CASE CompleteRender
  <2>1. StackType'
    BY <1>2, <1>13 DEF CompleteRender, StackType, Stack, LaneSets, ExitStatus
  <2>2. QueueType'
    BY <1>1, <1>13, UnchangedTypes DEF CompleteRender, FinishQueueing, QueueType
  <2>3. RootType' /\ ListenerType'
    BY <1>13, UnchangedTypes DEF CompleteRender, listenerVars, screenVars
  <2>4. FrameType' /\ FrameInv'
    BY <1>2, <1>13 DEF CompleteRender, FrameType, FrameInv, StackType, Stack
  <2>. QED  BY <1>1, <2>1, <2>2, <2>3, <2>4
<1>. QED
  BY <1>5, <1>6, <1>7, <1>8, <1>9, <1>10, <1>11, <1>12, <1>13 DEF Render


LEMMA RetryLanesInUse ==
  ASSUME RootType, attempt.root \in Roots
  PROVE  ErrorRetryLanes \in LaneSets
BY DEF ErrorRetryLanes, LanesToRetrySynchronouslyOnError, RootType, RootRecord,
   LaneSets

(* What follows a render, up to the layout effects of its commit.          *)
LEMMA ExitTypes ==
  ASSUME TypeInv, Exit
  PROVE  TypeInv'
<1>. USE DEF TypeInv, DataType
<1>1. /\ pc = "exit" /\ attempt.root \in Roots /\ attempt \in Frame
      /\ attempt.lanes \in LaneSets
  BY DEF Exit, RenderTornTree, RetryAfterError, SuspendRecovery, DidNotComplete,
     SuspendIndefinitely, ThrottleRetries, SuspendCommit, CommitSync,
     CommitConcurrent, FinishesConcurrent, Exits, FrameInv, FrameType, Frame
<1>2. UNCHANGED updates
  BY DEF Exit, RenderTornTree, RetryAfterError, SuspendRecovery, DidNotComplete,
     SuspendIndefinitely, ThrottleRetries, SuspendCommit, CommitSync,
     CommitConcurrent, finishUnchanged, screenVars, CommitRoot
<1>3. /\ Ids' = Ids /\ QueuedItem' = QueuedItem /\ Stack' = Stack /\ Tree' = Tree
      /\ Listener' = Listener /\ Frame' = Frame
  BY <1>2, UnchangedTypes
<1>4. SuspendRoot => RootType'
  <2>1. Suspend(root[attempt.root], attempt.lanes) \in RootRecord(LanesInUse)
    BY <1>1, SuspendType DEF RootType
  <2>. QED  BY <1>1, <2>1 DEF SuspendRoot, RootType
<1>5. FinishedTree \in Tree
  BY <1>1, FinishedTreeType
<1>6. CASE RenderTornTree
  <2>1. QueueType' /\ StackType' /\ CommitType'
    BY <1>1, <1>2, <1>6, RenderRootType DEF RenderTornTree
  <2>2. /\ ProgramType' /\ RootType' /\ ListenerType' /\ FlagType'
        /\ CallbackType' /\ ClaimType'
    BY <1>6, UnchangedTypes DEF RenderTornTree, screenVars, listenerVars, flagVars,
       callbackVars, claimVars
  <2>3. /\ pc' = "render" /\ wip'.root = attempt.root /\ wip'.lanes = attempt.lanes
        /\ wip'.reason # "NotSuspended" => wip'.todo # {}
    BY <1>6, RenderRootBegins DEF RenderTornTree, FrameInv
  <2>4. attempt' = [attempt EXCEPT !.concurrent = FALSE] /\ task' = task
    BY <1>6 DEF RenderTornTree
  <2>5. FrameType'
    BY <1>1, <1>3, <2>3, <2>4 DEF FrameType, Frame
  <2>6. FrameInv'
    BY <1>1, <2>3, <2>4 DEF FrameInv, Frame
  <2>. QED  BY <2>1, <2>2, <2>5, <2>6
<1>7. CASE RetryAfterError
  <2>0. ErrorRetryLanes \in LaneSets
    BY <1>1, RetryLanesInUse
  <2>1. QueueType' /\ StackType' /\ CommitType'
    BY <1>1, <1>2, <1>7, <2>0, RenderRootType DEF RetryAfterError
  <2>2. /\ ProgramType' /\ RootType' /\ ListenerType' /\ FlagType'
        /\ CallbackType' /\ ClaimType'
    BY <1>7, UnchangedTypes DEF RetryAfterError, screenVars, listenerVars, flagVars,
       callbackVars, claimVars
  <2>3. /\ pc' = "render" /\ wip'.root = attempt.root
        /\ wip'.lanes = ErrorRetryLanes /\ ErrorRetryLanes # {}
        /\ wip'.reason # "NotSuspended" => wip'.todo # {}
    BY <1>7, RenderRootBegins DEF RetryAfterError, FrameInv
  <2>4. /\ attempt' = [attempt EXCEPT !.lanes = ErrorRetryLanes,
                                      !.concurrent = FALSE,
                                      !.phase = "recovering",
                                      !.errored = attempt.lanes]
        /\ task' = task
    BY <1>7 DEF RetryAfterError
  <2>5. FrameType'
    BY <1>1, <1>3, <2>0, <2>3, <2>4 DEF FrameType, Frame
  <2>6. FrameInv'
    BY <1>1, <2>3, <2>4 DEF FrameInv, Frame
  <2>. QED  BY <2>1, <2>2, <2>5, <2>6
<1>8. CASE SuspendRecovery
  <2>1. /\ ProgramType' /\ QueueType' /\ CommitType' /\ ListenerType' /\ FlagType'
        /\ CallbackType' /\ ClaimType'
    BY <1>8, UnchangedTypes DEF SuspendRecovery, screenVars, queueVars, commitVars,
       listenerVars, flagVars, callbackVars, claimVars
  <2>2. RootType'
    <3>. DEFINE rec == [root[attempt.root] EXCEPT
                          !.errorRecoveryDisabledLanes = @ \cup attempt.errored]
    <3>0. root[attempt.root] \in RootRecord(LanesInUse) /\ attempt.errored \in LaneSets
      BY <1>1 DEF RootType, Frame
    <3>1. rec \in RootRecord(LanesInUse)
      BY <3>0, DisableErrorRecoveryType DEF LaneSets
    <3>2. root' = [root EXCEPT ![attempt.root] = rec]
      BY <1>8 DEF SuspendRecovery
    <3>. HIDE DEF rec
    <3>. QED  BY <3>1, <3>2 DEF RootType
  <2>3. StackType'
    BY <1>1, <1>3, <1>8 DEF SuspendRecovery, StackType, Stack, Frame, LaneSets,
       ExitStatus
  <2>4. FrameType'
    BY <1>1, <1>3, <1>8 DEF SuspendRecovery, FrameType, Frame
  <2>5. FrameInv'
    BY <1>1, <1>8 DEF SuspendRecovery, FrameInv, Frame, StackType, Stack
  <2>. QED  BY <2>1, <2>2, <2>3, <2>4, <2>5
<1>9. CASE DidNotComplete
  <2>1. /\ ProgramType' /\ QueueType' /\ StackType' /\ CommitType' /\ ListenerType'
        /\ CallbackType' /\ ClaimType'
    BY <1>9, UnchangedTypes DEF DidNotComplete, screenVars, queueVars, commitVars,
       listenerVars, callbackVars, claimVars
  <2>2. RootType'
    BY <1>4, <1>9 DEF DidNotComplete
  <2>3. FlagType'
    BY <1>1, <1>9 DEF DidNotComplete, FlagType, EnsureRootIsScheduled, flagVars,
       listenerVars
  <2>4. FrameType' /\ FrameInv'
    BY <1>1, <1>3, <1>9 DEF DidNotComplete, FrameType, FrameInv
  <2>. QED  BY <2>1, <2>2, <2>3, <2>4
<1>10. CASE SuspendIndefinitely \/ ThrottleRetries \/ SuspendCommit
  <2>1. /\ UNCHANGED finishUnchanged
        /\ finished' = [finished EXCEPT ![attempt.root] = FinishedTree]
        /\ SuspendRoot /\ pc' = "end" /\ FinishesConcurrent
    BY <1>10 DEF SuspendIndefinitely, ThrottleRetries, SuspendCommit, finishUnchanged
  <2>2. /\ ProgramType' /\ QueueType' /\ StackType' /\ ListenerType' /\ FlagType'
        /\ CallbackType' /\ ClaimType'
    BY <2>1, UnchangedTypes DEF finishUnchanged, screenVars, queueVars,
       listenerVars, flagVars, callbackVars, claimVars
  <2>3. pendingCommit' \in [Roots -> {"no", "throttled", "host"}]
    BY <1>10 DEF SuspendIndefinitely, ThrottleRetries, SuspendCommit, CommitType
  <2>4. CommitType'
    BY <1>3, <1>5, <2>1, <2>3 DEF CommitType
  <2>5. FrameType' /\ FrameInv'
    BY <1>1, <1>3, <2>1 DEF finishUnchanged, FrameType, FrameInv, FinishesConcurrent
  <2>. QED  BY <1>4, <2>1, <2>2, <2>4, <2>5
<1>11. CASE CommitSync \/ CommitConcurrent
  <2>1. /\ CommitRoot(attempt.root, FinishedTree)
        /\ attempt' = [attempt EXCEPT !.recovered = Recovered]
        /\ ~attempt.sync => FinishesConcurrent
    BY <1>11 DEF CommitSync, CommitConcurrent
  <2>2. /\ ProgramType' /\ QueueType' /\ RootType' /\ StackType' /\ CommitType'
        /\ ListenerType' /\ FlagType' /\ CallbackType' /\ ClaimType'
    BY <1>1, <1>5, <2>1, CommitRootType
  <2>3. pc' = "layout" /\ task' = task /\ wip'.reason = wip.reason
        /\ wip'.todo = wip.todo
    BY <2>1 DEF CommitRoot, StackType, Stack
  <2>4. FrameType'
    BY <1>1, <1>3, <2>1, <2>3 DEF FrameType, Frame, Recovered
  <2>5. FrameInv'
    BY <1>1, <2>1, <2>3 DEF FrameInv, Frame
  <2>. QED  BY <2>2, <2>4, <2>5
<1>. QED  BY <1>6, <1>7, <1>8, <1>9, <1>10, <1>11 DEF Exit

(* Updates, in events and in layout effects.                               *)
LEMMA EventTypes ==
  ASSUME TypeInv, EventUpdate \/ LayoutUpdate
  PROVE  TypeInv'
<1>. USE DEF TypeInv
<1>1. environment \in Environment
  BY EnvironmentsAssumption DEF DataType, ProgramType
<1>2. PICK r \in Roots, eventLane \in LanesInUse, content \in Contents :
        Update(r, eventLane, content)
  BY <1>1, LanesFacts DEF EventUpdate, LayoutUpdate, Environment, Contents
<1>3. DataType'
  BY <1>2, UpdateTypes
<1>4. /\ UNCHANGED frameVars
      /\ pc = "idle" \/ pc = "layout"
  BY <1>2 DEF Update, EventUpdate, LayoutUpdate
<1>5. wip'.reason # "NotSuspended" => wip'.todo # {}
  <2>1. PICK lane : ScheduleUpdateOnFiber(r, lane, [id |-> Len(updates) + 1, lane |-> lane])
    BY <1>2 DEF Update
  <2>2. \/ wip' = [FreshStack(r, {}, {}) EXCEPT !.interleaved = {lane}]
        \/ wip' = [wip EXCEPT !.interleaved = @ \cup {lane}]
        \/ wip' = wip
    BY <2>1 DEF ScheduleUpdateOnFiber
  <2>3. FreshStack(r, {}, {}).reason = "NotSuspended"
    BY DEF FreshStack
  <2>. QED  BY <2>2, <2>3 DEF FrameInv, FreshStack, DataType, StackType, Stack
<1>. QED  BY <1>3, <1>4, <1>5 DEF FrameInv, frameVars

(* What the microtask, the Scheduler and flushSync do before a render.     *)
LEMMA ScheduleTypes ==
  ASSUME TypeInv, ProcessRootSchedule \/ FlushSync \/ YieldToHost \/ FlushDone
  PROVE  TypeInv'
<1>. USE DEF TypeInv, DataType
<1>1. /\ UNCHANGED <<screenVars, queueVars, wip, commitVars, listeners, ready,
                     recentFallback>>
      /\ UNCHANGED <<nextTransitionLane, nextRetryLane, task>>
  BY DEF ProcessRootSchedule, FlushSync, YieldToHost, FlushDone, listenerVars,
     claimVars
<1>2. /\ ProgramType' /\ QueueType' /\ StackType' /\ CommitType' /\ ListenerType'
      /\ Frame' = Frame
  BY <1>1, UnchangedTypes DEF screenVars, queueVars, commitVars
<1>3. attempt' = attempt \/ attempt' = NoAttempt
  BY DEF ProcessRootSchedule, FlushSync, YieldToHost, FlushDone
<1>4. /\ pc' \in {"idle", "flush", "end"}
      /\ pc' = "end" => task # NoTask
      /\ pc' = "idle" => task = NoTask
  BY DEF ProcessRootSchedule, FlushSync, YieldToHost, FlushDone, FlushSyncWork,
     FrameInv
<1>5. FrameType'
  <2>1. task' = task /\ attempt' \in Frame
    BY <1>1, <1>3, NoAttemptType DEF FrameType
  <2>. QED  BY <1>2, <1>4, <2>1 DEF FrameType
<1>6. FrameInv'
  BY <1>1, <1>3, <1>4 DEF FrameInv, NoAttempt
<1>7. CASE ProcessRootSchedule
  <2>1. /\ FlagType'
    BY <1>1, <1>7 DEF ProcessRootSchedule, FlagType, FlushSyncWork
  <2>2. ClaimType'
    BY <1>1, <1>7 DEF ProcessRootSchedule, ClaimType
  <2>3. PICK isPopState \in IF environment.popState THEN BOOLEAN ELSE {FALSE} :
          LET Upgraded(r) ==
                IF isPopState /\ currentEventTransitionLane # NoLane
                THEN UpgradePendingLaneToSync(root[r], currentEventTransitionLane)
                ELSE root[r]
              result == [r \in schedule |-> ScheduleTask(r, Upgraded(r))]
              Set(f, field) ==
                [r \in Roots |-> IF r \in schedule THEN result[r][field] ELSE f[r]]
          IN  /\ root' = Set(root, "root")
              /\ callbackNode' = Set(callbackNode, "node")
              /\ callbackPriority' = Set(callbackPriority, "priority")
              /\ tasks' = Set(tasks, "tasks")
              /\ schedule' = {r \in schedule : result[r].priority # NoLane}
              /\ mightHavePendingSyncWork' =
                   (\E r \in schedule : result[r].priority = SyncLane)
    BY <1>7, Zenon DEF ProcessRootSchedule
  <2>. DEFINE Upgraded(r) ==
                IF isPopState /\ currentEventTransitionLane # NoLane
                THEN UpgradePendingLaneToSync(root[r], currentEventTransitionLane)
                ELSE root[r]
  <2>4. \A r \in schedule : r \in Roots /\ Upgraded(r) \in RootRecord(LanesInUse)
    <3>1. currentEventTransitionLane # NoLane => currentEventTransitionLane \in LanesInUse
      BY LanesFacts DEF ClaimType
    <3>. QED  BY <3>1, LanesFacts, UpgradeType DEF RootType, FlagType
  <2>. HIDE DEF Upgraded
  <2>5. \A r \in schedule : /\ ScheduleTask(r, Upgraded(r)).root \in RootRecord(LanesInUse)
                            /\ ScheduleTask(r, Upgraded(r)).priority \in Lane
                            /\ ScheduleTask(r, Upgraded(r)).node \in Nat
                            /\ ScheduleTask(r, Upgraded(r)).tasks \in TaskSets
    BY <2>4, ScheduleTaskType
  <2>6. /\ root' = [r \in Roots |-> IF r \in schedule
                                    THEN ScheduleTask(r, Upgraded(r)).root ELSE root[r]]
        /\ callbackNode' = [r \in Roots |-> IF r \in schedule
                THEN ScheduleTask(r, Upgraded(r)).node ELSE callbackNode[r]]
        /\ callbackPriority' = [r \in Roots |-> IF r \in schedule
                THEN ScheduleTask(r, Upgraded(r)).priority ELSE callbackPriority[r]]
        /\ tasks' = [r \in Roots |-> IF r \in schedule
                THEN ScheduleTask(r, Upgraded(r)).tasks ELSE tasks[r]]
    BY <2>3 DEF Upgraded
  <2>7. dangling' \subseteq Roots
    BY <1>7 DEF ProcessRootSchedule, KeepDangling, CallbackType
  <2>8. RootType' /\ CallbackType'
    BY <2>5, <2>6, <2>7 DEF RootType, CallbackType, Lane
  <2>. QED  BY <1>2, <1>5, <1>6, <2>1, <2>2, <2>8
<1>8. CASE FlushSync \/ YieldToHost \/ FlushDone
  <2>1. /\ UNCHANGED <<root, callbackVars, claimVars, flagVars>>
        /\ isFlushingWork' \in BOOLEAN
    BY <1>8 DEF FlushSync, YieldToHost, FlushDone, FlushSyncWork, FlagType
  <2>2. RootType' /\ CallbackType' /\ ClaimType'
    BY <2>1, UnchangedTypes DEF callbackVars, claimVars
  <2>3. FlagType'
    BY <1>1, <2>1 DEF FlagType, flagVars
  <2>. QED  BY <1>2, <1>5, <1>6, <2>2, <2>3
<1>. QED  BY <1>7, <1>8

(* A render begins, in a task or in a flush.                               *)
LEMMA StartTypes ==
  ASSUME TypeInv, NEW r \in Roots,
         \/ \E node \in tasks[r] : StartTask(r, node)
         \/ \E node \in tasks[r] : StartTaskWithoutLanes(r, node)
         \/ FlushRoot(r)
  PROVE  TypeInv'
<1>. USE DEF TypeInv, DataType
<1>1. UNCHANGED <<screenVars, root, listenerVars, flagVars, isFlushingWork,
                  callbackNode, callbackPriority, claimVars>>
  BY DEF StartTask, StartTaskWithoutLanes, FlushRoot, callbackVars
<1>2. /\ ProgramType' /\ RootType' /\ ListenerType' /\ FlagType' /\ ClaimType'
      /\ UNCHANGED updates /\ Frame' = Frame /\ Stack' = Stack
  BY <1>1, UnchangedTypes DEF screenVars, listenerVars, flagVars, claimVars
<1>3. \A node : tasks[r] \ {node} \in TaskSets
  BY FS_Subset DEF CallbackType, TaskSets
<1>4. CallbackType'
  <2>1. \/ tasks' = tasks
        \/ \E node : tasks' = [tasks EXCEPT ![r] = @ \ {node}]
    BY DEF StartTask, StartTaskWithoutLanes, FlushRoot, callbackVars
  <2>2. tasks' \in [Roots -> TaskSets]
    BY <1>3, <2>1 DEF CallbackType
  <2>3. dangling' \subseteq Roots
    BY DEF StartTask, StartTaskWithoutLanes, FlushRoot, callbackVars, CallbackType
  <2>. QED  BY <1>1, <2>2, <2>3 DEF CallbackType, Lane
<1>5. NextLanes(r) \in LaneSets
  BY NextLanesInUse
<1>6. CASE \E node \in tasks[r] : StartTaskWithoutLanes(r, node)
  <2>1. UNCHANGED <<queueVars, wip, commitVars, task, attempt>> /\ pc' = "scheduler"
    BY <1>6 DEF StartTaskWithoutLanes
  <2>2. QueueType' /\ StackType' /\ CommitType'
    BY <1>2, <2>1, UnchangedTypes DEF queueVars, commitVars
  <2>3. task = NoTask
    BY <1>6 DEF StartTaskWithoutLanes, SchedulerRuns, Quiescent, FrameInv
  <2>4. FrameType' /\ FrameInv'
    BY <1>2, <2>1, <2>3 DEF FrameType, FrameInv
  <2>. QED  BY <1>2, <1>4, <2>2, <2>4
<1>7. CASE (\E node \in tasks[r] : StartTask(r, node)) \/ FlushRoot(r)
  <2>1. RenderRoot(r, NextLanes(r)) /\ NextLanes(r) # {}
    BY <1>7 DEF StartTask, FlushRoot
  <2>2. QueueType' /\ StackType' /\ CommitType'
    BY <1>2, <1>5, <2>1, RenderRootType
  <2>3. /\ pc' = "render" /\ wip'.root = r /\ wip'.lanes = NextLanes(r)
        /\ wip'.reason # "NotSuspended" => wip'.todo # {}
    BY <2>1, RenderRootBegins DEF FrameInv
  <2>4. CASE FlushRoot(r)
    <3>1. attempt' = Attempt(r, NextLanes(r), FALSE, TRUE) /\ task' = task
      BY <2>4 DEF FlushRoot
    <3>2. /\ attempt' \in Frame /\ attempt'.root = r /\ attempt'.lanes = NextLanes(r)
          /\ attempt'.sync = TRUE /\ attempt'.concurrent = FALSE
      BY <1>5, <3>1, AttemptType
    <3>3. FrameType'
      BY <1>2, <2>3, <3>1, <3>2 DEF FrameType
    <3>4. FrameInv'
      BY <2>1, <2>3, <3>1, <3>2 DEF FrameInv
    <3>. QED  BY <1>2, <1>4, <2>2, <3>3, <3>4
  <2>5. CASE \E node \in tasks[r] : StartTask(r, node)
    <3>1. PICK node \in tasks[r], concurrent \in BOOLEAN :
            /\ attempt' = Attempt(r, NextLanes(r), concurrent, FALSE)
            /\ task' = [root |-> r, node |-> node, original |-> callbackNode[r]]
      <4>1. PICK node \in tasks[r] : StartTask(r, node)
        BY <2>5
      <4>2. PICK didTimeout \in BOOLEAN :
              attempt' = Attempt(r, NextLanes(r),
                          /\ NextLanes(r) \cap SyncDefaultLanes = {}
                          /\ NextLanes(r) \cap root[r].expiredLanes = {}
                          /\ ~didTimeout, FALSE)
        BY <4>1 DEF StartTask
      <4>3. task' = [root |-> r, node |-> node, original |-> callbackNode[r]]
        BY <4>1 DEF StartTask
      <4>. QED  BY <4>2, <4>3
    <3>2. /\ attempt' \in Frame /\ attempt'.root = r /\ attempt'.lanes = NextLanes(r)
          /\ attempt'.sync = FALSE
      BY <1>5, <3>1 DEF Attempt, NoAttempt, Frame, LaneSets
    <3>3. task' \in TaskFrame /\ task'.root = r /\ task' # NoTask
      <4>1. node \in Nat \ {0} /\ callbackNode[r] \in Nat
        BY DEF CallbackType, TaskSets
      <4>2. task' \in TaskFrame /\ task'.root = r
        BY <3>1, <4>1 DEF TaskFrame
      <4>3. NoTask.root = NoRoot
        BY DEF NoTask
      <4>. QED  BY <4>2, <4>3, RootsAssumption
    <3>4. FrameType'
      BY <1>2, <2>3, <3>2, <3>3 DEF FrameType
    <3>5. FrameInv'
      BY <2>1, <2>3, <3>2, <3>3 DEF FrameInv
    <3>. QED  BY <1>2, <1>4, <2>2, <3>4, <3>5
  <2>. QED  BY <1>7, <2>4, <2>5
<1>. QED  BY <1>6, <1>7

(* The end of a commit and of a task, and the delayed commits.             *)
LEMMA FinishTypes ==
  ASSUME TypeInv,
         \/ Yield \/ CommitDone \/ CommitThrows \/ EndTask
         \/ \E r \in Roots : CommitDelayed(r) \/ TimeoutThenSuspendCommit(r)
  PROVE  TypeInv'
<1>. USE DEF TypeInv, DataType
<1>1. CASE Yield
  <2>1. /\ ProgramType' /\ QueueType' /\ RootType' /\ StackType' /\ CommitType'
        /\ ListenerType' /\ FlagType' /\ CallbackType' /\ ClaimType' /\ Frame' = Frame
    BY <1>1, UnchangedTypes DEF Yield, renderUnchanged, screenVars, queueVars,
       commitVars, flagVars, callbackVars, claimVars
  <2>2. /\ pc = "render" /\ pc' = "end" /\ task' = task /\ attempt' = attempt
        /\ wip' = wip
    BY <1>1 DEF Yield, renderUnchanged, Rendering
  <2>3. task # NoTask
    BY <1>1, <2>2 DEF FrameInv, Yield
  <2>4. FrameType'
    BY <2>1, <2>2 DEF FrameType
  <2>5. FrameInv'
    BY <2>2, <2>3 DEF FrameInv
  <2>. QED  BY <2>1, <2>4, <2>5
<1>2. CASE CommitDone \/ CommitThrows
  <2>1. /\ ProgramType' /\ QueueType' /\ RootType' /\ StackType' /\ CommitType'
        /\ ListenerType' /\ CallbackType' /\ ClaimType' /\ Frame' = Frame
    BY <1>2, UnchangedTypes DEF CommitDone, CommitThrows, screenVars, queueVars,
       commitVars, listenerVars, callbackVars, claimVars
  <2>2. attempt.root \in Roots /\ pc = "layout"
    BY <1>2 DEF CommitDone, CommitThrows, FrameInv
  <2>3. FlagType'
    BY <1>2, <2>2 DEF CommitDone, CommitThrows, EnsureRootIsScheduled, FlushSyncWork,
       FlagType, listenerVars
  <2>4. CASE CommitDone
    BY <2>1, <2>2, <2>3, <2>4 DEF CommitDone, FlushSyncWork, FrameType, FrameInv, Frame
  <2>5. CASE CommitThrows
    <3>1. pc' = "idle" /\ task' = NoTask /\ attempt' = NoAttempt /\ wip' = wip
      BY <2>5 DEF CommitThrows
    <3>2. FrameType' /\ FrameInv'
      BY <2>1, <3>1, NoAttemptType DEF FrameType, FrameInv, NoAttempt, Frame, LaneSets
    <3>. QED  BY <2>1, <2>3, <3>2
  <2>. QED  BY <1>2, <2>4, <2>5
<1>3. CASE EndTask
  <2>1. /\ ProgramType' /\ QueueType' /\ StackType' /\ CommitType'
        /\ ListenerType' /\ ClaimType' /\ Frame' = Frame
    BY <1>3, UnchangedTypes DEF EndTask, screenVars, queueVars, commitVars,
       listenerVars, claimVars
  <2>2. task \in TaskFrame
    BY <1>3 DEF EndTask, FrameInv, FrameType
  <2>. DEFINE r == task.root
              result == ScheduleTask(r, root[r])
              continues == result.node = task.original
  <2>3. r \in Roots /\ root[r] \in RootRecord(LanesInUse)
    BY <2>2 DEF TaskFrame, RootType
  <2>4. /\ result.root \in RootRecord(LanesInUse) /\ result.priority \in Lane
        /\ result.node \in Nat /\ result.tasks \in TaskSets
    BY <2>3, ScheduleTaskType
  <2>5. /\ root' = [root EXCEPT ![r] = result.root]
        /\ callbackNode' = [callbackNode EXCEPT ![r] = result.node]
        /\ callbackPriority' = [callbackPriority EXCEPT ![r] = result.priority]
        /\ tasks' = [tasks EXCEPT ![r] =
              result.tasks \cup (IF continues THEN {task.node} ELSE {})]
        /\ pc' = IF continues THEN "idle" ELSE "scheduler"
        /\ KeepDangling
    BY <1>3 DEF EndTask
  <2>. HIDE DEF result
  <2>6. RootType'
    BY <2>3, <2>4, <2>5 DEF RootType
  <2>7. result.tasks \cup (IF continues THEN {task.node} ELSE {}) \in TaskSets
    <3>1. task.node \in Nat \ {0}
      BY <2>2 DEF TaskFrame
    <3>2. result.tasks \cup {task.node} \in TaskSets
      BY <2>4, <3>1, FS_AddElement DEF TaskSets
    <3>3. result.tasks \cup {} = result.tasks
      OBVIOUS
    <3>. QED  BY <2>4, <3>2, <3>3
  <2>8. CallbackType'
    BY <2>3, <2>4, <2>5, <2>7 DEF CallbackType, KeepDangling
  <2>9. FlagType'
    BY <1>3, <2>3 DEF EndTask, EnsureRootIsScheduled, FlagType, listenerVars
  <2>10. FrameType' /\ FrameInv'
    <3>1. task' = NoTask /\ attempt' = NoAttempt /\ wip' = wip
      BY <1>3 DEF EndTask
    <3>. QED
      BY <2>1, <2>5, <3>1, NoAttemptType DEF FrameType, FrameInv, NoAttempt, Frame,
         LaneSets
  <2>. QED  BY <2>1, <2>6, <2>8, <2>9, <2>10
<1>4. ASSUME NEW r \in Roots, CommitDelayed(r) PROVE TypeInv'
  <2>1. /\ CommitRoot(r, finished[r]) /\ finished[r] \in Tree /\ pc = "idle"
        /\ attempt' = [NoAttempt EXCEPT !.root = r,
                                        !.recovered = finished[r].recovered]
    BY <1>4 DEF CommitDelayed, Quiescent, CommitType
  <2>2. /\ ProgramType' /\ QueueType' /\ RootType' /\ StackType' /\ CommitType'
        /\ ListenerType' /\ FlagType' /\ CallbackType' /\ ClaimType' /\ Frame' = Frame
    BY <2>1, CommitRootType
  <2>3. pc' = "layout" /\ task' = task /\ wip'.reason = wip.reason
        /\ wip'.todo = wip.todo
    BY <2>1 DEF CommitRoot, StackType, Stack
  <2>4. /\ attempt' \in Frame /\ attempt'.root = r /\ attempt'.sync = FALSE
        /\ attempt'.concurrent = FALSE
    BY <2>1, NoAttemptType DEF NoAttempt, Frame, Tree
  <2>5. FrameType' /\ FrameInv'
    BY <2>1, <2>2, <2>3, <2>4 DEF FrameType, FrameInv
  <2>. QED  BY <2>2, <2>5
<1>5. ASSUME NEW r \in Roots, TimeoutThenSuspendCommit(r) PROVE TypeInv'
  <2>1. /\ ProgramType' /\ QueueType' /\ StackType' /\ ListenerType' /\ FlagType'
        /\ CallbackType' /\ ClaimType' /\ Frame' = Frame /\ Tree' = Tree
    BY <1>5, UnchangedTypes DEF TimeoutThenSuspendCommit, screenVars, queueVars,
       listenerVars, flagVars, callbackVars, claimVars
  <2>2. CommitType'
    BY <1>5, <2>1 DEF TimeoutThenSuspendCommit, CommitType
  <2>3. RootType'
    <3>1. finished[r].lanes \in LaneSets /\ root[r] \in RootRecord(LanesInUse)
      BY DEF CommitType, Tree, RootType
    <3>2. Suspend(root[r], finished[r].lanes) \in RootRecord(LanesInUse)
      BY <3>1, SuspendType
    <3>. QED  BY <1>5, <3>2 DEF TimeoutThenSuspendCommit, RootType
  <2>4. FrameType' /\ FrameInv'
    BY <1>5, <2>1 DEF TimeoutThenSuspendCommit, frameVars, FrameType, FrameInv
  <2>. QED  BY <2>1, <2>2, <2>3, <2>4
<1>. QED  BY <1>1, <1>2, <1>3, <1>4, <1>5

(* The microtasks of data that has loaded, and the timers.                 *)
LEMMA ListenerTypes ==
  ASSUME TypeInv,
         \/ Ping \/ Continue \/ Retry \/ ThrottlePasses
         \/ \E id \in Ids : Resolve(id)
         \/ \E r \in Roots : \E lane \in LanesInUse : LaneExpires(r, lane)
  PROVE  TypeInv'
<1>. USE DEF TypeInv, DataType
<1>. DEFINE r == Head(ready).root
<1>1. ASSUME Ping \/ Continue \/ Retry
      PROVE  /\ ProgramType' /\ CallbackType' /\ FrameType' /\ ListenerType'
             /\ FlagType' /\ Head(ready) \in Listener /\ r \in Roots
             /\ UNCHANGED updates /\ Stack' = Stack /\ QueuedItem' = QueuedItem
             /\ root[r] \in RootRecord(LanesInUse)
             /\ wip'.reason # "NotSuspended" => wip'.todo # {}
  <2>1. /\ UNCHANGED <<screenVars, listeners, callbackVars, frameVars>>
        /\ UNCHANGED <<recentFallback, isFlushingWork>>
        /\ ready # <<>> /\ ready' = Tail(ready) /\ EnsureRootIsScheduled(r)
    BY <1>1 DEF Ping, Continue, Retry, Runs, listenerUnchanged
  <2>2. ProgramType' /\ CallbackType' /\ UNCHANGED updates /\ Frame' = Frame
        /\ Stack' = Stack /\ QueuedItem' = QueuedItem /\ Listener' = Listener
    BY <2>1, UnchangedTypes DEF screenVars, callbackVars
  <2>3. Head(ready) \in Listener /\ Tail(ready) \in Seq(Listener)
    BY <2>1, HeadAndTail DEF ListenerType
  <2>4. r \in Roots /\ root[r] \in RootRecord(LanesInUse)
    BY <2>3 DEF Listener, RootType
  <2>5. FrameType' /\ ListenerType' /\ FlagType'
    BY <2>1, <2>2, <2>3, <2>4 DEF frameVars, FrameType, ListenerType, FlagType,
       EnsureRootIsScheduled
  <2>6. wip'.reason # "NotSuspended" => wip'.todo # {}
    BY <1>1 DEF Ping, Continue, Retry, SuspendedOnData, FrameInv, StackType, Stack,
       PrepareFreshStack, FreshStack
  <2>. QED  BY <2>2, <2>3, <2>4, <2>5, <2>6
<1>2. ASSUME Ping \/ Continue \/ Retry PROVE FrameInv'
  <2>1. UNCHANGED frameVars /\ pc = "idle"
    BY <1>2 DEF Ping, Continue, Retry, listenerUnchanged, Runs
  <2>. QED  BY <1>1, <1>2, <2>1 DEF frameVars, FrameInv
<1>3. CASE Ping
  <2>. DEFINE lanes == Head(ready).lanes
  <2>0. lanes \in LaneSets
    BY <1>1, <1>3 DEF Listener
  <2>1. RootType'
    BY <1>1, <1>3, MarkRootPingedType DEF Ping, RootType
  <2>2. CASE PrepareFreshStack(r, {})
    <3>1. {} \in LaneSets
      BY DEF LaneSets
    <3>2. QueueType' /\ StackType' /\ CommitType'
      BY <1>1, <1>3, <2>2, <3>1, PrepareFreshStackType
    <3>3. ClaimType'
      BY <1>3, UnchangedTypes DEF Ping, claimVars
    <3>. QED  BY <1>1, <1>2, <1>3, <2>1, <3>2, <3>3
  <2>3. CASE /\ wip' \in {[wip EXCEPT !.pinged = @ \cup lanes], wip}
             /\ UNCHANGED <<finished, pendingCommit, queueVars>>
    <3>1. QueueType' /\ CommitType'
      BY <1>1, <1>3, <2>3, UnchangedTypes DEF queueVars
    <3>2. StackType'
      <4>1. [wip EXCEPT !.pinged = @ \cup lanes] \in Stack
        BY <2>0 DEF StackType, Stack, LaneSets
      <4>2. wip' \in Stack
        BY <2>3, <4>1 DEF StackType
      <4>. QED  BY <1>1, <1>3, <4>2 DEF StackType
    <3>3. ClaimType'
      BY <1>3, UnchangedTypes DEF Ping, claimVars
    <3>. QED  BY <1>1, <1>2, <1>3, <2>1, <3>1, <3>2, <3>3
  <2>4. \/ PrepareFreshStack(r, {})
        \/ /\ wip' \in {[wip EXCEPT !.pinged = @ \cup lanes], wip}
           /\ UNCHANGED <<finished, pendingCommit, queueVars>>
    BY <1>3 DEF Ping
  <2>. QED  BY <2>2, <2>3, <2>4
<1>4. CASE Continue
  <2>1. StackType'
    <3>1. [wip EXCEPT !.reason = "Ready"] \in Stack
      BY DEF StackType, Stack
    <3>2. wip' \in Stack
      BY <1>4, <3>1 DEF Continue, StackType
    <3>. QED  BY <1>1, <1>4, <3>2 DEF StackType
  <2>2. QueueType' /\ RootType' /\ CommitType' /\ ClaimType'
    BY <1>1, <1>4, UnchangedTypes DEF Continue, queueVars, commitVars, claimVars
  <2>. QED  BY <1>1, <1>2, <1>4, <2>1, <2>2
<1>5. CASE Retry
  <2>1. nextRetryLane \in LanesInUse /\ Head(ready).id \in Ids
    BY <1>1, <1>5, LanesFacts DEF ClaimType, Listener
  <2>2. QueueType'
    BY <1>1, <1>5, <2>1 DEF Retry, QueueType, QueuedItem
  <2>3. RootType'
    BY <1>1, <1>5, <2>1, MarkRootUpdatedType DEF Retry, RootType
  <2>4. StackType' /\ CommitType'
    BY <1>1, <1>5, UnchangedTypes DEF Retry, commitVars
  <2>5. ClaimType'
    BY <1>5, LanesFacts DEF Retry, ClaimType
  <2>. QED  BY <1>1, <1>2, <1>5, <2>2, <2>3, <2>4, <2>5
<1>6. ASSUME NEW id \in Ids, Resolve(id) PROVE TypeInv'
  <2>1. id \in UpdateIds
    BY UpdateOf
  <2>2. /\ UNCHANGED updates /\ QueueType' /\ RootType' /\ StackType' /\ CommitType'
        /\ FlagType' /\ CallbackType' /\ ClaimType' /\ Frame' = Frame /\ Ids' = Ids
        /\ Listener' = Listener
    <3>1. /\ UNCHANGED <<environment, updates, shown, fallbacks, queueVars, root, wip>>
          /\ UNCHANGED <<commitVars, recentFallback, flagVars, isFlushingWork>>
          /\ UNCHANGED <<callbackVars, claimVars>>
      BY <1>6 DEF Resolve
    <3>2. Ids' = Ids
      BY <3>1 DEF Ids
    <3>. QED
      BY <3>1, <3>2, UnchangedTypes DEF queueVars, commitVars, flagVars, callbackVars,
         claimVars
  <2>3. ProgramType'
    BY <1>6, <2>2 DEF Resolve, ProgramType
  <2>4. ListenerType'
    BY <1>6, <2>1, <2>2 DEF Resolve, ListenerType
  <2>5. FrameType' /\ FrameInv'
    BY <1>6, <2>2 DEF Resolve, frameVars, FrameType, FrameInv
  <2>. QED  BY <2>2, <2>3, <2>4, <2>5
<1>7. CASE ThrottlePasses
  <2>1. /\ ProgramType' /\ QueueType' /\ RootType' /\ StackType' /\ CommitType'
        /\ ListenerType' /\ CallbackType' /\ ClaimType' /\ Frame' = Frame
    BY <1>7, UnchangedTypes DEF ThrottlePasses, screenVars, queueVars, commitVars,
       callbackVars, claimVars
  <2>2. UNCHANGED <<wip, pc, task, attempt>>
    BY <1>7 DEF ThrottlePasses, frameVars
  <2>3. FlagType'
    BY <1>7 DEF ThrottlePasses, FlagType, flagVars
  <2>4. FrameType' /\ FrameInv'
    BY <2>1, <2>2 DEF FrameType, FrameInv
  <2>. QED  BY <2>1, <2>3, <2>4
<1>8. ASSUME NEW q \in Roots, NEW lane \in LanesInUse, LaneExpires(q, lane)
      PROVE  TypeInv'
  <2>1. /\ ProgramType' /\ QueueType' /\ StackType' /\ CommitType' /\ FlagType'
        /\ ListenerType' /\ CallbackType' /\ ClaimType' /\ Frame' = Frame
    BY <1>8, UnchangedTypes DEF LaneExpires, screenVars, queueVars, commitVars,
       listenerVars, flagVars, callbackVars, claimVars
  <2>2. FrameType' /\ FrameInv'
    BY <1>8, <2>1 DEF LaneExpires, frameVars, FrameType, FrameInv
  <2>3. RootType'
    <3>. DEFINE times == [root[q].expirationTimes EXCEPT ![lane] = "reached"]
                rec == [root[q] EXCEPT !.expirationTimes = times]
    <3>1. times \in [LanesInUse -> {"none", "later", "reached"}]
      BY DEF RootType, RootRecord
    <3>2. root' = [root EXCEPT ![q] = rec]
      BY <1>8 DEF LaneExpires
    <3>. HIDE DEF times
    <3>3. rec \in RootRecord(LanesInUse)
      BY <3>1 DEF RootType, RootRecord
    <3>. HIDE DEF rec
    <3>. QED  BY <3>2, <3>3 DEF RootType
  <2>. QED  BY <2>1, <2>2, <2>3
<1>. QED  BY <1>3, <1>4, <1>5, <1>6, <1>7, <1>8

LEMMA InitTypes ==
  ASSUME Init
  PROVE  TypeInv
<1>1. InitialRoot \in RootRecord(LanesInUse)
  BY DEF InitialRoot, RootRecord
<1>2. ProgramType
  <2>1. updates \in Seq(UpdateRecord) /\ Len(updates) <= MaxUpdates
    BY MaxUpdatesAssumption DEF Init
  <2>. QED  BY <2>1 DEF Init, ProgramType
<1>10. QueueType /\ RootType /\ FlagType
  BY <1>1 DEF Init, QueueType, RootType, FlagType
<1>3. StackType
  BY DEF Init, StackType, Stack, LaneSets, ExitStatus
<1>4. CommitType
  BY NoTreeType DEF Init, CommitType
<1>5. ListenerType
  BY DEF Init, ListenerType
<1>6. CallbackType
  BY FS_EmptySet DEF Init, CallbackType, TaskSets, Lane
<1>7. ClaimType
  BY LanesFacts DEF Init, ClaimType
<1>8. FrameType
  BY NoAttemptType DEF Init, FrameType
<1>9. FrameInv
  BY DEF Init, FrameInv, NoAttempt
<1>. QED
  BY <1>2, <1>3, <1>4, <1>5, <1>6, <1>7, <1>8, <1>9, <1>10 DEF TypeInv, DataType

LEMMA StutterTypes ==
  ASSUME TypeInv, UNCHANGED vars
  PROVE  TypeInv'
<1>1. /\ UNCHANGED <<screenVars, queueVars, root, wip, commitVars, listenerVars>>
      /\ UNCHANGED <<flagVars, isFlushingWork, callbackVars, claimVars, frameVars>>
  BY DEF vars
<1>2. /\ ProgramType' /\ QueueType' /\ RootType' /\ StackType' /\ CommitType'
      /\ ListenerType' /\ FlagType' /\ CallbackType' /\ ClaimType' /\ Frame' = Frame
  BY <1>1, UnchangedTypes DEF TypeInv, screenVars, queueVars, commitVars,
     listenerVars, flagVars, callbackVars, claimVars
<1>3. FrameType' /\ FrameInv'
  BY <1>1, <1>2 DEF TypeInv, DataType, FrameType, FrameInv, frameVars
<1>. QED  BY <1>2, <1>3, DataStep DEF TypeInv

LEMMA TypeStep ==
  ASSUME TypeInv, [Next]_vars
  PROVE  TypeInv'
<1>1. CASE EventUpdate \/ LayoutUpdate
  BY <1>1, EventTypes
<1>2. CASE Render
  BY <1>2, RenderTypes
<1>3. CASE Exit
  BY <1>3, ExitTypes
<1>4. CASE ProcessRootSchedule \/ FlushSync \/ YieldToHost \/ FlushDone
  BY <1>4, ScheduleTypes
<1>5. ASSUME NEW r \in Roots,
             \/ \E node \in tasks[r] : StartTask(r, node)
             \/ \E node \in tasks[r] : StartTaskWithoutLanes(r, node)
             \/ FlushRoot(r)
      PROVE  TypeInv'
  BY <1>5, StartTypes
<1>6. CASE \/ Yield \/ CommitDone \/ CommitThrows \/ EndTask
           \/ \E r \in Roots : CommitDelayed(r) \/ TimeoutThenSuspendCommit(r)
  BY <1>6, FinishTypes
<1>7. CASE \/ Ping \/ Continue \/ Retry \/ ThrottlePasses
           \/ \E id \in Ids : Resolve(id)
           \/ \E r \in Roots : \E lane \in LanesInUse : LaneExpires(r, lane)
  BY <1>7, ListenerTypes
<1>8. CASE UNCHANGED vars
  BY <1>8, StutterTypes
<1>. QED
  BY <1>1, <1>2, <1>3, <1>4, <1>5, <1>6, <1>7, <1>8 DEF Next, Run, Ids

(* The work loop keeps its types, whatever it interrupts, throws away or   *)
(* restarts: every queued item, listener and tree is about an update that  *)
(* exists; lanes are those in use; a render, an exit or a commit on the    *)
(* stack has its root, and a task's end its task.                          *)
THEOREM WorkLoopTypes == Spec => []TypeInv
<1>1. Init => TypeInv
  BY InitTypes
<1>2. TypeInv /\ [Next]_vars => TypeInv'
  BY TypeStep
<1>. QED  BY <1>1, <1>2, PTL DEF Spec

LEMMA TypeInvTypeOK ==
  ASSUME TypeInv
  PROVE  TypeOK
<1>. USE DEF TypeInv, DataType
<1>1. PICK n \in Nat : n = Len(updates)
  BY DEF ProgramType
<1>2. Ids \subseteq UpdateIds
  BY <1>1, MaxUpdatesAssumption DEF Ids, UpdateIds, ProgramType
<1>3. work \cup concurrentQueues \subseteq Item
  BY <1>2 DEF QueueType, QueuedItem, Item
<1>4. resolved \cup shown \cup fallbacks \subseteq 1..Len(updates)
  BY DEF ProgramType, Ids
<1>5. \A r \in Roots : /\ root[r].pendingLanes \subseteq LanesInUse
                       /\ callbackPriority[r] \in Lane
                       /\ tasks[r] \subseteq Nat \ {0} /\ callbackNode[r] \in Nat
  BY DEF RootType, RootRecord, CallbackType, TaskSets
<1>6. schedule \cup dangling \subseteq Roots
  BY DEF FlagType, CallbackType
<1>7. pc = "end" => task.root \in Roots
  BY DEF FrameType, FrameInv, TaskFrame
<1>. QED
  BY <1>3, <1>4, <1>5, <1>6, <1>7 DEF TypeOK, ProgramType, FrameType, FrameInv

(* TypeOK of the runs, for any roots, lanes, updates and environments.     *)
THEOREM WorkLoopTypeOK == Spec => []TypeOK
<1>1. TypeInv => TypeOK
  BY TypeInvTypeOK
<1>. QED  BY <1>1, WorkLoopTypes, PTL

-----------------------------------------------------------------------------
Queued == work \cup concurrentQueues

(* An update is in a queue until its component or its fallback is on the   *)
(* screen, and what is in a queue has a pending lane; what a render has    *)
(* taken from the queues it will show.                                     *)
PendInv ==
  /\ \A i \in Queued : i.lane \in root[RootOf(i.id)].pendingLanes
  /\ \A id \in Ids \ (shown \cup fallbacks) : \E i \in Queued : i.id = id

Accounted(tree) == \A i \in tree.done : i.id \in tree.rendered \cup tree.hidden

TreesInv == Accounted(wip) /\ \A r \in Roots : Accounted(finished[r])

(* Retries are for the root of their update; a fallback waits for its data *)
(* or its retry is in a queue.                                             *)
Listens(l) ==
  (\E id \in UpdateIds : l \in Range(listeners[id])) \/ l \in Range(ready)

RetryInv ==
  /\ \A l \in Listener : Listens(l) /\ l.kind = "retry" => l.root = RootOf(l.id)
  /\ \A id \in fallbacks :
       Wakes(RetryListener(id)) \/ \E i \in Queued : i.id = id

-----------------------------------------------------------------------------
(* The steps, as far as updates, queues and pending lanes are concerned.   *)
(* Most change none of them, or move items from one queue to the other.    *)
LanesGrow ==
  \A r \in Roots : root[r].pendingLanes \subseteq root'[r].pendingLanes

QueuesStay ==
  UNCHANGED <<updates, shown, fallbacks>> /\ Queued' = Queued /\ LanesGrow

LEMMA SuspendKeepsPending ==
  ASSUME NEW rec \in RootRecord(LanesInUse), NEW lanes
  PROVE  /\ Suspend(rec, lanes).pendingLanes = rec.pendingLanes
         /\ MarkRootSuspended(rec, lanes).pendingLanes = rec.pendingLanes
BY DEF Suspend, MarkRootSuspended, RootRecord

LEMMA SuspendRootGrows ==
  ASSUME RootType, NEW r \in Roots, NEW lanes,
         root' = [root EXCEPT ![r] = Suspend(@, lanes)]
  PROVE  LanesGrow
<1>1. Suspend(root[r], lanes).pendingLanes = root[r].pendingLanes
  BY SuspendKeepsPending DEF RootType
<1>. QED  BY <1>1 DEF LanesGrow, RootType

LEMMA RenderRootMovesItems ==
  ASSUME NEW r, NEW lanes, PrepareFreshStack(r, lanes) \/ RenderRoot(r, lanes)
  PROVE  Queued' = Queued
BY DEF RenderRoot, PrepareFreshStack, FinishQueueing, queueVars, Queued

(* An update is queued at its lane, and the lane is pending.               *)
Queues(r, eventLane, content, lane, new) ==
  /\ new = Len(updates) + 1
  /\ ScheduleUpdateOnFiber(r, lane, [id |-> new, lane |-> lane])
  /\ RequestUpdateLane(eventLane, lane)
  /\ new \notin Ids /\ Ids' = Ids \cup {new} /\ new \in UpdateIds
  /\ updates'[new] = [root |-> r, lane |-> lane, content |-> content]
  /\ \A id \in Ids : updates'[id] = updates[id]
  /\ Queued' = Queued \cup {[id |-> new, lane |-> lane]}
  /\ LanesGrow /\ lane \in root'[r].pendingLanes

LEMMA UpdateStep ==
  ASSUME TypeInv, NEW r \in Roots, NEW eventLane \in LanesInUse,
         NEW content \in Contents, Update(r, eventLane, content)
  PROVE  \E lane \in LanesInUse, new \in Nat :
           Queues(r, eventLane, content, lane, new)
<1>. USE DEF TypeInv, DataType
<1>1. PICK lane \in LanesInUse :
        /\ RequestUpdateLane(eventLane, lane)
        /\ updates' = Append(updates,
                             [root |-> r, lane |-> lane, content |-> content])
        /\ ScheduleUpdateOnFiber(r, lane, [id |-> Len(updates) + 1, lane |-> lane])
  BY DEF Update
<1>2. PICK n \in Nat : n = Len(updates)
  BY DEF ProgramType
<1>3. n < MaxUpdates
  BY <1>2 DEF Update
<1>. DEFINE rec == [root |-> r, lane |-> lane, content |-> content]
            updated == MarkRootUpdated(root[r], lane)
<1>4. /\ Len(updates') = n + 1 /\ updates'[n + 1] = rec
      /\ \A id \in 1..n : updates'[id] = updates[id]
  <2>1. rec \in UpdateRecord
    BY DEF UpdateRecord
  <2>. HIDE DEF rec
  <2>. QED  BY <1>1, <1>2, <2>1 DEF ProgramType, rec
<1>5. Queued' = Queued \cup {[id |-> n + 1, lane |-> lane]}
  BY <1>1, <1>2 DEF ScheduleUpdateOnFiber, FinishQueueing, Queued
<1>6. LanesGrow /\ lane \in root'[r].pendingLanes
  <2>1. updated \in RootRecord(LanesInUse)
    BY MarkRootUpdatedType DEF RootType
  <2>2. updated.pendingLanes = root[r].pendingLanes \cup {lane}
    BY DEF MarkRootUpdated, RootType, RootRecord
  <2>3. \A lanes : MarkRootSuspended(updated, lanes).pendingLanes = updated.pendingLanes
    BY <2>1, SuspendKeepsPending
  <2>. HIDE DEF updated
  <2>4. root'[r].pendingLanes = updated.pendingLanes
    BY <1>1, <2>3 DEF ScheduleUpdateOnFiber, RootType, updated
  <2>5. \A q \in Roots : q # r => root'[q] = root[q]
    BY <1>1 DEF ScheduleUpdateOnFiber, RootType
  <2>. QED  BY <2>2, <2>4, <2>5 DEF LanesGrow
<1>7. n + 1 \notin Ids /\ Ids' = Ids \cup {n + 1} /\ n + 1 \in UpdateIds
  BY <1>2, <1>3, <1>4, MaxUpdatesAssumption DEF Ids, UpdateIds
<1>8. \A id \in Ids : updates'[id] = updates[id]
  BY <1>2, <1>4 DEF Ids
<1>9. /\ n + 1 = Len(updates) + 1
      /\ ScheduleUpdateOnFiber(r, lane, [id |-> n + 1, lane |-> lane])
  BY <1>1, <1>2
<1>10. n + 1 \in Nat
  OBVIOUS
<1>. HIDE DEF updated
<1>. QED
  BY <1>1, <1>4, <1>5, <1>6, <1>7, <1>8, <1>9, <1>10, Zenon DEF Queues

(* The renders and what follows them.                                      *)
LEMMA RenderStays ==
  ASSUME TypeInv, Render
  PROVE  QueuesStay
<1>. USE DEF TypeInv, DataType
<1>1. UNCHANGED screenVars
  BY DEF Render, SkipUnit, RenderUnit, UnitThrows, UnitSuspends, Replay,
     WaitForData, YieldToMicrotasks, Unwind, CompleteRender, renderUnchanged
<1>2. Queued' = Queued
  <2>1. UNCHANGED queueVars \/ FinishQueueing(concurrentQueues)
    BY DEF Render, SkipUnit, RenderUnit, UnitThrows, UnitSuspends, Replay,
       WaitForData, YieldToMicrotasks, Unwind, CompleteRender, renderUnchanged
  <2>. QED  BY <2>1 DEF queueVars, FinishQueueing, Queued
<1>3. CASE UNCHANGED root
  BY <1>1, <1>2, <1>3 DEF QueuesStay, LanesGrow, screenVars
<1>4. CASE Unwind
  <2>1. wip.root \in Roots
    BY <1>4 DEF Unwind, FrameInv
  <2>2. root' = root \/ root' = [root EXCEPT ![wip.root] = Suspend(@, wip.lanes)]
    BY <1>4 DEF Unwind
  <2>3. LanesGrow
    BY <2>1, <2>2, SuspendRootGrows DEF LanesGrow
  <2>. QED  BY <1>1, <1>2, <2>3 DEF QueuesStay, screenVars
<1>. QED
  BY <1>3, <1>4 DEF Render, SkipUnit, RenderUnit, UnitThrows, UnitSuspends, Replay,
     WaitForData, YieldToMicrotasks, CompleteRender

CommitsOnExit == CommitSync \/ CommitConcurrent

LEMMA ExitCommits ==
  ASSUME TypeInv, CommitsOnExit
  PROVE  /\ attempt.root \in Roots /\ FinishedTree \in Tree /\ pc = "exit"
         /\ CommitRoot(attempt.root, FinishedTree)
<1>1. pc = "exit" /\ CommitRoot(attempt.root, FinishedTree)
  BY DEF CommitsOnExit, CommitSync, CommitConcurrent, FinishesConcurrent, Exits
<1>2. FinishedTree \in Tree
  BY FinishedTreeType DEF TypeInv, DataType, FrameType
<1>. QED  BY <1>1, <1>2 DEF TypeInv, FrameInv

LEMMA ExitStays ==
  ASSUME TypeInv, Exit
  PROVE  \/ QueuesStay
         \/ CommitsOnExit
<1>. USE DEF TypeInv, DataType
<1>1. pc = "exit" /\ attempt.root \in Roots
  BY DEF Exit, RenderTornTree, RetryAfterError, SuspendRecovery, DidNotComplete,
     SuspendIndefinitely, ThrottleRetries, SuspendCommit, CommitSync,
     CommitConcurrent, FinishesConcurrent, Exits, FrameInv
<1>4. CASE RenderTornTree \/ RetryAfterError
  <2>1. UNCHANGED <<screenVars, root>>
    BY <1>4 DEF RenderTornTree, RetryAfterError
  <2>2. Queued' = Queued
    BY <1>4, RenderRootMovesItems DEF RenderTornTree, RetryAfterError
  <2>. QED  BY <2>1, <2>2 DEF QueuesStay, LanesGrow, screenVars
<1>5. CASE SuspendRecovery
  <2>1. UNCHANGED <<screenVars, queueVars>>
    BY <1>5 DEF SuspendRecovery
  <2>2. LanesGrow
    BY <1>1, <1>5 DEF SuspendRecovery, LanesGrow, RootType, RootRecord
  <2>. QED  BY <2>1, <2>2 DEF QueuesStay, screenVars, queueVars, Queued
<1>6. CASE DidNotComplete \/ SuspendIndefinitely \/ ThrottleRetries \/ SuspendCommit
  <2>1. UNCHANGED <<screenVars, queueVars>> /\ SuspendRoot
    BY <1>6 DEF DidNotComplete, SuspendIndefinitely, ThrottleRetries, SuspendCommit,
       finishUnchanged
  <2>2. LanesGrow
    BY <1>1, <2>1, SuspendRootGrows DEF SuspendRoot
  <2>. QED  BY <2>1, <2>2 DEF QueuesStay, screenVars, queueVars, Queued
<1>. QED  BY <1>4, <1>5, <1>6 DEF Exit, CommitsOnExit

(* What processRootScheduleInMicrotask does to a root.                     *)
MayUpgrade(q, rec) ==
  \/ rec = root[q]
  \/ /\ currentEventTransitionLane # NoLane
     /\ rec = UpgradePendingLaneToSync(root[q], currentEventTransitionLane)

Processes(q, rec) ==
  /\ root'[q] = ScheduleTask(q, rec).root
  /\ callbackNode'[q] = ScheduleTask(q, rec).node
  /\ callbackPriority'[q] = ScheduleTask(q, rec).priority
  /\ tasks'[q] = ScheduleTask(q, rec).tasks
  /\ q \in schedule' <=> ScheduleTask(q, rec).priority # NoLane
  /\ ScheduleTask(q, rec).priority = SyncLane => mightHavePendingSyncWork'

LEMMA ProcessKinds ==
  ASSUME TypeInv, ProcessRootSchedule, NEW q \in Roots
  PROVE  \/ /\ q \notin schedule /\ q \notin schedule' /\ root'[q] = root[q]
            /\ callbackNode'[q] = callbackNode[q]
            /\ callbackPriority'[q] = callbackPriority[q] /\ tasks'[q] = tasks[q]
         \/ /\ q \in schedule
            /\ \E rec \in RootRecord(LanesInUse) :
                 MayUpgrade(q, rec) /\ Processes(q, rec)
<1>. USE DEF TypeInv, DataType
<1>. DEFINE upgrade == UpgradePendingLaneToSync(root[q], currentEventTransitionLane)
<1>1. PICK isPopState \in IF environment.popState THEN BOOLEAN ELSE {FALSE} :
        LET Upgraded(r) ==
              IF isPopState /\ currentEventTransitionLane # NoLane
              THEN UpgradePendingLaneToSync(root[r], currentEventTransitionLane)
              ELSE root[r]
            result == [r \in schedule |-> ScheduleTask(r, Upgraded(r))]
            Set(f, field) ==
              [r \in Roots |-> IF r \in schedule THEN result[r][field] ELSE f[r]]
        IN  /\ root' = Set(root, "root")
            /\ callbackNode' = Set(callbackNode, "node")
            /\ callbackPriority' = Set(callbackPriority, "priority")
            /\ tasks' = Set(tasks, "tasks")
            /\ schedule' = {r \in schedule : result[r].priority # NoLane}
            /\ mightHavePendingSyncWork' =
                 (\E r \in schedule : result[r].priority = SyncLane)
  BY Zenon DEF ProcessRootSchedule
<1>2. CASE q \notin schedule
  BY <1>1, <1>2
<1>3. CASE q \in schedule
  <2>1. root[q] \in RootRecord(LanesInUse)
    BY DEF RootType
  <2>2. CASE isPopState /\ currentEventTransitionLane # NoLane
    <3>1. upgrade \in RootRecord(LanesInUse)
      BY <2>1, <2>2, LanesFacts, UpgradeType DEF ClaimType
    <3>2. MayUpgrade(q, upgrade)
      BY <2>2 DEF MayUpgrade
    <3>3. Processes(q, upgrade)
      BY <1>1, <1>3, <2>2 DEF Processes
    <3>. HIDE DEF upgrade
    <3>. QED  BY <1>3, <3>1, <3>2, <3>3
  <2>3. CASE ~(isPopState /\ currentEventTransitionLane # NoLane)
    <3>1. Processes(q, root[q])
      BY <1>1, <1>3, <2>3 DEF Processes
    <3>2. MayUpgrade(q, root[q])
      BY DEF MayUpgrade
    <3>. QED  BY <1>3, <2>1, <3>1, <3>2
  <2>. QED  BY <2>2, <2>3
<1>. QED  BY <1>2, <1>3

(* The microtask of the root scheduler, the tasks and the flushes.         *)
LEMMA ScheduleStays ==
  ASSUME TypeInv,
         \/ ProcessRootSchedule \/ FlushSync \/ YieldToHost \/ FlushDone
         \/ Yield \/ CommitDone \/ CommitThrows \/ EndTask
  PROVE  QueuesStay
<1>. USE DEF TypeInv, DataType
<1>1. UNCHANGED <<screenVars, queueVars>>
  BY DEF ProcessRootSchedule, FlushSync, YieldToHost, FlushDone, Yield, CommitDone,
     CommitThrows, EndTask, renderUnchanged
<1>2. SUFFICES LanesGrow
  BY <1>1 DEF QueuesStay, screenVars, queueVars, Queued
<1>3. CASE UNCHANGED root
  BY <1>3 DEF LanesGrow
<1>4. CASE EndTask
  <2>1. task.root \in Roots
    BY <1>4 DEF EndTask, FrameType, FrameInv, TaskFrame
  <2>2. ScheduleTask(task.root, root[task.root]).root
          = MarkStarvedLanesAsExpired(root[task.root])
    BY <2>1, ScheduleTaskDecides DEF RootType
  <2>3. root' = [root EXCEPT ![task.root] = MarkStarvedLanesAsExpired(@)]
    BY <1>4, <2>2 DEF EndTask
  <2>4. MarkStarvedLanesAsExpired(root[task.root]).pendingLanes
          = root[task.root].pendingLanes
    BY <2>1, MarkStarvedKeepsNextLanes DEF RootType
  <2>. QED  BY <2>1, <2>3, <2>4 DEF LanesGrow, RootType
<1>5. CASE ProcessRootSchedule
  <2>1. SUFFICES ASSUME NEW q \in Roots
                 PROVE  root[q].pendingLanes \subseteq root'[q].pendingLanes
    BY DEF LanesGrow
  <2>2. CASE root'[q] = root[q]
    BY <2>2
  <2>3. ASSUME NEW rec \in RootRecord(LanesInUse), MayUpgrade(q, rec), Processes(q, rec)
        PROVE  root[q].pendingLanes \subseteq root'[q].pendingLanes
    <3>1. root[q].pendingLanes \subseteq rec.pendingLanes
      BY <2>3, UpgradeAddsSyncLane DEF MayUpgrade, RootType
    <3>2. root'[q] = MarkStarvedLanesAsExpired(rec)
      BY <2>3, ScheduleTaskDecides DEF Processes
    <3>3. MarkStarvedLanesAsExpired(rec).pendingLanes = rec.pendingLanes
      BY MarkStarvedKeepsNextLanes
    <3>. QED  BY <3>1, <3>2, <3>3
  <2>. QED  BY <1>5, <2>2, <2>3, ProcessKinds
<1>. QED
  BY <1>3, <1>4, <1>5 DEF FlushSync, YieldToHost, FlushDone, Yield, CommitDone,
     CommitThrows, renderUnchanged

LEMMA StartStays ==
  ASSUME TypeInv, NEW r \in Roots,
         \/ \E node \in tasks[r] : StartTask(r, node)
         \/ \E node \in tasks[r] : StartTaskWithoutLanes(r, node)
         \/ FlushRoot(r)
  PROVE  QueuesStay
<1>1. UNCHANGED <<screenVars, root>>
  BY DEF StartTask, StartTaskWithoutLanes, FlushRoot
<1>2. \/ RenderRoot(r, NextLanes(r))
      \/ UNCHANGED queueVars
  BY DEF StartTask, StartTaskWithoutLanes, FlushRoot
<1>3. Queued' = Queued
  BY <1>2, RenderRootMovesItems DEF queueVars, Queued
<1>. QED  BY <1>1, <1>3 DEF QueuesStay, LanesGrow, screenVars

(* Data and timers.                                                        *)
LEMMA ListenerStays ==
  ASSUME TypeInv,
         \/ Ping \/ Continue \/ ThrottlePasses
         \/ \E id \in Ids : Resolve(id)
         \/ \E r \in Roots : \E lane \in LanesInUse : LaneExpires(r, lane)
         \/ \E r \in Roots : TimeoutThenSuspendCommit(r)
  PROVE  QueuesStay
<1>. USE DEF TypeInv, DataType
<1>1. CASE Ping
  <2>. DEFINE r == Head(ready).root
  <2>1. Head(ready) \in Listener
    BY <1>1, HeadAndTail DEF Ping, Runs, ListenerType
  <2>2. r \in Roots
    BY <2>1 DEF Listener
  <2>3. UNCHANGED screenVars /\ Queued' = Queued
    <3>1. UNCHANGED queueVars => Queued' = Queued
      BY DEF queueVars, Queued
    <3>. QED
      BY <1>1, <3>1, RenderRootMovesItems DEF Ping, listenerUnchanged
  <2>4. root' = [root EXCEPT ![r] = MarkRootPinged(@, Head(ready).lanes)]
    BY <1>1 DEF Ping
  <2>5. LanesGrow
    BY <2>2, <2>4 DEF LanesGrow, MarkRootPinged, RootType, RootRecord
  <2>. QED  BY <2>3, <2>5 DEF QueuesStay, screenVars
<1>2. ASSUME Continue \/ ThrottlePasses \/ (\E id \in Ids : Resolve(id))
      PROVE  QueuesStay
  <2>1. UNCHANGED <<updates, shown, fallbacks, queueVars, root>>
    BY <1>2 DEF Continue, ThrottlePasses, Resolve, listenerUnchanged, screenVars
  <2>. QED  BY <2>1 DEF QueuesStay, LanesGrow, queueVars, Queued
<1>3. ASSUME NEW r \in Roots,
             TimeoutThenSuspendCommit(r) \/ \E lane \in LanesInUse : LaneExpires(r, lane)
      PROVE  QueuesStay
  <2>1. UNCHANGED <<screenVars, queueVars>>
    BY <1>3 DEF TimeoutThenSuspendCommit, LaneExpires
  <2>2. CASE TimeoutThenSuspendCommit(r)
    <3>1. LanesGrow
      BY <2>2, SuspendRootGrows DEF TimeoutThenSuspendCommit
    <3>. QED  BY <2>1, <3>1 DEF QueuesStay, screenVars, queueVars, Queued
  <2>3. CASE \E lane \in LanesInUse : LaneExpires(r, lane)
    <3>1. PICK lane \in LanesInUse : LaneExpires(r, lane)
      BY <2>3
    <3>2. \A q \in Roots : root'[q].pendingLanes = root[q].pendingLanes
      BY <3>1 DEF LaneExpires, RootType, RootRecord
    <3>. QED  BY <2>1, <3>2 DEF QueuesStay, LanesGrow, screenVars, queueVars, Queued
  <2>. QED  BY <1>3, <2>2, <2>3
<1>. QED  BY <1>1, <1>2, <1>3

LEMMA StutterStays ==
  ASSUME UNCHANGED vars
  PROVE  QueuesStay
BY DEF vars, QueuesStay, LanesGrow, screenVars, queueVars, Queued

(* What a step is to the updates, the queues and the pending lanes.        *)
LEMMA StepKinds ==
  ASSUME TypeInv, [Next]_vars
  PROVE  \/ \E r \in Roots, eventLane \in LanesInUse, content \in Contents :
              Update(r, eventLane, content)
         \/ CommitsOnExit
         \/ \E r \in Roots : CommitDelayed(r)
         \/ Retry
         \/ QueuesStay
<1>1. environment \in Environment
  BY EnvironmentsAssumption DEF TypeInv, DataType, ProgramType
<1>2. CASE EventUpdate \/ LayoutUpdate
  BY <1>1, <1>2, LanesFacts DEF EventUpdate, LayoutUpdate, Environment, Contents
<1>3. CASE Render
  BY <1>3, RenderStays
<1>4. CASE Exit
  BY <1>4, ExitStays
<1>5. CASE \/ ProcessRootSchedule \/ FlushSync \/ YieldToHost \/ FlushDone
           \/ Yield \/ CommitDone \/ CommitThrows \/ EndTask
  BY <1>5, ScheduleStays
<1>6. ASSUME NEW r \in Roots,
             \/ \E node \in tasks[r] : StartTask(r, node)
             \/ \E node \in tasks[r] : StartTaskWithoutLanes(r, node)
             \/ FlushRoot(r)
      PROVE  QueuesStay
  BY <1>6, StartStays
<1>7. CASE \/ Ping \/ Continue \/ ThrottlePasses
           \/ \E id \in Ids : Resolve(id)
           \/ \E r \in Roots : \E lane \in LanesInUse : LaneExpires(r, lane)
           \/ \E r \in Roots : TimeoutThenSuspendCommit(r)
  BY <1>7, ListenerStays
<1>8. CASE UNCHANGED vars
  BY <1>8, StutterStays
<1>. QED
  BY <1>2, <1>3, <1>4, <1>5, <1>6, <1>7, <1>8 DEF Next, Run, Ids

-----------------------------------------------------------------------------
(* The steps, as far as the stack and the finished trees are concerned: a  *)
(* stack is replaced by a fresh one, or keeps what it has rendered.        *)
SameTree(a, b) ==
  /\ a.rendered = b.rendered /\ a.hidden = b.hidden /\ a.done = b.done
  /\ a.todo = b.todo /\ a.exit = b.exit /\ a.complete = b.complete
  /\ a.didAttachPing = b.didAttachPing

StackStarts(r, lanes) ==
  /\ \E items \in SUBSET Queued : SameTree(wip', FreshStack(r, lanes, items))
  /\ wip'.root = r /\ wip'.lanes = lanes /\ wip'.reason = "NotSuspended"
  /\ finished' = [finished EXCEPT ![r] = NoTree]
  /\ pendingCommit' = [pendingCommit EXCEPT ![r] = "no"]

StackStays ==
  /\ SameTree(wip', wip) /\ wip'.root = wip.root /\ wip'.lanes = wip.lanes
  /\ wip'.reason = "Data" => wip.reason = "Data"
  /\ wip.pinged \subseteq wip'.pinged

MayStart(r, lanes) ==
  \/ lanes = {}
  \/ lanes = NextLanes(r) /\ pc # "exit"
  \/ pc = "exit" /\ r = attempt.root /\ lanes \in {attempt.lanes, ErrorRetryLanes}

FinishesTree == SuspendIndefinitely \/ ThrottleRetries \/ SuspendCommit

OtherStackStep ==
  \/ \E r \in Roots : \E lanes \in LaneSets :
       MayStart(r, lanes) /\ StackStarts(r, lanes)
  \/ StackStays /\ UNCHANGED <<finished, pendingCommit>>
  \/ FinishesTree \/ CommitsOnExit
  \/ \E r \in Roots : CommitDelayed(r) \/ TimeoutThenSuspendCommit(r)

LEMMA RenderRootStarts ==
  ASSUME NEW r \in Roots, NEW lanes \in LaneSets, MayStart(r, lanes),
         PrepareFreshStack(r, lanes) \/ RenderRoot(r, lanes)
  PROVE  OtherStackStep
<1>1. CASE PrepareFreshStack(r, lanes)
  <2>1. StackStarts(r, lanes)
    BY <1>1 DEF PrepareFreshStack, StackStarts, SameTree, FreshStack, Queued
  <2>. QED  BY <2>1 DEF OtherStackStep
<1>2. CASE UNCHANGED <<wip, finished, pendingCommit, queueVars>>
  BY <1>2 DEF OtherStackStep, StackStays, SameTree
<1>. QED  BY <1>1, <1>2 DEF RenderRoot

LEMMA StackKinds ==
  ASSUME TypeInv, [Next]_vars
  PROVE  \/ UNCHANGED vars
         \/ Render \/ SuspendRecovery \/ Yield
         \/ pc # "render" /\ pc' # "exit" /\ OtherStackStep
<1>. USE DEF TypeInv, DataType
<1>1. wip' = wip /\ finished' = finished /\ pendingCommit' = pendingCommit
        => OtherStackStep
  BY DEF OtherStackStep, StackStays, SameTree
<1>2. ASSUME NEW r \in Roots, NEW eventLane \in LanesInUse, NEW content \in Contents,
             Update(r, eventLane, content)
      PROVE  OtherStackStep
  <2>1. PICK lane \in LanesInUse, new \in Nat :
          ScheduleUpdateOnFiber(r, lane, [id |-> new, lane |-> lane])
    BY <1>2, UpdateStep DEF Queues
  <2>2. CASE /\ wip' = [FreshStack(r, {}, {}) EXCEPT !.interleaved = {lane}]
             /\ finished' = [finished EXCEPT ![r] = NoTree]
             /\ pendingCommit' = [pendingCommit EXCEPT ![r] = "no"]
    <3>1. /\ SameTree(wip', FreshStack(r, {}, {})) /\ wip'.root = r /\ wip'.lanes = {}
          /\ wip'.reason = "NotSuspended"
      BY <2>2 DEF SameTree, FreshStack
    <3>2. {} \in SUBSET Queued /\ {} \in LaneSets
      BY DEF LaneSets
    <3>3. StackStarts(r, {})
      BY <2>2, <3>1, <3>2, Zenon DEF StackStarts
    <3>4. MayStart(r, {})
      BY Zenon DEF MayStart
    <3>. QED  BY <3>2, <3>3, <3>4, Zenon DEF OtherStackStep
  <2>3. CASE /\ wip' \in {[wip EXCEPT !.interleaved = @ \cup {lane}], wip}
             /\ UNCHANGED <<finished, pendingCommit>>
    <3>1. StackStays
      BY <2>3 DEF StackStays, SameTree, StackType, Stack
    <3>. QED  BY <2>3, <3>1 DEF OtherStackStep
  <2>4. \/ /\ wip' = [FreshStack(r, {}, {}) EXCEPT !.interleaved = {lane}]
           /\ finished' = [finished EXCEPT ![r] = NoTree]
           /\ pendingCommit' = [pendingCommit EXCEPT ![r] = "no"]
        \/ /\ wip' \in {[wip EXCEPT !.interleaved = @ \cup {lane}], wip}
           /\ UNCHANGED <<finished, pendingCommit>>
    BY <2>1 DEF ScheduleUpdateOnFiber
  <2>. QED  BY <2>2, <2>3, <2>4
<1>3. environment \in Environment
  BY EnvironmentsAssumption DEF ProgramType
<1>4. ASSUME EventUpdate \/ LayoutUpdate
      PROVE  pc # "render" /\ pc' # "exit" /\ OtherStackStep
  <2>1. \E r \in Roots, eventLane \in LanesInUse, content \in Contents :
          Update(r, eventLane, content)
    BY <1>3, <1>4, LanesFacts DEF EventUpdate, LayoutUpdate, Environment, Contents
  <2>2. pc \in {"idle", "layout"} /\ pc' = pc
    BY <1>4 DEF EventUpdate, LayoutUpdate, Update, frameVars
  <2>. QED  BY <1>2, <2>1, <2>2
<1>5. ASSUME Exit, ~SuspendRecovery
      PROVE  pc # "render" /\ pc' # "exit" /\ OtherStackStep
  <2>1. /\ pc = "exit" /\ pc' # "exit"
    BY <1>5 DEF Exit, RenderTornTree, RetryAfterError, DidNotComplete,
       SuspendIndefinitely, ThrottleRetries, SuspendCommit, CommitSync, RenderRoot,
       CommitConcurrent, CommitRoot, FinishesConcurrent, Exits
  <2>2. attempt.root \in Roots /\ attempt.lanes \in LaneSets /\ ErrorRetryLanes \in LaneSets
    BY <2>1, RetryLanesInUse DEF FrameInv, FrameType, Frame
  <2>3. CASE RenderTornTree
    BY <2>1, <2>2, <2>3, RenderRootStarts DEF RenderTornTree, MayStart
  <2>4. CASE RetryAfterError
    BY <2>1, <2>2, <2>4, RenderRootStarts DEF RetryAfterError, MayStart
  <2>5. CASE DidNotComplete
    BY <1>1, <2>1, <2>5 DEF DidNotComplete, commitVars
  <2>. QED
    BY <1>5, <2>1, <2>3, <2>4, <2>5 DEF Exit, OtherStackStep, FinishesTree,
       CommitsOnExit
<1>6. ASSUME NEW r \in Roots, CommitDelayed(r) \/ TimeoutThenSuspendCommit(r)
      PROVE  pc # "render" /\ pc' # "exit" /\ OtherStackStep
  BY <1>6 DEF OtherStackStep, CommitDelayed, TimeoutThenSuspendCommit, Quiescent,
     CommitRoot, frameVars
<1>7. ASSUME NEW r \in Roots,
             \/ \E node \in tasks[r] : StartTask(r, node)
             \/ \E node \in tasks[r] : StartTaskWithoutLanes(r, node)
             \/ FlushRoot(r)
      PROVE  pc # "render" /\ pc' # "exit" /\ OtherStackStep
  <2>1. pc \in {"idle", "scheduler", "flush"}
    BY <1>7 DEF StartTask, StartTaskWithoutLanes, FlushRoot, SchedulerRuns, Quiescent
  <2>2. ASSUME RenderRoot(r, NextLanes(r))
        PROVE  pc # "render" /\ pc' # "exit" /\ OtherStackStep
    <3>1. NextLanes(r) \in LaneSets /\ MayStart(r, NextLanes(r))
      BY <2>1, NextLanesInUse DEF MayStart
    <3>. QED  BY <2>1, <2>2, <3>1, RenderRootStarts DEF RenderRoot
  <2>3. ASSUME NEW node, StartTaskWithoutLanes(r, node)
        PROVE  pc # "render" /\ pc' # "exit" /\ OtherStackStep
    BY <1>1, <2>1, <2>3 DEF StartTaskWithoutLanes, commitVars
  <2>. QED  BY <1>7, <2>2, <2>3 DEF StartTask, FlushRoot
<1>8. ASSUME Ping PROVE pc # "render" /\ pc' # "exit" /\ OtherStackStep
  <2>1. Head(ready).root \in Roots
    <3>1. Head(ready) \in Listener
      BY <1>8, HeadAndTail DEF Ping, Runs, ListenerType
    <3>. QED  BY <3>1 DEF Listener
  <2>2. pc = "idle" /\ pc' = pc
    BY <1>8 DEF Ping, Runs, listenerUnchanged, frameVars
  <2>3. CASE PrepareFreshStack(Head(ready).root, {})
    <3>1. {} \in LaneSets
      BY DEF LaneSets
    <3>2. MayStart(Head(ready).root, {})
      BY Zenon DEF MayStart
    <3>. QED  BY <2>1, <2>2, <2>3, <3>1, <3>2, RenderRootStarts
  <2>4. CASE /\ wip' \in {[wip EXCEPT !.pinged = @ \cup Head(ready).lanes], wip}
             /\ UNCHANGED <<finished, pendingCommit>>
    <3>1. StackStays
      BY <2>4 DEF StackStays, SameTree, StackType, Stack
    <3>. QED  BY <2>2, <2>4, <3>1 DEF OtherStackStep
  <2>. QED  BY <1>8, <2>3, <2>4 DEF Ping
<1>9. ASSUME Continue PROVE pc # "render" /\ pc' # "exit" /\ OtherStackStep
  <2>1. StackStays
    BY <1>9 DEF Continue, StackStays, SameTree, StackType, Stack
  <2>. QED
    BY <1>9, <2>1 DEF Continue, Runs, listenerUnchanged, frameVars, commitVars,
       OtherStackStep
<1>10. ASSUME \/ ProcessRootSchedule \/ FlushSync \/ YieldToHost \/ FlushDone
              \/ CommitDone \/ CommitThrows \/ EndTask \/ Retry \/ ThrottlePasses
              \/ (\E id \in Ids : Resolve(id))
              \/ (\E r \in Roots : \E lane \in LanesInUse : LaneExpires(r, lane))
       PROVE  pc # "render" /\ pc' # "exit" /\ OtherStackStep
  <2>1. wip' = wip /\ finished' = finished /\ pendingCommit' = pendingCommit
    BY <1>10 DEF ProcessRootSchedule, FlushSync, YieldToHost, FlushDone, CommitDone,
       CommitThrows, EndTask, Retry, ThrottlePasses, Resolve, LaneExpires, commitVars
  <2>2. pc # "render" /\ pc' # "exit"
    BY <1>10 DEF ProcessRootSchedule, FlushSync, YieldToHost, FlushDone, CommitDone,
       CommitThrows, EndTask, Retry, ThrottlePasses, Resolve, LaneExpires,
       FlushSyncWork, Quiescent, Runs, frameVars, listenerUnchanged
  <2>. QED  BY <1>1, <2>1, <2>2
<1>. QED
  BY <1>4, <1>5, <1>6, <1>7, <1>8, <1>9, <1>10 DEF Next, Run, Ids

(* The trees hold the updates whose items they have taken.                 *)
LEMMA TreesStep ==
  ASSUME TypeInv, TreesInv, [Next]_vars
  PROVE  TreesInv'
<1>. USE DEF TypeInv, DataType
<1>1. /\ Accounted(NoTree) /\ Accounted(FinishedTree)
      /\ \A r, lanes, items : Accounted(FreshStack(r, lanes, items))
  BY DEF Accounted, NoTree, FinishedTree, FreshStack, TreesInv
<1>2. /\ \A tree : \A r \in Roots :
           finished' = [finished EXCEPT ![r] = tree] /\ Accounted(tree) =>
             \A q \in Roots : Accounted(finished'[q])
      /\ finished' = finished => \A q \in Roots : Accounted(finished'[q])
  BY DEF TreesInv, CommitType
<1>3. \A tree : Accounted(tree) /\ SameTree(wip', tree) => Accounted(wip')
  BY DEF Accounted, SameTree
<1>4. CASE UNCHANGED vars \/ Yield
  BY <1>4 DEF vars, Yield, commitVars, renderUnchanged, TreesInv, Accounted
<1>5. CASE Render
  <2>1. finished' = finished
    BY <1>5 DEF Render, SkipUnit, RenderUnit, UnitThrows, UnitSuspends, Replay,
       WaitForData, YieldToMicrotasks, Unwind, CompleteRender, renderUnchanged,
       commitVars
  <2>2. \A i \in Included(Unit) : i.id = Unit
    BY DEF Included
  <2>3. CASE RenderUnit \/ UnitThrows
    <3>1. /\ wip'.rendered = wip.rendered \cup {Unit} /\ wip'.hidden = wip.hidden
          /\ wip'.done = wip.done \cup Included(Unit)
      BY <2>3 DEF RenderUnit, UnitThrows, StackType, Stack
    <3>2. Accounted(wip')
      BY <2>2, <3>1 DEF TreesInv, Accounted
    <3>. QED  BY <1>2, <2>1, <3>2 DEF TreesInv
  <2>4. CASE Unwind
    <3>1. /\ wip'.rendered = wip.rendered
          /\ \/ wip'.hidden = wip.hidden /\ wip'.done = wip.done
             \/ /\ wip'.hidden = wip.hidden \cup {Unit}
                /\ wip'.done = wip.done \cup Included(Unit)
      BY <2>4 DEF Unwind, StackType, Stack
    <3>2. Accounted(wip')
      BY <2>2, <3>1 DEF TreesInv, Accounted
    <3>. QED  BY <1>2, <2>1, <3>2 DEF TreesInv
  <2>5. ASSUME SkipUnit \/ UnitSuspends \/ Replay \/ WaitForData \/ YieldToMicrotasks
               \/ CompleteRender
        PROVE  TreesInv'
    <3>1. /\ wip'.rendered = wip.rendered /\ wip'.hidden = wip.hidden
          /\ wip'.done = wip.done
      BY <2>5 DEF SkipUnit, UnitSuspends, Replay, WaitForData, YieldToMicrotasks,
         CompleteRender, StackType, Stack
    <3>2. Accounted(wip')
      BY <3>1 DEF TreesInv, Accounted
    <3>. QED  BY <1>2, <2>1, <3>2 DEF TreesInv
  <2>. QED  BY <1>5, <2>3, <2>4, <2>5 DEF Render
<1>6. CASE SuspendRecovery
  <2>1. /\ wip'.rendered = wip.rendered /\ wip'.hidden = wip.hidden
        /\ wip'.done = wip.done /\ finished' = finished
    BY <1>6 DEF SuspendRecovery, StackType, Stack, commitVars
  <2>. QED  BY <1>2, <2>1 DEF TreesInv, Accounted
<1>7. CASE \E r \in Roots : \E lanes \in LaneSets : StackStarts(r, lanes)
  BY <1>1, <1>2, <1>3, <1>7 DEF StackStarts, TreesInv
<1>8. CASE StackStays /\ UNCHANGED <<finished, pendingCommit>>
  BY <1>2, <1>3, <1>8 DEF StackStays, TreesInv
<1>9. CASE FinishesTree
  <2>1. wip' = wip /\ finished' = [finished EXCEPT ![attempt.root] = FinishedTree]
    BY <1>9 DEF FinishesTree, SuspendIndefinitely, ThrottleRetries, SuspendCommit,
       finishUnchanged
  <2>2. attempt.root \in Roots
    BY <1>9 DEF FinishesTree, SuspendIndefinitely, ThrottleRetries, SuspendCommit,
       FinishesConcurrent, Exits, FrameInv
  <2>. QED  BY <1>1, <1>2, <2>1, <2>2 DEF TreesInv, Accounted
<1>10. ASSUME NEW r \in Roots, NEW tree, CommitRoot(r, tree)
       PROVE  TreesInv'
  <2>1. /\ wip'.rendered = wip.rendered /\ wip'.hidden = wip.hidden
        /\ wip'.done = wip.done
    BY <1>10 DEF CommitRoot, StackType, Stack
  <2>2. finished' = [finished EXCEPT ![r] = NoTree]
    BY <1>10 DEF CommitRoot
  <2>. QED  BY <1>1, <1>2, <2>1, <2>2 DEF TreesInv, Accounted
<1>11. CASE CommitsOnExit
  BY <1>10, <1>11, ExitCommits
<1>12. ASSUME NEW r \in Roots, CommitDelayed(r) PROVE TreesInv'
  BY <1>10, <1>12 DEF CommitDelayed
<1>13. ASSUME NEW r \in Roots, TimeoutThenSuspendCommit(r) PROVE TreesInv'
  BY <1>13 DEF TimeoutThenSuspendCommit, TreesInv, Accounted
<1>. QED
  BY <1>4, <1>5, <1>6, <1>7, <1>8, <1>9, <1>11, <1>12, <1>13, StackKinds
  DEF OtherStackStep

(* A commit removes from the queues what its tree has taken, and leaves on *)
(* its root the lanes of what is queued.                                   *)
LEMMA CommitKeepsPending ==
  ASSUME TypeInv, PendInv, NEW r \in Roots, NEW tree \in Tree, Accounted(tree),
         CommitRoot(r, tree)
  PROVE  PendInv'
<1>. USE DEF TypeInv, DataType
<1>1. /\ work' = work \ tree.done /\ concurrentQueues' = concurrentQueues
      /\ shown' = shown \cup tree.rendered
      /\ fallbacks' = (fallbacks \ tree.rendered) \cup tree.hidden
      /\ UNCHANGED updates
      /\ root' = [root EXCEPT ![r] = MarkRootFinished(@, RemainingLanes(r, tree))]
  BY DEF CommitRoot
<1>2. Ids' = Ids /\ \A id : RootOf(id)' = RootOf(id)
  BY <1>1 DEF Ids, RootOf
<1>3. /\ root'[r].pendingLanes = RemainingLanes(r, tree)
      /\ \A q \in Roots : q # r => root'[q] = root[q]
  BY <1>1 DEF MarkRootFinished, RootType, RootRecord
<1>4. \A i \in Queued' : i.lane \in root'[RootOf(i.id)].pendingLanes
  <2>1. TAKE i \in Queued'
  <2>2. i \in Queued \ tree.done \/ i \in concurrentQueues
    BY <1>1 DEF Queued
  <2>3. i \in Queued /\ RootOf(i.id) \in Roots
    BY <2>2, UpdateOf DEF Queued, QueueType, QueuedItem
  <2>4. CASE RootOf(i.id) = r
    <3>1. i \in WorkOf(r) \ tree.done \/ i \in concurrentQueues
      BY <2>2, <2>4 DEF WorkOf, Queued
    <3>2. i.lane \in RemainingLanes(r, tree)
      BY <3>1 DEF RemainingLanes, LanesOf
    <3>. QED  BY <1>3, <2>4, <3>2
  <2>5. CASE RootOf(i.id) # r
    BY <1>3, <2>3, <2>5 DEF PendInv
  <2>. QED  BY <2>4, <2>5
<1>5. \A id \in Ids \ (shown' \cup fallbacks') : \E i \in Queued' : i.id = id
  <2>1. TAKE id \in Ids \ (shown' \cup fallbacks')
  <2>2. id \notin tree.rendered /\ id \notin tree.hidden
    BY <1>1
  <2>3. PICK i \in Queued : i.id = id
    BY <1>1, <2>2 DEF PendInv
  <2>4. i \notin tree.done
    BY <2>2, <2>3 DEF Accounted
  <2>. QED  BY <1>1, <2>3, <2>4 DEF Queued
<1>. QED  BY <1>2, <1>4, <1>5 DEF PendInv

LEMMA PendStep ==
  ASSUME TypeInv, PendInv, TreesInv, RetryInv, [Next]_vars
  PROVE  PendInv'
<1>. USE DEF TypeInv, DataType
<1>1. ASSUME NEW r \in Roots, NEW eventLane \in LanesInUse, NEW content \in Contents,
             Update(r, eventLane, content)
      PROVE  PendInv'
  <2>0. PICK lane \in LanesInUse, new \in Nat :
           Queues(r, eventLane, content, lane, new)
    BY <1>1, UpdateStep
  <2>1. /\ new \notin Ids /\ Ids' = Ids \cup {new}
        /\ updates'[new] = [root |-> r, lane |-> lane, content |-> content]
        /\ \A id \in Ids : updates'[id] = updates[id]
        /\ Queued' = Queued \cup {[id |-> new, lane |-> lane]}
        /\ LanesGrow /\ lane \in root'[r].pendingLanes
    BY <2>0 DEF Queues
  <2>2. UNCHANGED <<shown, fallbacks>>
    BY <1>1 DEF Update
  <2>3. \A i \in Queued : i.id \in Ids /\ RootOf(i.id) \in Roots
    BY UpdateOf DEF Queued, QueueType, QueuedItem
  <2>4. \A id \in Ids : RootOf(id)' = RootOf(id)
    BY <2>1 DEF RootOf
  <2>5. RootOf(new)' = r
    BY <2>1 DEF RootOf
  <2>6. \A i \in Queued : i.lane \in root'[RootOf(i.id)'].pendingLanes
    BY <2>1, <2>3, <2>4 DEF PendInv, LanesGrow
  <2>7. \A i \in Queued' : i.lane \in root'[RootOf(i.id)'].pendingLanes
    BY <2>1, <2>5, <2>6
  <2>8. \A id \in Ids' \ (shown \cup fallbacks) : \E i \in Queued' : i.id = id
    <3>1. [id |-> new, lane |-> lane] \in Queued' /\ Queued \subseteq Queued'
      BY <2>1
    <3>2. [id |-> new, lane |-> lane].id = new
      OBVIOUS
    <3>3. \A id \in Ids \ (shown \cup fallbacks) : \E i \in Queued : i.id = id
      BY DEF PendInv
    <3>4. Ids' = Ids \cup {new}
      BY <2>1
    <3>. QED  BY <3>1, <3>2, <3>3, <3>4, Zenon
  <2>. QED  BY <2>2, <2>7, <2>8, Zenon DEF PendInv
<1>2. ASSUME NEW r \in Roots, NEW tree \in Tree, Accounted(tree), CommitRoot(r, tree)
      PROVE  PendInv'
  BY <1>2, CommitKeepsPending
<1>3. CASE CommitsOnExit
  BY <1>2, <1>3, ExitCommits DEF TreesInv, Accounted, FinishedTree
<1>4. ASSUME NEW r \in Roots, CommitDelayed(r) PROVE PendInv'
  BY <1>2, <1>4 DEF CommitDelayed, TreesInv, CommitType
<1>5. CASE Retry
  <2>. DEFINE r == Head(ready).root
              item == [id |-> Head(ready).id, lane |-> nextRetryLane]
  <2>1. Head(ready) \in Listener /\ Head(ready) \in Range(ready)
    BY <1>5, HeadAndTail DEF Retry, Runs, ListenerType
  <2>2. Head(ready).kind = "retry" /\ r \in Roots /\ r = RootOf(item.id)
    BY <1>5, <2>1 DEF Retry, Runs, Listener, RetryInv, Listens
  <2>3. /\ UNCHANGED <<updates, shown, fallbacks>>
        /\ Queued' = Queued \cup {item}
        /\ root' = [root EXCEPT ![r] = MarkRootUpdated(@, nextRetryLane)]
    BY <1>5 DEF Retry, listenerUnchanged, screenVars, Queued
  <2>4. /\ \A q \in Roots : root[q].pendingLanes \subseteq root'[q].pendingLanes
        /\ nextRetryLane \in root'[r].pendingLanes
    BY <2>2, <2>3 DEF MarkRootUpdated, RootType, RootRecord
  <2>5. \A i \in Queued : RootOf(i.id) \in Roots
    BY UpdateOf DEF Queued, QueueType, QueuedItem
  <2>6. Ids' = Ids /\ \A id : RootOf(id)' = RootOf(id)
    BY <2>3 DEF Ids, RootOf
  <2>. QED  BY <2>2, <2>3, <2>4, <2>5, <2>6 DEF PendInv
<1>6. CASE QueuesStay
  <2>1. Ids' = Ids /\ \A id : RootOf(id)' = RootOf(id)
    BY <1>6 DEF Ids, RootOf, QueuesStay
  <2>2. \A i \in Queued : RootOf(i.id) \in Roots
    BY UpdateOf DEF Queued, QueueType, QueuedItem
  <2>. QED  BY <1>6, <2>1, <2>2 DEF QueuesStay, PendInv, LanesGrow
<1>. QED  BY <1>1, <1>3, <1>4, <1>5, <1>6, StepKinds

-----------------------------------------------------------------------------
(* The steps, as far as the listeners are concerned.                       *)
LEMMA ListenerKinds ==
  ASSUME TypeInv, [Next]_vars
  PROVE  \/ UNCHANGED <<listeners, ready>>
         \/ /\ pc = "render"
            /\ \E l \in Listener : l.kind # "retry" /\ AddListener(l)
         \/ CommitsOnExit \/ \E r \in Roots : CommitDelayed(r)
         \/ Ping \/ Continue \/ Retry
         \/ \E id \in Ids : Resolve(id)
<1>. USE DEF TypeInv, DataType
<1>1. CASE Render
  <2>1. CASE WaitForData \/ Unwind
    <3>1. wip.todo # {} /\ pc = "render" /\ wip.root \in Roots
      BY <2>1 DEF WaitForData, Unwind, FrameInv
    <3>2. Unit \in Ids /\ wip.lanes \in LaneSets
      BY <3>1, UnitIsToDo DEF StackType, Stack
    <3>. DEFINE continue == [kind |-> "continue", id |-> Unit, root |-> wip.root,
                             lanes |-> {}]
    <3>3. /\ continue \in Listener /\ continue.kind # "retry"
          /\ PingListener(Unit) \in Listener /\ PingListener(Unit).kind # "retry"
      BY <3>1, <3>2 DEF Listener, PingListener, LaneSets
    <3>4. AddListener(continue) \/ AddListener(PingListener(Unit))
      BY <2>1 DEF WaitForData, Unwind
    <3>. HIDE DEF continue
    <3>. QED  BY <3>1, <3>3, <3>4
  <2>2. ASSUME SkipUnit \/ RenderUnit \/ UnitThrows \/ UnitSuspends \/ Replay
               \/ YieldToMicrotasks \/ CompleteRender
        PROVE  UNCHANGED <<listeners, ready>>
    BY <2>2 DEF SkipUnit, RenderUnit, UnitThrows, UnitSuspends, Replay,
       YieldToMicrotasks, CompleteRender, listenerVars
  <2>. QED  BY <1>1, <2>1, <2>2 DEF Render
<1>2. ASSUME Exit, ~CommitsOnExit PROVE UNCHANGED <<listeners, ready>>
  BY <1>2 DEF Exit, RenderTornTree, RetryAfterError, SuspendRecovery, DidNotComplete,
     SuspendIndefinitely, ThrottleRetries, SuspendCommit, CommitsOnExit,
     finishUnchanged, listenerVars
<1>3. ASSUME \/ EventUpdate \/ LayoutUpdate \/ ProcessRootSchedule \/ FlushSync
             \/ YieldToHost \/ FlushDone \/ Yield \/ CommitDone \/ CommitThrows
             \/ EndTask \/ ThrottlePasses
      PROVE  UNCHANGED <<listeners, ready>>
  BY <1>3 DEF EventUpdate, LayoutUpdate, Update, ProcessRootSchedule, FlushSync,
     YieldToHost, FlushDone, Yield, CommitDone, CommitThrows, EndTask, ThrottlePasses,
     listenerVars
<1>4. ASSUME NEW r \in Roots,
             \/ \E node \in tasks[r] : StartTask(r, node)
             \/ \E node \in tasks[r] : StartTaskWithoutLanes(r, node)
             \/ FlushRoot(r) \/ TimeoutThenSuspendCommit(r)
             \/ \E lane \in LanesInUse : LaneExpires(r, lane)
      PROVE  UNCHANGED <<listeners, ready>>
  BY <1>4 DEF StartTask, StartTaskWithoutLanes, FlushRoot, TimeoutThenSuspendCommit,
     LaneExpires, listenerVars
<1>5. CASE UNCHANGED vars
  BY <1>5 DEF vars, listenerVars
<1>. QED  BY <1>1, <1>2, <1>3, <1>4, <1>5 DEF Next, Run, Ids

LEMMA AddListenerAdds ==
  ASSUME TypeInv, NEW l \in Listener, AddListener(l)
  PROVE  /\ \A m : Listens(m)' => Listens(m) \/ m = l
         /\ \A m : Listens(m) => Listens(m)'
         /\ Listens(l)' /\ Wakes(l)'
         /\ \A m \in Listener : Wakes(m) => Wakes(m)'
<1>. USE DEF TypeInv, DataType, ListenerType
<1>1. l.id \in UpdateIds
  BY UpdateOf DEF Listener
<1>2. CASE Wakes(l) /\ UNCHANGED <<listeners, ready>>
  BY <1>1, <1>2 DEF Listens, Wakes
<1>3. CASE ready' = Append(ready, l) /\ UNCHANGED listeners
  <2>1. Range(ready') = Range(ready) \cup {l}
    BY <1>3, RangeAppend
  <2>. QED  BY <1>3, <2>1 DEF Listens, Wakes
<1>4. CASE /\ listeners' = [listeners EXCEPT ![l.id] = Append(@, l)]
           /\ UNCHANGED ready
  <2>1. Range(listeners'[l.id]) = Range(listeners[l.id]) \cup {l}
    BY <1>1, <1>4, RangeAppend
  <2>2. \A id : id # l.id => listeners'[id] = listeners[id]
    BY <1>4
  <2>. QED  BY <1>1, <1>4, <2>1, <2>2 DEF Listens, Wakes
<1>. QED  BY <1>2, <1>3, <1>4 DEF AddListener, Listen

LEMMA TakeListener ==
  ASSUME TypeInv, Ping \/ Continue \/ Retry
  PROVE  /\ Head(ready) \in Listener /\ Listens(Head(ready))
         /\ \A m : Listens(m)' => Listens(m)
         /\ \A m : Listens(m) /\ m # Head(ready) => Listens(m)'
         /\ \A m \in Listener : Wakes(m) /\ m # Head(ready) => Wakes(m)'
<1>1. ready # <<>> /\ ready' = Tail(ready) /\ listeners' = listeners
  BY DEF Ping, Continue, Retry, Runs, listenerUnchanged
<1>2. Head(ready) \in Listener /\ Range(ready) = {Head(ready)} \cup Range(ready')
  BY <1>1, HeadAndTail DEF TypeInv, DataType, ListenerType
<1>. QED  BY <1>1, <1>2 DEF Listens, Wakes

LEMMA ResolveMoves ==
  ASSUME TypeInv, NEW id \in Ids, Resolve(id)
  PROVE  /\ \A m : Listens(m)' <=> Listens(m)
         /\ \A m \in Listener : Wakes(m) => Wakes(m)'
<1>. USE DEF TypeInv, DataType, ListenerType
<1>1. id \in UpdateIds
  BY UpdateOf
<1>2. ready = <<>> /\ ready' = listeners[id] /\ listeners' = [listeners EXCEPT ![id] = <<>>]
  BY DEF Resolve, Quiescent
<1>3. Range(ready) = {} /\ Range(listeners'[id]) = {}
  BY <1>1, <1>2 DEF Range
<1>4. \A i : i # id => listeners'[i] = listeners[i]
  BY <1>2
<1>5. \A m : Listens(m)' <=> Listens(m)
  BY <1>1, <1>2, <1>3, <1>4 DEF Listens
<1>6. \A m \in Listener : Wakes(m) => Wakes(m)'
  BY <1>2, <1>3, <1>4 DEF Wakes
<1>. QED  BY <1>5, <1>6

(* The fallbacks that a commit shows listen to their data, or have been    *)
(* told that it is there.                                                  *)
LEMMA CommitListens ==
  ASSUME TypeInv, NEW r \in Roots, NEW tree \in Tree, CommitRoot(r, tree)
  PROVE  /\ \A m : Listens(m)' => Listens(m) \/ \E i \in NewRetries(tree) : m = RetryListener(i)
         /\ \A m : Listens(m) => Listens(m)'
         /\ \A m \in Listener : Wakes(m) => Wakes(m)'
         /\ \A id \in tree.hidden : Wakes(RetryListener(id))'
<1>. USE DEF TypeInv, DataType
<1>1. AttachRetryListeners(tree) /\ updates' = updates
  BY DEF CommitRoot
<1>2. /\ \A id \in UpdateIds :
              /\ Range(listeners[id]) \subseteq Range(listeners'[id])
              /\ Range(listeners'[id]) \subseteq
                   Range(listeners[id]) \cup {RetryListener(i) : i \in NewRetries(tree)}
      /\ Range(ready') = Range(ready) \cup
              {RetryListener(i) : i \in NewRetries(tree) \cap resolved}
      /\ \A id \in NewRetries(tree) \ resolved :
              RetryListener(id) \in Range(listeners'[id])
  BY <1>1, AttachesRetries
<1>3. \A m \in Listener : m.id \in UpdateIds
  BY UpdateOf DEF Listener
<1>4. \A m \in Listener : Wakes(m) => Wakes(m)'
  BY <1>2, <1>3 DEF Wakes
<1>5. \A id \in tree.hidden : RetryListener(id) \in Listener /\ RetryListener(id).id = id
  BY UpdateOf DEF RetryListener, Listener, LaneSets, Tree
<1>6. \A id : RetryListener(id)' = RetryListener(id)
  BY <1>1 DEF RetryListener, RootOf
<1>7. \A id \in tree.hidden : Wakes(RetryListener(id))'
  <2>1. TAKE id \in tree.hidden
  <2>2. CASE Wakes(RetryListener(id))
    BY <1>4, <1>5, <1>6, <2>2
  <2>3. CASE id \in NewRetries(tree) \cap resolved
    BY <1>2, <1>6, <2>3 DEF Wakes
  <2>4. CASE id \in NewRetries(tree) \ resolved
    BY <1>2, <1>5, <1>6, <2>4 DEF Wakes
  <2>. QED  BY <2>2, <2>3, <2>4 DEF NewRetries
<1>8. /\ \A m : Listens(m)' => Listens(m) \/ \E i \in NewRetries(tree) : m = RetryListener(i)
      /\ \A m : Listens(m) => Listens(m)'
  BY <1>2 DEF Listens
<1>. QED  BY <1>4, <1>7, <1>8

LEMMA RetryListenerFits ==
  ASSUME ProgramType, NEW id \in Ids
  PROVE  RetryListener(id) \in Listener /\ RetryListener(id).kind = "retry"
         /\ RetryListener(id).id = id /\ RetryListener(id).root = RootOf(id)
BY UpdateOf DEF RetryListener, Listener, LaneSets

(* A fallback that listens goes on listening, but for its retry.           *)
LEMMA FallbacksStayRetried ==
  ASSUME TypeInv, RetryInv, UNCHANGED <<updates, fallbacks>>,
         \A i \in Queued : i \in Queued',
         \A l \in Listener : l.kind = "retry" /\ Wakes(l) => Wakes(l)',
         \A l : Listens(l)' /\ l.kind = "retry" => Listens(l)
  PROVE  RetryInv'
<1>1. Listener' = Listener /\ \A id : RootOf(id)' = RootOf(id)
  BY UnchangedTypes DEF TypeInv, RootOf
<1>2. \A id \in fallbacks : RetryListener(id) \in Listener /\ RetryListener(id).kind = "retry"
  BY RetryListenerFits DEF TypeInv, DataType, ProgramType
<1>3. \A id : RetryListener(id)' = RetryListener(id)
  BY <1>1 DEF RetryListener
<1>4. \A id \in fallbacks : Wakes(RetryListener(id)) => Wakes(RetryListener(id))'
  BY <1>2, <1>3
<1>5. \A l \in Listener : Listens(l)' /\ l.kind = "retry" => l.root = RootOf(l.id)
  BY DEF RetryInv
<1>. QED  BY <1>1, <1>4, <1>5 DEF RetryInv

LEMMA CommitKeepsRetries ==
  ASSUME TypeInv, RetryInv, NEW r \in Roots, NEW tree \in Tree, Accounted(tree),
         CommitRoot(r, tree)
  PROVE  RetryInv'
<1>. USE DEF TypeInv, DataType
<1>1. /\ UNCHANGED updates /\ work' = work \ tree.done
      /\ concurrentQueues' = concurrentQueues
      /\ fallbacks' = (fallbacks \ tree.rendered) \cup tree.hidden
  BY DEF CommitRoot
<1>2. Listener' = Listener /\ \A id : RootOf(id)' = RootOf(id)
  BY <1>1, UnchangedTypes DEF RootOf
<1>3. /\ \A m : Listens(m)' => Listens(m) \/ \E i \in NewRetries(tree) : m = RetryListener(i)
      /\ \A m \in Listener : Wakes(m) => Wakes(m)'
      /\ \A id \in tree.hidden : Wakes(RetryListener(id))'
  BY CommitListens
<1>4. NewRetries(tree) \in SUBSET Ids
  BY DEF NewRetries, Tree
<1>5. \A l \in Listener : Listens(l)' /\ l.kind = "retry" => l.root = RootOf(l.id)
  BY <1>3, <1>4, RetryListenerFits DEF RetryInv
<1>6. \A id \in fallbacks' :
        Wakes(RetryListener(id))' \/ \E i \in Queued' : i.id = id
  <2>1. TAKE id \in fallbacks'
  <2>2. CASE id \in tree.hidden
    BY <1>3, <2>2
  <2>3. CASE id \in fallbacks /\ id \notin tree.rendered /\ id \notin tree.hidden
    <3>1. CASE Wakes(RetryListener(id))
      <4>1. RetryListener(id) \in Listener /\ RetryListener(id)' = RetryListener(id)
        BY <1>2, <2>3, RetryListenerFits DEF ProgramType, RetryListener
      <4>. QED  BY <1>3, <3>1, <4>1
    <3>2. CASE \E i \in Queued : i.id = id
      BY <1>1, <2>3, <3>2 DEF Queued, Accounted
    <3>. QED  BY <2>3, <3>1, <3>2 DEF RetryInv
  <2>. QED  BY <1>1, <2>2, <2>3
<1>. QED  BY <1>2, <1>5, <1>6 DEF RetryInv

LEMMA RetryStep ==
  ASSUME TypeInv, RetryInv, TreesInv, [Next]_vars
  PROVE  RetryInv'
<1>. USE DEF TypeInv, DataType
<1>1. ASSUME NEW r \in Roots, NEW eventLane \in LanesInUse, NEW content \in Contents,
             Update(r, eventLane, content)
      PROVE  RetryInv'
  <2>1. PICK lane \in LanesInUse, new \in Nat :
           Queues(r, eventLane, content, lane, new)
    BY <1>1, UpdateStep
  <2>2. UNCHANGED <<fallbacks, listeners, ready>>
    BY <1>1 DEF Update, listenerVars
  <2>3. /\ \A id \in Ids : RootOf(id)' = RootOf(id)
        /\ \A i \in Queued : i \in Queued'
    BY <2>1 DEF Queues, RootOf
  <2>4. \A l : Listens(l) => l \in Listener
    BY DEF Listens, ListenerType, Range
  <2>5. \A l : Listens(l)' /\ l.kind = "retry" => l.root = RootOf(l.id)'
    BY <2>2, <2>3, <2>4 DEF Listens, RetryInv, Listener
  <2>6. \A id \in fallbacks :
          Wakes(RetryListener(id))' \/ \E i \in Queued' : i.id = id
    <3>1. \A id \in fallbacks : RetryListener(id)' = RetryListener(id)
      BY <2>3 DEF RetryListener, ProgramType
    <3>2. \A l : Wakes(l) => Wakes(l)'
      BY <2>2 DEF Wakes
    <3>. QED  BY <2>3, <3>1, <3>2 DEF RetryInv
  <2>. QED  BY <2>2, <2>5, <2>6 DEF RetryInv
<1>2. ASSUME NEW r \in Roots, NEW tree \in Tree, Accounted(tree), CommitRoot(r, tree)
      PROVE  RetryInv'
  BY <1>2, CommitKeepsRetries
<1>3. CASE CommitsOnExit
  BY <1>2, <1>3, ExitCommits DEF TreesInv, Accounted, FinishedTree
<1>4. ASSUME NEW r \in Roots, CommitDelayed(r) PROVE RetryInv'
  BY <1>2, <1>4 DEF CommitDelayed, TreesInv, CommitType
<1>5. CASE Retry
  <2>. DEFINE head == Head(ready)
              item == [id |-> head.id, lane |-> nextRetryLane]
  <2>1. /\ head \in Listener
        /\ \A m : Listens(m)' => Listens(m)
        /\ \A m \in Listener : Wakes(m) /\ m # head => Wakes(m)'
    BY <1>5, TakeListener
  <2>2. UNCHANGED <<updates, fallbacks>> /\ Queued' = Queued \cup {item}
    BY <1>5 DEF Retry, listenerUnchanged, screenVars, Queued
  <2>3. Listener' = Listener /\ \A id : RootOf(id)' = RootOf(id)
    BY <2>2, UnchangedTypes DEF RootOf
  <2>4. \A id \in fallbacks : /\ RetryListener(id)' = RetryListener(id)
                              /\ RetryListener(id) \in Listener
                              /\ RetryListener(id).id = id
    BY <2>3, RetryListenerFits DEF RetryListener, ProgramType
  <2>5. item \in Queued' /\ item.id = head.id /\ \A i \in Queued : i \in Queued'
    BY <2>2
  <2>. HIDE DEF head, item
  <2>6. \A id \in fallbacks : Wakes(RetryListener(id))' \/ \E i \in Queued' : i.id = id
    <3>1. TAKE id \in fallbacks
    <3>2. CASE RetryListener(id) = head
      BY <2>4, <2>5, <3>2
    <3>3. CASE RetryListener(id) # head
      BY <2>1, <2>4, <2>5, <3>3 DEF RetryInv
    <3>. QED  BY <3>2, <3>3
  <2>7. \A l \in Listener : Listens(l)' /\ l.kind = "retry" => l.root = RootOf(l.id)
    BY <2>1 DEF RetryInv
  <2>. QED  BY <2>2, <2>3, <2>6, <2>7 DEF RetryInv
<1>6. CASE QueuesStay /\ ~(\/ Retry \/ CommitsOnExit
                            \/ \E r \in Roots : CommitDelayed(r))
  <2>1. UNCHANGED <<updates, fallbacks>> /\ \A i \in Queued : i \in Queued'
    BY <1>6 DEF QueuesStay
  <2>2. SUFFICES /\ \A l \in Listener : l.kind = "retry" /\ Wakes(l) => Wakes(l)'
                 /\ \A l : Listens(l)' /\ l.kind = "retry" => Listens(l)
    BY <2>1, FallbacksStayRetried
  <2>3. CASE UNCHANGED <<listeners, ready>>
    BY <2>3 DEF Wakes, Listens
  <2>4. CASE \E l \in Listener : l.kind # "retry" /\ AddListener(l)
    BY <2>4, AddListenerAdds
  <2>5. CASE Ping \/ Continue
    <3>1. Head(ready).kind # "retry"
      BY <2>5 DEF Ping, Continue, Runs
    <3>. QED  BY <2>5, <3>1, TakeListener
  <2>6. CASE \E id \in Ids : Resolve(id)
    BY <2>6, ResolveMoves
  <2>. QED  BY <1>6, <2>3, <2>4, <2>5, <2>6, ListenerKinds
<1>. QED  BY <1>1, <1>3, <1>4, <1>5, <1>6, StepKinds

-----------------------------------------------------------------------------
QueueInv == TypeInv /\ TreesInv /\ PendInv /\ RetryInv

LEMMA InitQueues ==
  ASSUME Init
  PROVE  QueueInv
<1>1. TypeInv
  BY InitTypes
<1>2. TreesInv
  BY DEF Init, TreesInv, Accounted, NoTree
<1>3. Queued = {} /\ fallbacks = {} /\ Ids = {}
  BY DEF Init, Queued, Ids
<1>4. \A l : ~Listens(l)
  BY DEF Init, Listens, Range
<1>. QED  BY <1>1, <1>2, <1>3, <1>4 DEF QueueInv, PendInv, RetryInv

LEMMA QueueStep ==
  ASSUME QueueInv, [Next]_vars
  PROVE  QueueInv'
BY TypeStep, TreesStep, PendStep, RetryStep DEF QueueInv

(* The queues, the trees and the listeners fit together in every state:    *)
(* what is queued has a pending lane, what is on no screen is queued, a    *)
(* tree processes what it shows or hides, a fallback has a retry.          *)
THEOREM WorkLoopQueues == Spec => []QueueInv
<1>1. Init => QueueInv
  BY InitQueues
<1>2. QueueInv /\ [Next]_vars => QueueInv'
  BY QueueStep
<1>. QED  BY <1>1, <1>2, PTL DEF Spec

LEMMA PendingAre ==
  ASSUME QueueInv
  PROVE  UpdatesArePending /\ FallbacksAreRetried
<1>1. \A i \in Queued : i.lane \in root[RootOf(i.id)].pendingLanes
  BY DEF QueueInv, PendInv
<1>2. \A id \in Ids \ (shown \cup fallbacks) : \E i \in Queued : i.id = id
  BY DEF QueueInv, PendInv
<1>3. \A id \in fallbacks : Wakes(RetryListener(id)) \/ \E i \in Queued : i.id = id
  BY DEF QueueInv, RetryInv
<1>. QED
  BY <1>1, <1>2, <1>3 DEF UpdatesArePending, FallbacksAreRetried, Queued, Ids

(* No update is lost, whatever renders are interrupted, restarted,         *)
(* suspended, thrown away or recovered: until it is on the screen, or its  *)
(* fallback is, it is in a queue and its lane is pending.                  *)
THEOREM WorkLoopUpdatesArePending == Spec => []UpdatesArePending
<1>1. QueueInv => UpdatesArePending
  BY PendingAre
<1>. QED  BY <1>1, WorkLoopQueues, PTL

(* No fallback is stuck: it listens to its data, or the retry is due or in *)
(* a queue at a pending lane.                                              *)
THEOREM WorkLoopFallbacksAreRetried == Spec => []FallbacksAreRetried
<1>1. QueueInv => FallbacksAreRetried
  BY PendingAre
<1>. QED  BY <1>1, WorkLoopQueues, PTL

-----------------------------------------------------------------------------
(* A tree that was unwound is not rendered any further; its stack is left, *)
(* and the attempt either exits without committing or is the second one    *)
(* after an error, suspended.                                              *)
CompleteInv ==
  /\ wip.exit = "DidNotComplete" => wip.todo = {}
  /\ ~wip.complete =>
       /\ pc = "render" => wip.exit = "DidNotComplete"
       /\ pc = "exit" => wip.exit = "DidNotComplete" \/ attempt.phase = "suspended"
       /\ pc \notin {"render", "exit"} => wip.root = NoRoot

-----------------------------------------------------------------------------
LEMMA CommitKeepsStack ==
  ASSUME TypeInv, NEW r, NEW tree, CommitRoot(r, tree)
  PROVE  /\ SameTree(wip', wip) /\ wip'.reason = wip.reason
         /\ wip'.pinged = wip.pinged
         /\ \/ wip'.root = wip.root /\ wip'.lanes = wip.lanes
            \/ wip.root = r /\ wip'.root = NoRoot
         /\ wip'.root # r \/ r = NoRoot
         /\ pc' = "layout"
BY DEF CommitRoot, SameTree, TypeInv, DataType, StackType, Stack

LEMMA CompleteRenderStep ==
  ASSUME TypeInv, CompleteInv, Render
  PROVE  CompleteInv'
<1>. USE DEF TypeInv, DataType, StackType, Stack, FrameInv, CompleteInv
<1>1. CASE SkipUnit \/ RenderUnit \/ UnitThrows
  BY <1>1 DEF SkipUnit, RenderUnit, UnitThrows, Rendering
<1>2. CASE UnitSuspends \/ Replay
  BY <1>2 DEF UnitSuspends, Replay, Rendering
<1>3. CASE WaitForData \/ YieldToMicrotasks
  BY <1>3 DEF WaitForData, YieldToMicrotasks
<1>4. CASE Unwind
  <2>1. wip.todo # {} /\ pc = "render" /\ wip.exit # "DidNotComplete"
    BY <1>4 DEF Unwind
  <2>2. pc' = pc
    BY <1>4 DEF Unwind
  <2>3. CASE updates[Unit].content = "root"
    BY <1>4, <2>1, <2>2, <2>3 DEF Unwind, SuspendedExit
  <2>4. CASE updates[Unit].content # "root"
    BY <1>4, <2>1, <2>2, <2>4 DEF Unwind, SuspendedExit
  <2>. QED  BY <2>3, <2>4
<1>5. CASE CompleteRender
  BY <1>5 DEF CompleteRender
<1>. QED  BY <1>1, <1>2, <1>3, <1>4, <1>5 DEF Render

LEMMA CompleteStep ==
  ASSUME TypeInv, CompleteInv, [Next]_vars
  PROVE  CompleteInv'
<1>0. TypeInv'
  BY TypeStep
<1>1. CASE UNCHANGED vars
  BY <1>1 DEF vars, frameVars, CompleteInv
<1>2. CASE Render
  BY <1>2, CompleteRenderStep
<1>3. CASE SuspendRecovery
  BY <1>3 DEF SuspendRecovery, CompleteInv, TypeInv, DataType, StackType, Stack,
     FrameType, Frame, FrameInv
<1>4. CASE Yield
  BY <1>4 DEF Yield, Rendering, CompleteInv
<1>5. CASE pc # "render" /\ pc' # "exit" /\ OtherStackStep
  <2>1. ASSUME SameTree(wip', wip), wip'.root \in {wip.root, NoRoot}
        PROVE  CompleteInv'
    <3>1. wip'.root = NoRoot => pc' # "render"
      BY <1>0, RootsAssumption DEF TypeInv, FrameInv
    <3>2. pc = "exit" => wip.root = NoRoot
      BY DEF TypeInv, FrameInv
    <3>. QED  BY <1>5, <2>1, <3>1, <3>2 DEF CompleteInv, SameTree
  <2>2. ASSUME NEW r \in Roots, NEW lanes \in LaneSets, StackStarts(r, lanes)
        PROVE  CompleteInv'
    BY <2>2 DEF StackStarts, SameTree, FreshStack, CompleteInv
  <2>3. CASE StackStays
    BY <2>1, <2>3 DEF StackStays
  <2>4. CASE FinishesTree
    <3>1. wip' = wip
      BY <2>4 DEF FinishesTree, SuspendIndefinitely, ThrottleRetries, SuspendCommit,
         finishUnchanged
    <3>. QED  BY <2>1, <3>1 DEF SameTree
  <2>5. ASSUME NEW r \in Roots, NEW tree, CommitRoot(r, tree) PROVE CompleteInv'
    BY <2>1, <2>5, CommitKeepsStack
  <2>6. CASE CommitsOnExit
    BY <2>5, <2>6, ExitCommits
  <2>7. ASSUME NEW r \in Roots, CommitDelayed(r) PROVE CompleteInv'
    BY <2>5, <2>7 DEF CommitDelayed
  <2>8. ASSUME NEW r \in Roots, TimeoutThenSuspendCommit(r) PROVE CompleteInv'
    <3>1. wip' = wip
      BY <2>8 DEF TimeoutThenSuspendCommit
    <3>. QED  BY <2>1, <3>1 DEF SameTree
  <2>. QED  BY <1>5, <2>2, <2>3, <2>4, <2>6, <2>7, <2>8 DEF OtherStackStep
<1>. QED  BY <1>1, <1>2, <1>3, <1>4, <1>5, StackKinds

(* A tree without a Suspense boundary around data that is missing is not   *)
(* committed, nor is its commit prepared; but for a tree whose render      *)
(* after an error was suspended.                                           *)
THEOREM WorkLoopUnrecoveredTreesAreComplete ==
  Spec => UnrecoveredTreesAreComplete
<1>. DEFINE Inv == TypeInv /\ CompleteInv
            Complete == CommitSync \/ CommitConcurrent \/ ThrottleRetries \/ SuspendCommit
                          => wip.complete \/ attempt.phase = "suspended"
<1>1. Init => Inv
  <2>1. Init => CompleteInv
    BY DEF Init, CompleteInv
  <2>. QED  BY <2>1, InitTypes
<1>2. Inv /\ [Next]_vars => Inv'
  BY TypeStep, CompleteStep
<1>3. Inv => Complete
  BY DEF CompleteInv, CommitSync, CommitConcurrent, ThrottleRetries, SuspendCommit,
     FinishesConcurrent, Exits
<1>. HIDE DEF Inv
<1>4. Inv /\ [Next]_vars => [Complete]_vars
  BY <1>3
<1>. HIDE DEF Complete
<1>5. Spec => [][Complete]_vars
  BY <1>1, <1>2, <1>4, PTL DEF Spec
<1>. QED  BY <1>5 DEF UnrecoveredTreesAreComplete, Complete

-----------------------------------------------------------------------------
(* Suspended lanes are pending and pinged ones suspended; what a root is   *)
(* rendered at, or its finished tree was, is pending; and its commit is    *)
(* not delayed while it is rendered.                                       *)
NestInv ==
  /\ \A r \in Roots : /\ Nested(root[r])
                      /\ finished[r].lanes \subseteq root[r].pendingLanes
  /\ wip.root \in Roots =>
       /\ wip.lanes \subseteq root[wip.root].pendingLanes
       /\ pendingCommit[wip.root] = "no"
  /\ pc = "exit" =>
       /\ attempt.lanes \subseteq root[attempt.root].pendingLanes
       /\ pendingCommit[attempt.root] = "no"

Commits == CommitsOnExit \/ \E r \in Roots : CommitDelayed(r)

LEMMA CommitsAre ==
  ASSUME TypeInv, Commits
  PROVE  \E r \in Roots, tree \in Tree :
           /\ CommitRoot(r, tree)
           /\ \/ pc = "exit" /\ r = attempt.root /\ tree = FinishedTree
              \/ pc = "idle" /\ tree = finished[r]
<1>1. ASSUME NEW r \in Roots, CommitDelayed(r)
      PROVE  CommitRoot(r, finished[r]) /\ finished[r] \in Tree /\ pc = "idle"
  BY <1>1 DEF CommitDelayed, Quiescent, TypeInv, DataType, CommitType
<1>. QED  BY <1>1, ExitCommits DEF Commits

LEMMA PendingGrows ==
  ASSUME TypeInv, [Next]_vars
  PROVE  LanesGrow \/ Commits
<1>1. ASSUME Retry PROVE LanesGrow
  <2>1. Head(ready) \in Listener
    BY <1>1, HeadAndTail DEF Retry, Runs, TypeInv, DataType, ListenerType
  <2>. QED
    BY <1>1, <2>1 DEF Retry, Listener, MarkRootUpdated, LanesGrow, TypeInv, DataType,
       RootType, RootRecord
<1>. QED  BY <1>1, StepKinds, UpdateStep DEF Queues, QueuesStay, Commits

LEMMA NextLanesArePendingLanes ==
  ASSUME TypeInv, NestInv, NEW r \in Roots
  PROVE  NextLanes(r) \subseteq root[r].pendingLanes
<1>1. root[r] \in RootRecord(LanesInUse) /\ Nested(root[r])
  BY DEF TypeInv, DataType, RootType, NestInv
<1>2. (IF wip.root = r THEN wip.lanes ELSE {}) \in SUBSET root[r].pendingLanes
  BY DEF NestInv
<1>. QED  BY <1>1, <1>2, LanesFacts, NextLanesArePending DEF NextLanes

LEMMA StartsAtPendingLanes ==
  ASSUME TypeInv, NestInv, NEW r \in Roots, NEW lanes, MayStart(r, lanes)
  PROVE  lanes \subseteq root[r].pendingLanes
<1>1. ErrorRetryLanes \subseteq root[attempt.root].pendingLanes
  BY DEF ErrorRetryLanes, LanesToRetrySynchronouslyOnError
<1>. QED  BY <1>1, NextLanesArePendingLanes DEF MayStart, NestInv

-----------------------------------------------------------------------------
(* The steps, as far as the lanes of the roots are concerned.              *)
SuspendsRoot(r, lanes) ==
  /\ root' = [root EXCEPT ![r] = Suspend(@, lanes)]
  /\ lanes \subseteq root[r].pendingLanes
  /\ \/ Unwind /\ r = wip.root
     \/ pc = "exit" /\ r = attempt.root /\ DidNotComplete
     \/ pc = "exit" /\ r = attempt.root /\ FinishesTree
     \/ TimeoutThenSuspendCommit(r)

RootsStay ==
  \A r \in Roots : /\ root'[r].pendingLanes = root[r].pendingLanes
                   /\ root'[r].suspendedLanes = root[r].suspendedLanes
                   /\ root'[r].pingedLanes = root[r].pingedLanes

LEMMA RootKinds ==
  ASSUME TypeInv, NestInv, [Next]_vars
  PROVE  \/ \E r \in Roots, eventLane \in LanesInUse, content \in Contents :
              Update(r, eventLane, content)
         \/ Commits \/ ProcessRootSchedule \/ Retry \/ Ping
         \/ \E r \in Roots, lanes \in LaneSets : SuspendsRoot(r, lanes)
         \/ RootsStay
<1>. USE DEF TypeInv, DataType
<1>1. UNCHANGED root => RootsStay
  BY DEF RootsStay
<1>2. environment \in Environment
  BY EnvironmentsAssumption DEF ProgramType
<1>3. CASE EventUpdate \/ LayoutUpdate
  BY <1>2, <1>3, LanesFacts DEF EventUpdate, LayoutUpdate, Environment, Contents
<1>4. CASE Render
  <2>1. CASE Unwind
    <3>1. wip.root \in Roots /\ wip.lanes \in LaneSets
      BY <2>1 DEF Unwind, FrameInv, StackType, Stack
    <3>2. UNCHANGED root \/ root' = [root EXCEPT ![wip.root] = Suspend(@, wip.lanes)]
      BY <2>1 DEF Unwind
    <3>3. CASE root' = [root EXCEPT ![wip.root] = Suspend(@, wip.lanes)]
      <4>1. SuspendsRoot(wip.root, wip.lanes)
        BY <2>1, <3>1, <3>3 DEF SuspendsRoot, NestInv
      <4>. QED  BY <3>1, <4>1
    <3>. QED  BY <1>1, <3>2, <3>3
  <2>. QED
    BY <1>1, <1>4, <2>1 DEF Render, SkipUnit, RenderUnit, UnitThrows, UnitSuspends,
       Replay, WaitForData, YieldToMicrotasks, CompleteRender
<1>5. CASE Exit
  <2>1. pc = "exit"
    BY <1>5 DEF Exit, RenderTornTree, RetryAfterError, SuspendRecovery, DidNotComplete,
       SuspendIndefinitely, ThrottleRetries, SuspendCommit, CommitSync,
       CommitConcurrent, FinishesConcurrent, Exits
  <2>2. attempt.root \in Roots /\ attempt.lanes \in LaneSets
    BY <2>1 DEF FrameInv, FrameType, Frame
  <2>3. CASE DidNotComplete \/ FinishesTree
    <3>1. SuspendRoot
      BY <2>3 DEF DidNotComplete, FinishesTree, SuspendIndefinitely, ThrottleRetries,
         SuspendCommit
    <3>2. SuspendsRoot(attempt.root, attempt.lanes)
      BY <2>1, <2>3, <3>1 DEF SuspendsRoot, SuspendRoot, NestInv
    <3>. QED  BY <2>2, <3>2
  <2>4. CASE SuspendRecovery
    BY <2>2, <2>4 DEF SuspendRecovery, RootsStay, RootType, RootRecord
  <2>. QED
    BY <1>1, <1>5, <2>3, <2>4 DEF Exit, RenderTornTree, RetryAfterError, FinishesTree,
       Commits, CommitsOnExit
<1>6. CASE EndTask
  <2>1. task.root \in Roots
    BY <1>6 DEF EndTask, FrameType, FrameInv, TaskFrame
  <2>2. ScheduleTask(task.root, root[task.root]).root
          = MarkStarvedLanesAsExpired(root[task.root])
    BY <2>1, ScheduleTaskDecides DEF RootType
  <2>. DEFINE marked == MarkStarvedLanesAsExpired(root[task.root])
  <2>3. root' = [root EXCEPT ![task.root] = marked]
    BY <1>6, <2>2 DEF EndTask
  <2>4. /\ marked.pendingLanes = root[task.root].pendingLanes
        /\ marked.suspendedLanes = root[task.root].suspendedLanes
        /\ marked.pingedLanes = root[task.root].pingedLanes
    BY <2>1, MarkStarvedKeepsNextLanes DEF RootType
  <2>. HIDE DEF marked
  <2>5. RootsStay
    BY <2>1, <2>3, <2>4 DEF RootsStay, RootType
  <2>. QED  BY <2>5
<1>7. ASSUME NEW r \in Roots, TimeoutThenSuspendCommit(r)
      PROVE  \E lanes \in LaneSets : SuspendsRoot(r, lanes)
  <2>1. finished[r].lanes \in LaneSets
    BY DEF CommitType, Tree
  <2>2. SuspendsRoot(r, finished[r].lanes)
    BY <1>7 DEF TimeoutThenSuspendCommit, SuspendsRoot, NestInv
  <2>. QED  BY <2>1, <2>2
<1>8. ASSUME NEW r \in Roots, NEW lane \in LanesInUse, LaneExpires(r, lane)
      PROVE  RootsStay
  BY <1>8 DEF LaneExpires, RootsStay, RootType, RootRecord
<1>9. ASSUME NEW r \in Roots,
             \/ \E node \in tasks[r] : StartTask(r, node)
             \/ \E node \in tasks[r] : StartTaskWithoutLanes(r, node)
             \/ FlushRoot(r)
      PROVE  UNCHANGED root
  BY <1>9 DEF StartTask, StartTaskWithoutLanes, FlushRoot
<1>10. ASSUME \/ FlushSync \/ YieldToHost \/ FlushDone \/ Yield \/ CommitDone
              \/ CommitThrows \/ Continue \/ ThrottlePasses \/ UNCHANGED vars
              \/ (\E id \in Ids : Resolve(id))
       PROVE  UNCHANGED root
  BY <1>10 DEF FlushSync, YieldToHost, FlushDone, Yield, CommitDone, CommitThrows,
     Continue, ThrottlePasses, Resolve, vars
<1>. QED
  BY <1>1, <1>3, <1>4, <1>5, <1>6, <1>7, <1>8, <1>9, <1>10
  DEF Next, Run, Ids, Commits, CommitsOnExit

(* What ScheduleUpdateOnFiber makes of the root's lanes.                   *)
LEMMA NestedUpdate ==
  ASSUME NEW rec \in RootRecord(LanesInUse), Nested(rec), NEW lane \in LanesInUse
  PROVE  Nested(MarkRootUpdated(rec, lane))
BY DEF MarkRootUpdated, RootRecord, Nested

LEMMA NestedSuspend ==
  ASSUME NEW rec \in RootRecord(LanesInUse), Nested(rec), NEW lanes,
         lanes \subseteq rec.pendingLanes
  PROVE  Nested(MarkRootSuspended(rec, lanes)) /\ Nested(Suspend(rec, lanes))
<1>1. \A s : s \subseteq rec.pendingLanes => Nested(MarkRootSuspended(rec, s))
  BY DEF MarkRootSuspended, RootRecord, Nested
<1>. QED  BY <1>1 DEF Suspend

LEMMA NestedStep ==
  ASSUME TypeInv, NestInv, [Next]_vars, NEW q \in Roots
  PROVE  Nested(root'[q])
<1>. USE DEF TypeInv, DataType
<1>1. Nested(root[q]) /\ root[q] \in RootRecord(LanesInUse)
  BY DEF NestInv, RootType
<1>2. ASSUME NEW r \in Roots, NEW rec, root' = [root EXCEPT ![r] = rec],
             q = r => Nested(rec)
      PROVE  Nested(root'[q])
  BY <1>1, <1>2 DEF RootType
<1>3. ASSUME NEW r \in Roots, NEW eventLane \in LanesInUse, NEW content \in Contents,
             Update(r, eventLane, content)
      PROVE  Nested(root'[q])
  <2>1. PICK lane \in LanesInUse, new \in Nat :
          ScheduleUpdateOnFiber(r, lane, [id |-> new, lane |-> lane])
    BY <1>3, UpdateStep DEF Queues
  <2>. DEFINE updated == MarkRootUpdated(root[r], lane)
              rest == wip.lanes \ (wip.pinged \cup wip.interleaved \cup {lane})
  <2>2. \/ root' = [root EXCEPT ![r] = updated]
        \/ wip.root = r /\ root' = [root EXCEPT ![r] = MarkRootSuspended(updated, rest)]
    <3>1. wip.lanes \ (wip.pinged \cup [wip EXCEPT !.interleaved = @ \cup {lane}].interleaved)
            = rest
      BY DEF StackType, Stack
    <3>. HIDE DEF rest
    <3>. QED  BY <2>1, <3>1 DEF ScheduleUpdateOnFiber
  <2>3. root[r] \in RootRecord(LanesInUse) /\ Nested(root[r])
    BY DEF NestInv, RootType
  <2>4. updated \in RootRecord(LanesInUse) /\ Nested(updated)
    BY <2>3, MarkRootUpdatedType, NestedUpdate
  <2>5. wip.root = r => rest \subseteq updated.pendingLanes
    BY <2>3 DEF NestInv, MarkRootUpdated, RootRecord
  <2>. HIDE DEF updated, rest
  <2>. QED  BY <1>2, <2>2, <2>4, <2>5, NestedSuspend
<1>4. CASE Commits
  <2>1. PICK r \in Roots, tree \in Tree : CommitRoot(r, tree)
    BY <1>4, CommitsAre
  <2>2. Nested(MarkRootFinished(root[r], RemainingLanes(r, tree)))
    BY DEF MarkRootFinished, RootType, RootRecord, Nested
  <2>. QED  BY <1>2, <2>1, <2>2 DEF CommitRoot
<1>5. CASE ProcessRootSchedule
  <2>1. \A rec \in RootRecord(LanesInUse) :
          Nested(rec) => Nested(MarkStarvedLanesAsExpired(rec))
    BY MarkStarvedKeepsNextLanes DEF Nested
  <2>2. ASSUME NEW rec \in RootRecord(LanesInUse), MayUpgrade(q, rec), Processes(q, rec)
        PROVE  Nested(root'[q])
    <3>1. Nested(rec)
      BY <1>1, <2>2, UpgradeAddsSyncLane DEF MayUpgrade, Nested
    <3>. QED  BY <2>1, <2>2, <3>1, ScheduleTaskDecides DEF Processes
  <2>. QED  BY <1>1, <1>5, <2>2, ProcessKinds
<1>6. CASE Retry \/ Ping
  <2>1. Head(ready) \in Listener
    BY <1>6, HeadAndTail DEF Retry, Ping, Runs, ListenerType
  <2>. DEFINE r == Head(ready).root
  <2>2. r \in Roots /\ nextRetryLane \in LanesInUse
    BY <2>1, LanesFacts DEF Listener, ClaimType
  <2>3. root[r] \in RootRecord(LanesInUse) /\ Nested(root[r])
    BY <2>2 DEF NestInv, RootType
  <2>4. Nested(MarkRootPinged(root[r], Head(ready).lanes))
    BY <2>3 DEF MarkRootPinged, RootRecord, Nested
  <2>. QED  BY <1>2, <1>6, <2>2, <2>3, <2>4, NestedUpdate DEF Retry, Ping
<1>7. ASSUME NEW r \in Roots, NEW lanes, SuspendsRoot(r, lanes)
      PROVE  Nested(root'[q])
  <2>1. root[r] \in RootRecord(LanesInUse) /\ Nested(root[r])
    BY DEF NestInv, RootType
  <2>. QED  BY <1>2, <1>7, <2>1, NestedSuspend DEF SuspendsRoot
<1>8. CASE RootsStay
  BY <1>1, <1>8 DEF RootsStay, Nested
<1>. QED  BY <1>3, <1>4, <1>5, <1>6, <1>7, <1>8, RootKinds

(* The steps of a render, as far as the stack is concerned.                *)
LEMMA RenderKeepsRoot ==
  ASSUME TypeInv, Render \/ SuspendRecovery \/ Yield
  PROVE  /\ UNCHANGED <<finished, pendingCommit>>
         /\ attempt'.root = attempt.root /\ attempt'.lanes = attempt.lanes
         /\ \/ wip'.root = wip.root /\ wip'.lanes = wip.lanes
            \/ wip'.root = NoRoot
         /\ pc' = "exit" => pc \in {"render", "exit"}
<1>. USE DEF TypeInv, DataType, StackType, Stack
<1>1. CASE Render
  <2>1. UNCHANGED <<finished, pendingCommit, attempt>>
    BY <1>1 DEF Render, SkipUnit, RenderUnit, UnitThrows, UnitSuspends, Replay,
       WaitForData, YieldToMicrotasks, Unwind, CompleteRender, renderUnchanged,
       commitVars
  <2>2. pc = "render"
    BY <1>1 DEF Render, SkipUnit, RenderUnit, UnitThrows, UnitSuspends, Replay,
       WaitForData, YieldToMicrotasks, Unwind, CompleteRender, Rendering
  <2>3. CASE SkipUnit \/ RenderUnit \/ UnitThrows \/ UnitSuspends \/ Replay
             \/ WaitForData \/ YieldToMicrotasks \/ CompleteRender
    BY <2>1, <2>2, <2>3 DEF SkipUnit, RenderUnit, UnitThrows, UnitSuspends, Replay,
       WaitForData, YieldToMicrotasks, CompleteRender
  <2>4. CASE Unwind
    BY <2>1, <2>2, <2>4 DEF Unwind
  <2>. QED  BY <1>1, <2>3, <2>4 DEF Render
<1>2. CASE SuspendRecovery
  BY <1>2 DEF SuspendRecovery, commitVars, FrameType, Frame
<1>3. CASE Yield
  BY <1>3 DEF Yield, renderUnchanged, commitVars
<1>. QED  BY <1>1, <1>2, <1>3

LEMMA RenderedLanesArePending ==
  ASSUME TypeInv, NestInv, pc \in {"render", "exit"}
  PROVE  /\ attempt.root \in Roots
         /\ attempt.lanes \subseteq root[attempt.root].pendingLanes
         /\ pendingCommit[attempt.root] = "no"
BY DEF TypeInv, FrameInv, NestInv

LEMMA NestStep ==
  ASSUME TypeInv, NestInv, [Next]_vars
  PROVE  NestInv'
<1>. USE DEF TypeInv, DataType
<1>0. TypeInv'
  BY TypeStep
<1>1. \A q \in Roots : Nested(root'[q])
  BY NestedStep
<1>2. SUFFICES
        /\ \A q \in Roots : finished'[q].lanes \subseteq root'[q].pendingLanes
        /\ wip'.root \in Roots =>
             /\ wip'.lanes \subseteq root'[wip'.root].pendingLanes
             /\ pendingCommit'[wip'.root] = "no"
        /\ pc' = "exit" =>
             /\ attempt'.lanes \subseteq root'[attempt'.root].pendingLanes
             /\ pendingCommit'[attempt'.root] = "no"
  BY <1>1 DEF NestInv
<1>3. CASE Commits
  <2>1. PICK r \in Roots, tree \in Tree : CommitRoot(r, tree)
    BY <1>3, CommitsAre
  <2>2. pc' = "layout" /\ wip'.root # r
    BY <2>1, RootsAssumption, CommitKeepsStack
  <2>3. /\ finished' = [finished EXCEPT ![r] = NoTree]
        /\ \A q \in Roots : q # r => /\ root'[q] = root[q]
                                     /\ pendingCommit'[q] = pendingCommit[q]
    BY <2>1 DEF CommitRoot, RootType, CommitType
  <2>4. \A q \in Roots : finished'[q].lanes \subseteq root'[q].pendingLanes
    BY <2>3 DEF NestInv, CommitType, NoTree
  <2>5. wip'.root \in Roots => wip'.root = wip.root /\ wip'.lanes = wip.lanes
    BY <2>1, RootsAssumption, CommitKeepsStack
  <2>. QED  BY <2>2, <2>3, <2>4, <2>5 DEF NestInv
<1>. SUFFICES ASSUME LanesGrow PROVE NestInv'
  BY <1>2, <1>3, PendingGrows DEF NestInv
<1>4. CASE UNCHANGED vars
  BY <1>4 DEF vars, frameVars, commitVars, NestInv
<1>5. CASE Render \/ SuspendRecovery \/ Yield
  BY <1>1, <1>5, RootsAssumption, RenderKeepsRoot, RenderedLanesArePending
  DEF NestInv, LanesGrow
<1>. SUFFICES ASSUME pc # "render", pc' # "exit", OtherStackStep
              PROVE  /\ \A q \in Roots : finished'[q].lanes \subseteq root'[q].pendingLanes
                     /\ wip'.root \in Roots =>
                          /\ wip'.lanes \subseteq root'[wip'.root].pendingLanes
                          /\ pendingCommit'[wip'.root] = "no"
  BY <1>1, <1>4, <1>5, StackKinds DEF NestInv
<1>6. ASSUME NEW r \in Roots, NEW lanes \in LaneSets, MayStart(r, lanes),
             StackStarts(r, lanes)
      PROVE  /\ \A q \in Roots : finished'[q].lanes \subseteq root'[q].pendingLanes
             /\ wip'.lanes \subseteq root'[wip'.root].pendingLanes
             /\ pendingCommit'[wip'.root] = "no"
  <2>1. lanes \subseteq root'[r].pendingLanes
    BY <1>6, StartsAtPendingLanes DEF LanesGrow
  <2>. QED
    BY <1>6, <2>1 DEF StackStarts, NestInv, LanesGrow, CommitType, NoTree
<1>7. CASE StackStays /\ UNCHANGED <<finished, pendingCommit>>
  BY <1>7 DEF StackStays, NestInv, LanesGrow
<1>8. CASE FinishesTree
  <2>1. /\ wip' = wip /\ pc = "exit"
        /\ finished' = [finished EXCEPT ![attempt.root] = FinishedTree]
    BY <1>8 DEF FinishesTree, SuspendIndefinitely, ThrottleRetries, SuspendCommit,
       finishUnchanged, FinishesConcurrent, Exits
  <2>2. attempt.root \in Roots /\ wip'.root = NoRoot
    BY <2>1 DEF FrameInv
  <2>3. FinishedTree.lanes = attempt.lanes
    BY DEF FinishedTree
  <2>. QED
    BY <2>1, <2>2, <2>3, RootsAssumption DEF NestInv, LanesGrow, CommitType
<1>9. ASSUME NEW r \in Roots, TimeoutThenSuspendCommit(r)
      PROVE  /\ \A q \in Roots : finished'[q].lanes \subseteq root'[q].pendingLanes
             /\ wip'.root \in Roots =>
                  /\ wip'.lanes \subseteq root'[wip'.root].pendingLanes
                  /\ pendingCommit'[wip'.root] = "no"
  <2>1. /\ wip' = wip /\ finished' = finished /\ pendingCommit[r] = "throttled"
        /\ pendingCommit' = [pendingCommit EXCEPT ![r] = "host"]
    BY <1>9 DEF TimeoutThenSuspendCommit
  <2>. QED  BY <2>1 DEF NestInv, LanesGrow, CommitType
<1>. QED
  BY <1>2, <1>3, <1>6, <1>7, <1>8, <1>9 DEF OtherStackStep, Commits

-----------------------------------------------------------------------------
(* The updates that a stack or a finished tree has rendered, or will, are  *)
(* those of its root.  If the stack hides what is on the screen, its exit  *)
(* status says so; a delayed commit that does is not of a transition.  A   *)
(* synchronous attempt renders the sync lane.                              *)
WipIds == wip.rendered \cup wip.hidden \cup {i.id : i \in wip.todo \cup wip.done}

(* Updates whose visible content the tree replaces by a fallback.          *)
Hides(tree) == {id \in tree.hidden \ fallbacks : updates[id].content = "shell"}

OwnInv ==
  /\ \A id \in WipIds : /\ wip.root # NoRoot => RootOf(id) = wip.root
                        /\ pc = "exit" => RootOf(id) = attempt.root
  /\ \A r \in Roots : \A id \in finished[r].rendered \cup finished[r].hidden :
       RootOf(id) = r

ScreenInv ==
  /\ wip.root # NoRoot \/ pc = "exit" =>
       Hides(wip) = {} \/ wip.exit \in {"SuspendedWithDelay", "DidNotComplete"}
  /\ \A r \in Roots : pendingCommit[r] # "no" =>
       Hides(finished[r]) = {} \/ ~(finished[r].lanes \subseteq TransitionLanes)
  /\ pc \in {"render", "exit"} /\ attempt.sync => SyncLane \in attempt.lanes

-----------------------------------------------------------------------------
LEMMA UpdatesStay ==
  ASSUME TypeInv, [Next]_vars
  PROVE  /\ \A id \in Ids : updates'[id] = updates[id] /\ RootOf(id)' = RootOf(id)
         /\ Commits \/ UNCHANGED fallbacks
<1>1. ASSUME UNCHANGED updates
      PROVE  \A id \in Ids : updates'[id] = updates[id] /\ RootOf(id)' = RootOf(id)
  BY <1>1 DEF RootOf
<1>2. ASSUME NEW r \in Roots, NEW eventLane \in LanesInUse, NEW content \in Contents,
             Update(r, eventLane, content)
      PROVE  /\ \A id \in Ids : updates'[id] = updates[id] /\ RootOf(id)' = RootOf(id)
             /\ UNCHANGED fallbacks
  BY <1>2, UpdateStep DEF Queues, Update, RootOf
<1>3. CASE Commits
  BY <1>1, <1>3, CommitsAre DEF CommitRoot
<1>4. CASE Retry
  BY <1>1, <1>4 DEF Retry, listenerUnchanged, screenVars
<1>5. CASE QueuesStay
  BY <1>1, <1>5 DEF QueuesStay
<1>. QED  BY <1>2, <1>3, <1>4, <1>5, StepKinds DEF Commits

LEMMA TreeIds ==
  ASSUME TypeInv
  PROVE  /\ WipIds \subseteq Ids
         /\ \A r \in Roots : /\ finished[r].rendered \subseteq Ids
                             /\ finished[r].hidden \subseteq Ids
BY DEF TypeInv, DataType, StackType, Stack, CommitType, Tree, WipIds, QueuedItem

(* The tree that is committed is of the root.                              *)
LEMMA CommittedIds ==
  ASSUME TypeInv, OwnInv, Commits
  PROVE  \E r \in Roots, tree \in Tree :
           /\ CommitRoot(r, tree)
           /\ \A id \in tree.rendered \cup tree.hidden : RootOf(id) = r
<1>1. PICK r \in Roots, tree \in Tree :
        /\ CommitRoot(r, tree)
        /\ \/ pc = "exit" /\ r = attempt.root /\ tree = FinishedTree
           \/ pc = "idle" /\ tree = finished[r]
  BY CommitsAre
<1>2. \A id \in tree.rendered \cup tree.hidden : RootOf(id) = r
  BY <1>1 DEF OwnInv, FinishedTree, WipIds
<1>. QED  BY <1>1, <1>2

LEMMA SameTreeIds ==
  ASSUME SameTree(wip', wip)
  PROVE  WipIds' = WipIds
BY DEF SameTree, WipIds

LEMMA RenderKeepsIds ==
  ASSUME TypeInv, Render \/ SuspendRecovery \/ Yield
  PROVE  WipIds' \subseteq WipIds
<1>. USE DEF TypeInv, DataType, StackType, Stack
<1>1. ASSUME wip.todo # {} PROVE Unit \in WipIds
  BY <1>1, UnitIsToDo DEF WipIds
<1>2. CASE SkipUnit \/ RenderUnit \/ UnitThrows
  <2>1. wip.todo # {}
    BY <1>2 DEF SkipUnit, RenderUnit, UnitThrows, Rendering
  <2>2. /\ wip'.rendered \subseteq wip.rendered \cup {Unit}
        /\ wip'.hidden = wip.hidden
        /\ wip'.todo \cup wip'.done \subseteq wip.todo \cup wip.done
    <3>1. Included(Unit) \subseteq wip.todo /\ Rest(Unit) \subseteq wip.todo
      BY DEF Included, Rest
    <3>2. CASE SkipUnit
      BY <3>1, <3>2 DEF SkipUnit
    <3>3. CASE RenderUnit
      BY <3>1, <3>3 DEF RenderUnit
    <3>4. CASE UnitThrows
      BY <3>1, <3>4 DEF UnitThrows
    <3>. QED  BY <1>2, <3>2, <3>3, <3>4
  <2>. QED  BY <1>1, <2>1, <2>2 DEF WipIds
<1>3. CASE Unwind
  <2>1. wip.todo # {}
    BY <1>3 DEF Unwind, FrameInv
  <2>2. /\ wip'.rendered = wip.rendered /\ wip'.hidden \subseteq wip.hidden \cup {Unit}
        /\ wip'.todo \cup wip'.done \subseteq wip.todo \cup wip.done
    BY <1>3 DEF Unwind, Included, Rest
  <2>. QED  BY <1>1, <2>1, <2>2 DEF WipIds
<1>4. CASE \/ UnitSuspends \/ Replay \/ WaitForData \/ YieldToMicrotasks
           \/ CompleteRender \/ SuspendRecovery \/ Yield
  <2>1. /\ wip'.rendered = wip.rendered /\ wip'.hidden = wip.hidden
        /\ wip'.todo = wip.todo /\ wip'.done = wip.done
    BY <1>4 DEF UnitSuspends, Replay, WaitForData, YieldToMicrotasks, CompleteRender,
       SuspendRecovery, Yield
  <2>. QED  BY <2>1 DEF WipIds
<1>. QED  BY <1>2, <1>3, <1>4 DEF Render

LEMMA OwnStep ==
  ASSUME TypeInv, OwnInv, [Next]_vars
  PROVE  OwnInv'
<1>. USE DEF TypeInv, DataType
<1>1. \A id \in Ids : RootOf(id)' = RootOf(id)
  BY UpdatesStay
<1>2. ASSUME WipIds' \subseteq WipIds, wip'.root \in {wip.root, NoRoot}
      PROVE  \A id \in WipIds' : wip'.root # NoRoot => RootOf(id)' = wip'.root
  BY <1>1, <1>2, TreeIds DEF OwnInv
<1>3. ASSUME NEW r \in Roots, NEW tree, finished' = [finished EXCEPT ![r] = tree],
             \A id \in tree.rendered \cup tree.hidden : id \in Ids /\ RootOf(id) = r
      PROVE  \A q \in Roots : \A id \in finished'[q].rendered \cup finished'[q].hidden :
               RootOf(id)' = q
  <2>1. TAKE q \in Roots
  <2>2. finished'[q] = IF q = r THEN tree ELSE finished[q]
    BY <1>3 DEF CommitType
  <2>. QED  BY <1>1, <1>3, <2>2, TreeIds DEF OwnInv
<1>4. ASSUME NEW r \in Roots, finished' = [finished EXCEPT ![r] = NoTree]
      PROVE  \A q \in Roots : \A id \in finished'[q].rendered \cup finished'[q].hidden :
               RootOf(id)' = q
  <2>1. NoTree.rendered = {} /\ NoTree.hidden = {}
    BY DEF NoTree
  <2>. QED  BY <1>3, <1>4, <2>1
<1>5. ASSUME finished' = finished
      PROVE  \A q \in Roots : \A id \in finished'[q].rendered \cup finished'[q].hidden :
               RootOf(id)' = q
  BY <1>1, <1>5, TreeIds DEF OwnInv
<1>6. CASE UNCHANGED vars
  <2>1. UNCHANGED <<wip, finished, pc, attempt>>
    BY <1>6 DEF vars, commitVars, frameVars
  <2>2. WipIds' = WipIds
    BY <2>1 DEF WipIds
  <2>. QED  BY <1>1, <1>2, <1>5, <2>1, <2>2, TreeIds DEF OwnInv
<1>7. CASE Render \/ SuspendRecovery \/ Yield
  <2>1. WipIds' \subseteq WipIds
    BY <1>7, RenderKeepsIds
  <2>2. /\ finished' = finished /\ attempt'.root = attempt.root
        /\ wip'.root \in {wip.root, NoRoot}
        /\ pc' = "exit" => pc \in {"render", "exit"}
    BY <1>7, RenderKeepsRoot
  <2>3. pc = "render" => wip.root = attempt.root /\ wip.root # NoRoot
    BY RootsAssumption DEF FrameInv
  <2>4. \A id \in WipIds' : pc' = "exit" => RootOf(id)' = attempt'.root
    BY <1>1, <2>1, <2>2, <2>3, TreeIds DEF OwnInv
  <2>. QED  BY <1>2, <1>5, <2>1, <2>2, <2>4 DEF OwnInv
<1>. SUFFICES ASSUME pc' # "exit", OtherStackStep
              PROVE  OwnInv'
  BY <1>6, <1>7, StackKinds
<1>8. ASSUME NEW r \in Roots, NEW lanes \in LaneSets, StackStarts(r, lanes)
      PROVE  OwnInv'
  <2>1. PICK items \in SUBSET Queued : SameTree(wip', FreshStack(r, lanes, items))
    BY <1>8 DEF StackStarts
  <2>2. wip'.root = r
    BY <1>8 DEF StackStarts
  <2>3. \A id \in WipIds' : \E i \in items : id = i.id /\ RootOf(i.id) = r
    BY <2>1 DEF SameTree, FreshStack, WipIds
  <2>4. \A i \in items : i.id \in Ids
    BY DEF Queued, QueueType, QueuedItem
  <2>5. \A id \in WipIds' : RootOf(id)' = wip'.root
    BY <1>1, <2>2, <2>3, <2>4
  <2>6. finished' = [finished EXCEPT ![r] = NoTree]
    BY <1>8 DEF StackStarts
  <2>. QED  BY <1>4, <2>5, <2>6 DEF OwnInv
<1>9. CASE StackStays /\ UNCHANGED finished
  <2>1. WipIds' = WipIds /\ wip'.root = wip.root
    BY <1>9, SameTreeIds DEF StackStays
  <2>. QED  BY <1>2, <1>5, <1>9, <2>1 DEF OwnInv
<1>10. CASE FinishesTree
  <2>1. /\ wip' = wip /\ pc = "exit" /\ attempt.root \in Roots
        /\ finished' = [finished EXCEPT ![attempt.root] = FinishedTree]
    BY <1>10 DEF FinishesTree, SuspendIndefinitely, ThrottleRetries, SuspendCommit,
       finishUnchanged, FinishesConcurrent, Exits, FrameInv
  <2>2. WipIds' = WipIds
    BY <2>1 DEF WipIds
  <2>3. \A id \in FinishedTree.rendered \cup FinishedTree.hidden :
          id \in Ids /\ RootOf(id) = attempt.root
    BY <2>1, TreeIds DEF FinishedTree, OwnInv, WipIds
  <2>. QED  BY <1>2, <1>3, <2>1, <2>2, <2>3 DEF OwnInv
<1>11. CASE Commits
  <2>1. PICK r \in Roots, tree \in Tree : CommitRoot(r, tree)
    BY <1>11, CommitsAre
  <2>2. WipIds' = WipIds /\ wip'.root \in {wip.root, NoRoot}
    BY <2>1, CommitKeepsStack, SameTreeIds
  <2>3. finished' = [finished EXCEPT ![r] = NoTree]
    BY <2>1 DEF CommitRoot
  <2>. QED  BY <1>2, <1>4, <2>2, <2>3 DEF OwnInv
<1>12. ASSUME NEW r \in Roots, TimeoutThenSuspendCommit(r) PROVE OwnInv'
  <2>1. wip' = wip /\ finished' = finished
    BY <1>12 DEF TimeoutThenSuspendCommit
  <2>2. WipIds' = WipIds
    BY <2>1 DEF WipIds
  <2>. QED  BY <1>2, <1>5, <2>1, <2>2 DEF OwnInv
<1>. QED  BY <1>8, <1>9, <1>10, <1>11, <1>12 DEF OtherStackStep, Commits

-----------------------------------------------------------------------------
(* The steps, as far as the attempt is concerned.                          *)
LEMMA AttemptKinds ==
  ASSUME TypeInv, [Next]_vars
  PROVE  \/ pc' \notin {"render", "exit"}
         \/ /\ pc \in {"render", "exit"}
            /\ attempt'.sync = attempt.sync /\ attempt'.root = attempt.root
            /\ \/ attempt'.lanes = attempt.lanes
               \/ /\ pc = "exit" /\ ErrorRetryLanes # {}
                  /\ attempt'.lanes = ErrorRetryLanes
         \/ \E r \in Roots : FlushRoot(r)
         \/ \E r \in Roots : \E node \in tasks[r] : StartTask(r, node)
<1>. USE DEF TypeInv, DataType
<1>1. CASE Render \/ Yield
  BY <1>1 DEF Render, SkipUnit, RenderUnit, UnitThrows, UnitSuspends, Replay,
     WaitForData, YieldToMicrotasks, Unwind, CompleteRender, Rendering, renderUnchanged,
     Yield
<1>2. CASE RenderTornTree \/ RetryAfterError \/ SuspendRecovery
  BY <1>2 DEF RenderTornTree, RetryAfterError, SuspendRecovery, FrameType, Frame
<1>3. CASE DidNotComplete \/ FinishesTree \/ Commits
  BY <1>3 DEF DidNotComplete, FinishesTree, SuspendIndefinitely, ThrottleRetries,
     SuspendCommit, Commits, CommitsOnExit, CommitSync, CommitConcurrent, CommitDelayed,
     CommitRoot
<1>4. CASE \/ EventUpdate \/ LayoutUpdate \/ ProcessRootSchedule \/ FlushSync
           \/ YieldToHost \/ FlushDone
  BY <1>4 DEF EventUpdate, LayoutUpdate, Update, ProcessRootSchedule, FlushSync,
     YieldToHost, FlushDone, FlushSyncWork, frameVars
<1>5. CASE CommitDone \/ CommitThrows \/ EndTask
  BY <1>5 DEF CommitDone, CommitThrows, EndTask, FlushSyncWork
<1>6. CASE \/ Ping \/ Continue \/ Retry \/ ThrottlePasses
           \/ (\E id \in Ids : Resolve(id))
           \/ (\E r \in Roots : TimeoutThenSuspendCommit(r))
           \/ (\E r \in Roots : \E lane \in LanesInUse : LaneExpires(r, lane))
  BY <1>6 DEF Ping, Continue, Retry, ThrottlePasses, Resolve, TimeoutThenSuspendCommit,
     LaneExpires, Runs, Quiescent, listenerUnchanged, frameVars
<1>7. CASE \E r \in Roots : \E node \in tasks[r] : StartTaskWithoutLanes(r, node)
  BY <1>7 DEF StartTaskWithoutLanes
<1>8. CASE UNCHANGED vars
  BY <1>8 DEF vars, frameVars
<1>. QED
  BY <1>1, <1>2, <1>3, <1>4, <1>5, <1>6, <1>7, <1>8
  DEF Next, Run, Exit, Ids, FinishesTree, Commits, CommitsOnExit

(* A synchronous attempt includes the sync lane, also when it is repeated  *)
(* after an error.                                                         *)
LEMMA SyncAttemptStep ==
  ASSUME TypeInv, NestInv, ScreenInv, [Next]_vars,
         pc' \in {"render", "exit"}, attempt'.sync
  PROVE  SyncLane \in attempt'.lanes
<1>1. CASE \E r \in Roots : FlushRoot(r)
  BY <1>1 DEF FlushRoot, Attempt, NoAttempt
<1>2. CASE \E r \in Roots : \E node \in tasks[r] : StartTask(r, node)
  BY <1>2 DEF StartTask, Attempt, NoAttempt
<1>3. CASE pc = "exit" /\ attempt.sync /\ ErrorRetryLanes # {}
  <2>1. SyncLane \in root[attempt.root].pendingLanes
    BY <1>3, RenderedLanesArePending DEF ScreenInv
  <2>2. SyncLane # OffscreenLane
    BY DEF SyncLane, OffscreenLane
  <2>3. SyncLane \in ErrorRetryLanes
    BY <1>3, <2>1, <2>2 DEF ErrorRetryLanes, LanesToRetrySynchronouslyOnError
  <2>4. SyncLane \in attempt.lanes
    BY <1>3 DEF ScreenInv
  <2>. QED  BY <1>1, <1>2, <2>3, <2>4, AttemptKinds
<1>. QED  BY <1>1, <1>2, <1>3, AttemptKinds DEF ScreenInv

(* A tree that is finished and is not suspended for ever hides nothing     *)
(* behind transitions.                                                     *)
LEMMA FinishedTreeHides ==
  ASSUME TypeInv, ScreenInv, pc = "exit", wip.exit # "DidNotComplete",
         ~SuspendsIndefinitely
  PROVE  Hides(FinishedTree) = {} \/ ~(FinishedTree.lanes \subseteq TransitionLanes)
<1>1. Hides(FinishedTree) = Hides(wip) /\ FinishedTree.lanes = attempt.lanes
  BY DEF FinishedTree, Hides
<1>. QED  BY <1>1 DEF ScreenInv, SuspendsIndefinitely

LEMMA ScreenRenderStep ==
  ASSUME TypeInv, CompleteInv, ScreenInv, Render,
         \A id \in Ids : updates'[id] = updates[id], UNCHANGED fallbacks
  PROVE  Hides(wip)' = {} \/ wip'.exit \in {"SuspendedWithDelay", "DidNotComplete"}
<1>. USE DEF TypeInv, DataType, StackType, Stack
<1>1. wip.hidden \subseteq Ids
  OBVIOUS
<1>2. pc = "render" /\ wip.root # NoRoot
  <2>1. pc = "render"
    BY DEF Render, SkipUnit, RenderUnit, UnitThrows, UnitSuspends, Replay,
       WaitForData, YieldToMicrotasks, Unwind, CompleteRender, Rendering
  <2>. QED  BY <2>1, RootsAssumption DEF FrameInv
<1>3. Hides(wip) = {} \/ wip.exit \in {"SuspendedWithDelay", "DidNotComplete"}
  BY <1>2 DEF ScreenInv
<1>4. ASSUME wip'.hidden = wip.hidden,
             wip.exit \in {"SuspendedWithDelay", "DidNotComplete"} => wip'.exit = wip.exit
      PROVE  Hides(wip)' = {} \/ wip'.exit \in {"SuspendedWithDelay", "DidNotComplete"}
  BY <1>1, <1>3, <1>4 DEF Hides
<1>5. CASE SkipUnit \/ RenderUnit
  BY <1>4, <1>5 DEF SkipUnit, RenderUnit
<1>6. CASE UnitThrows
  <2>1. wip.exit # "DidNotComplete"
    BY <1>6 DEF UnitThrows, Rendering, CompleteInv
  <2>. QED  BY <1>4, <1>6, <2>1 DEF UnitThrows
<1>7. CASE UnitSuspends \/ Replay \/ WaitForData \/ YieldToMicrotasks
  BY <1>4, <1>7 DEF UnitSuspends, Replay, WaitForData, YieldToMicrotasks
<1>8. CASE CompleteRender
  BY <1>4, <1>8 DEF CompleteRender
<1>9. CASE Unwind
  <2>1. wip.todo # {} /\ wip.exit # "DidNotComplete"
    BY <1>9 DEF Unwind, FrameInv, CompleteInv
  <2>2. Unit \in Ids
    BY <2>1, UnitIsToDo
  <2>. DEFINE captured == updates[Unit].content # "root"
  <2>3. /\ wip'.exit = SuspendedExit(captured)
        /\ wip'.hidden = IF captured THEN wip.hidden \cup {Unit} ELSE wip.hidden
    BY <1>9 DEF Unwind
  <2>4. CASE ~captured
    BY <2>3, <2>4 DEF SuspendedExit
  <2>5. CASE captured /\ InShell(Unit)
    BY <2>3, <2>5 DEF SuspendedExit
  <2>6. CASE captured /\ ~InShell(Unit)
    <3>1. updates[Unit].content = "shell" => Unit \in fallbacks
      BY <2>6 DEF InShell
    <3>2. Hides(wip)' = Hides(wip)
      BY <1>1, <2>2, <2>3, <2>6, <3>1 DEF Hides
    <3>3. wip.exit = "SuspendedWithDelay" => wip'.exit = wip.exit
      BY <2>3, <2>6 DEF SuspendedExit
    <3>. QED  BY <1>3, <2>1, <3>2, <3>3
  <2>. QED  BY <2>4, <2>5, <2>6
<1>. QED  BY <1>5, <1>6, <1>7, <1>8, <1>9 DEF Render

LEMMA ScreenStep ==
  ASSUME TypeInv, NestInv, CompleteInv, OwnInv, ScreenInv, [Next]_vars
  PROVE  ScreenInv'
<1>. USE DEF TypeInv, DataType
<1>1. \A id \in Ids : updates'[id] = updates[id] /\ RootOf(id)' = RootOf(id)
  BY UpdatesStay
<1>. SUFFICES
       /\ wip'.root # NoRoot \/ pc' = "exit" =>
            Hides(wip)' = {} \/ wip'.exit \in {"SuspendedWithDelay", "DidNotComplete"}
       /\ \A q \in Roots : pendingCommit'[q] # "no" =>
            \/ Hides(finished[q])' = {}
            \/ ~(finished'[q].lanes \subseteq TransitionLanes)
  BY SyncAttemptStep DEF ScreenInv
<1>2. CASE Commits
  <2>1. PICK r \in Roots, tree \in Tree :
          /\ CommitRoot(r, tree)
          /\ \A id \in tree.rendered \cup tree.hidden : RootOf(id) = r
    BY <1>2, CommittedIds
  <2>2. fallbacks' = (fallbacks \ tree.rendered) \cup tree.hidden
    BY <2>1 DEF CommitRoot
  <2>3. ASSUME NEW t, NEW q, q # r, t.hidden \subseteq Ids,
               \A id \in t.hidden : RootOf(id) = q
        PROVE  {id \in t.hidden \ fallbacks' : updates'[id].content = "shell"}
                 \subseteq Hides(t)
    BY <1>1, <2>1, <2>2, <2>3 DEF Hides
  <2>4. /\ SameTree(wip', wip) /\ pc' = "layout"
        /\ wip'.root # NoRoot => wip'.root = wip.root /\ wip.root # r
    BY <2>1, CommitKeepsStack, RootsAssumption
  <2>5. wip'.root # NoRoot =>
          Hides(wip)' = {} \/ wip'.exit \in {"SuspendedWithDelay", "DidNotComplete"}
    <3>1. SUFFICES ASSUME wip'.root # NoRoot
                   PROVE  Hides(wip)' \subseteq Hides(wip)
      BY <2>4 DEF ScreenInv, SameTree
    <3>2. wip.hidden \subseteq Ids /\ \A id \in wip.hidden : RootOf(id) = wip.root
      BY <2>4, <3>1, TreeIds DEF OwnInv, WipIds
    <3>. QED  BY <2>3, <2>4, <3>1, <3>2 DEF SameTree, Hides
  <2>6. ASSUME NEW q \in Roots, pendingCommit'[q] # "no"
        PROVE  \/ Hides(finished[q])' = {}
               \/ ~(finished'[q].lanes \subseteq TransitionLanes)
    <3>1. q # r /\ finished'[q] = finished[q] /\ pendingCommit[q] # "no"
      BY <2>1, <2>6 DEF CommitRoot, CommitType
    <3>2. /\ finished[q].hidden \subseteq Ids
          /\ \A id \in finished[q].hidden : RootOf(id) = q
      BY TreeIds DEF OwnInv
    <3>3. Hides(finished[q])' \subseteq Hides(finished[q])
      BY <2>3, <3>1, <3>2 DEF Hides
    <3>. QED  BY <3>1, <3>3 DEF ScreenInv
  <2>. QED  BY <2>4, <2>5, <2>6
<1>3. SUFFICES ASSUME UNCHANGED fallbacks
      PROVE
       /\ wip'.root # NoRoot \/ pc' = "exit" =>
            Hides(wip)' = {} \/ wip'.exit \in {"SuspendedWithDelay", "DidNotComplete"}
       /\ \A q \in Roots : pendingCommit'[q] # "no" =>
            \/ Hides(finished[q])' = {}
            \/ ~(finished'[q].lanes \subseteq TransitionLanes)
  BY <1>2, UpdatesStay
<1>4. Hides(wip)' = {id \in wip'.hidden \ fallbacks : updates'[id].content = "shell"}
  BY <1>3 DEF Hides
<1>5. /\ \A q \in Roots : \A t : finished'[q] = t /\ t.hidden \subseteq Ids =>
           Hides(finished[q])' = Hides(t)
      /\ wip'.hidden \subseteq wip.hidden => Hides(wip)' \subseteq Hides(wip)
  BY <1>1, <1>3, TreeIds DEF Hides, WipIds
<1>6. ASSUME NEW r \in Roots \cup {NoRoot},
             \A q \in Roots : q # r =>
               /\ finished'[q] = finished[q]
               /\ pendingCommit'[q] # "no" => pendingCommit[q] # "no",
             r \in Roots /\ pendingCommit'[r] # "no" =>
               \/ Hides(finished[r])' = {}
               \/ ~(finished'[r].lanes \subseteq TransitionLanes)
      PROVE  \A q \in Roots : pendingCommit'[q] # "no" =>
               \/ Hides(finished[q])' = {}
               \/ ~(finished'[q].lanes \subseteq TransitionLanes)
  <2>1. TAKE q \in Roots
  <2>2. CASE q = r
    BY <1>6, <2>2
  <2>3. CASE q # r
    <3>1. Hides(finished[q])' = Hides(finished[q])
      BY <1>5, <1>6, <2>3, TreeIds
    <3>. QED  BY <1>6, <2>3, <3>1 DEF ScreenInv
  <2>. QED  BY <2>2, <2>3
<1>7. ASSUME UNCHANGED finished,
             \A q \in Roots : pendingCommit'[q] # "no" => pendingCommit[q] # "no"
      PROVE  \A q \in Roots : pendingCommit'[q] # "no" =>
               \/ Hides(finished[q])' = {}
               \/ ~(finished'[q].lanes \subseteq TransitionLanes)
  BY <1>6, <1>7, RootsAssumption
<1>8. CASE UNCHANGED vars
  <2>1. UNCHANGED <<wip, finished, pendingCommit, pc>>
    BY <1>8 DEF vars, commitVars, frameVars
  <2>. QED  BY <1>5, <1>7, <2>1 DEF ScreenInv
<1>9. CASE Render
  <2>1. UNCHANGED <<finished, pendingCommit>>
    BY <1>9, RenderKeepsRoot
  <2>. QED  BY <1>1, <1>3, <1>7, <1>9, <2>1, ScreenRenderStep
<1>10. CASE SuspendRecovery
  <2>1. UNCHANGED <<finished, pendingCommit>> /\ wip'.exit = "SuspendedWithDelay"
    BY <1>10 DEF SuspendRecovery, commitVars, StackType, Stack
  <2>. QED  BY <1>7, <2>1
<1>11. CASE Yield
  <2>1. UNCHANGED <<finished, pendingCommit, wip>> /\ pc' = "end"
    BY <1>11 DEF Yield, renderUnchanged, commitVars
  <2>. QED  BY <1>5, <1>7, <2>1 DEF ScreenInv
<1>12. SUFFICES ASSUME pc' # "exit", OtherStackStep
      PROVE
       /\ wip'.root # NoRoot =>
            Hides(wip)' = {} \/ wip'.exit \in {"SuspendedWithDelay", "DidNotComplete"}
       /\ \A q \in Roots : pendingCommit'[q] # "no" =>
            \/ Hides(finished[q])' = {}
            \/ ~(finished'[q].lanes \subseteq TransitionLanes)
  BY <1>8, <1>9, <1>10, <1>11, StackKinds
<1>13. ASSUME NEW r \in Roots, NEW lanes \in LaneSets, StackStarts(r, lanes)
       PROVE  /\ Hides(wip)' = {}
              /\ \A q \in Roots : pendingCommit'[q] # "no" =>
                   \/ Hides(finished[q])' = {}
                   \/ ~(finished'[q].lanes \subseteq TransitionLanes)
  <2>1. wip'.hidden = {}
    BY <1>13 DEF StackStarts, SameTree, FreshStack
  <2>2. /\ pendingCommit'[r] = "no"
        /\ \A q \in Roots : q # r => /\ finished'[q] = finished[q]
                                     /\ pendingCommit'[q] = pendingCommit[q]
    BY <1>13 DEF StackStarts, CommitType
  <2>. QED  BY <1>4, <1>6, <2>1, <2>2
<1>14. CASE StackStays /\ UNCHANGED <<finished, pendingCommit>>
  <2>1. wip'.hidden = wip.hidden /\ wip'.exit = wip.exit /\ wip'.root = wip.root
    BY <1>14 DEF StackStays, SameTree
  <2>. QED  BY <1>5, <1>7, <1>14, <2>1 DEF ScreenInv
<1>15. CASE FinishesTree
  <2>1. /\ wip' = wip /\ pc = "exit" /\ wip.exit # "DidNotComplete"
        /\ finished' = [finished EXCEPT ![attempt.root] = FinishedTree]
    BY <1>15 DEF FinishesTree, SuspendIndefinitely, ThrottleRetries, SuspendCommit,
       finishUnchanged, FinishesConcurrent, Exits
  <2>2. PICK r \in Roots : r = attempt.root /\ pendingCommit[r] = "no"
    BY <2>1, RenderedLanesArePending
  <2>3. /\ \A q \in Roots : q # r => pendingCommit'[q] = pendingCommit[q]
        /\ pendingCommit'[r] # "no" => ~SuspendsIndefinitely
    BY <1>15, <2>2 DEF FinishesTree, SuspendIndefinitely, ThrottleRetries, SuspendCommit,
       Throttles, CommitType
  <2>4. finished'[r] = FinishedTree /\ FinishedTree.hidden \subseteq Ids
    BY <2>1, <2>2, TreeIds DEF CommitType, FinishedTree, WipIds
  <2>5. Hides(finished[r])' = Hides(FinishedTree)
    BY <1>5, <2>2, <2>4
  <2>6. pendingCommit'[r] # "no" =>
          \/ Hides(finished[r])' = {}
          \/ ~(finished'[r].lanes \subseteq TransitionLanes)
    BY <2>1, <2>3, <2>4, <2>5, FinishedTreeHides
  <2>7. \A q \in Roots : q # r => finished'[q] = finished[q]
    BY <2>1, <2>2 DEF CommitType
  <2>8. wip'.root = NoRoot
    BY <2>1 DEF FrameInv
  <2>. QED  BY <1>6, <2>2, <2>3, <2>6, <2>7, <2>8
<1>16. ASSUME NEW r \in Roots, TimeoutThenSuspendCommit(r)
       PROVE  /\ wip'.root # NoRoot =>
                   \/ Hides(wip)' = {}
                   \/ wip'.exit \in {"SuspendedWithDelay", "DidNotComplete"}
              /\ \A q \in Roots : pendingCommit'[q] # "no" =>
                   \/ Hides(finished[q])' = {}
                   \/ ~(finished'[q].lanes \subseteq TransitionLanes)
  <2>1. wip' = wip /\ finished' = finished
    BY <1>16 DEF TimeoutThenSuspendCommit
  <2>2. \A q \in Roots : pendingCommit'[q] # "no" => pendingCommit[q] # "no"
    BY <1>16 DEF TimeoutThenSuspendCommit, CommitType
  <2>3. Hides(wip)' \subseteq Hides(wip)
    BY <1>5, <2>1
  <2>. QED  BY <1>7, <2>1, <2>2, <2>3 DEF ScreenInv
<1>. QED
  BY <1>2, <1>12, <1>13, <1>14, <1>15, <1>16 DEF OtherStackStep, Commits

-----------------------------------------------------------------------------
ScreenInvs == TypeInv /\ CompleteInv /\ NestInv /\ OwnInv /\ ScreenInv

LEMMA InitScreen ==
  ASSUME Init
  PROVE  ScreenInvs
<1>1. TypeInv
  BY InitTypes
<1>2. wip.rendered = {} /\ wip.hidden = {} /\ wip.todo = {} /\ wip.done = {}
  BY DEF Init
<1>3. /\ pc = "idle" /\ wip.root = NoRoot /\ wip.complete /\ wip.exit = "InProgress"
      /\ \A r \in Roots : /\ finished[r] = NoTree /\ pendingCommit[r] = "no"
                          /\ root[r] = InitialRoot
  BY DEF Init
<1>4. WipIds = {} /\ Hides(wip) = {}
  BY <1>2 DEF WipIds, Hides
<1>5. Nested(InitialRoot) /\ NoTree.lanes = {} /\ NoTree.rendered = {} /\ NoTree.hidden = {}
  BY DEF Nested, InitialRoot, NoTree
<1>6. NestInv
  BY <1>3, <1>5, RootsAssumption DEF NestInv
<1>7. OwnInv
  BY <1>3, <1>4, <1>5 DEF OwnInv
<1>8. CompleteInv /\ ScreenInv
  BY <1>2, <1>3 DEF CompleteInv, ScreenInv
<1>. QED  BY <1>1, <1>6, <1>7, <1>8 DEF ScreenInvs

LEMMA ScreenInvsStep ==
  ASSUME ScreenInvs, [Next]_vars
  PROVE  ScreenInvs'
BY TypeStep, CompleteStep, NestStep, OwnStep, ScreenStep DEF ScreenInvs

(* What is rendered for a root is of that root and at its pending lanes,   *)
(* and a stack that hides what is on the screen has an exit status that    *)
(* keeps a transition from committing.                                     *)
THEOREM WorkLoopScreen == Spec => []ScreenInvs
<1>1. Init => ScreenInvs
  BY InitScreen
<1>2. ScreenInvs /\ [Next]_vars => ScreenInvs'
  BY ScreenInvsStep
<1>. QED  BY <1>1, <1>2, PTL DEF Spec

(* What a step hides behind a fallback it does not hide for a transition.  *)
Keeps ==
  \A id \in fallbacks' \ fallbacks :
    updates[id].content = "shell" =>
      LET lanes == IF pc = "exit" THEN attempt.lanes ELSE finished[RootOf(id)].lanes
      IN  ~(lanes \subseteq TransitionLanes)

LEMMA CommitsKeep ==
  ASSUME ScreenInvs, [Next]_vars
  PROVE  Keeps
<1>. USE DEF ScreenInvs
<1>1. CASE UNCHANGED fallbacks
  BY <1>1 DEF Keeps
<1>2. CASE CommitsOnExit
  <2>1. /\ pc = "exit" /\ wip.exit # "DidNotComplete"
        /\ attempt.sync \/ ~SuspendsIndefinitely
    BY <1>2 DEF CommitsOnExit, CommitSync, CommitConcurrent, FinishesConcurrent, Exits
  <2>2. fallbacks' \ fallbacks \subseteq FinishedTree.hidden \ fallbacks
    BY <1>2, ExitCommits DEF CommitRoot
  <2>3. FinishedTree.lanes = attempt.lanes
    BY DEF FinishedTree
  <2>4. CASE attempt.sync
    <3>1. SyncLane \in attempt.lanes /\ SyncLane \notin TransitionLanes
      BY <2>1, <2>4 DEF ScreenInv, SyncLane, TransitionLanes
    <3>. QED  BY <2>1, <3>1 DEF Keeps
  <2>5. CASE ~SuspendsIndefinitely
    <3>1. Hides(FinishedTree) = {} \/ ~(attempt.lanes \subseteq TransitionLanes)
      BY <2>1, <2>3, <2>5, FinishedTreeHides
    <3>. QED  BY <2>1, <2>2, <3>1 DEF Keeps, Hides
  <2>. QED  BY <2>1, <2>4, <2>5
<1>3. ASSUME NEW r \in Roots, CommitDelayed(r) PROVE Keeps
  <2>1. /\ pc = "idle" /\ pendingCommit[r] # "no"
        /\ fallbacks' \ fallbacks \subseteq finished[r].hidden \ fallbacks
    BY <1>3 DEF CommitDelayed, Quiescent, CommitRoot
  <2>2. \A id \in finished[r].hidden : RootOf(id) = r
    BY DEF OwnInv
  <2>3. Hides(finished[r]) = {} \/ ~(finished[r].lanes \subseteq TransitionLanes)
    BY <2>1 DEF ScreenInv
  <2>. QED  BY <2>1, <2>2, <2>3 DEF Keeps, Hides
<1>. QED  BY <1>1, <1>2, <1>3, UpdatesStay DEF Commits

(* A transition does not hide what is on the screen behind a fallback,     *)
(* whether its tree is committed when it is rendered or later.             *)
THEOREM WorkLoopTransitionsKeepTheScreen == Spec => TransitionsKeepTheScreen
<1>1. ScreenInvs /\ [Next]_vars => [Keeps]_vars
  BY CommitsKeep
<1>. HIDE DEF Keeps
<1>2. Spec => [][Keeps]_vars
  BY <1>1, WorkLoopScreen, PTL DEF Spec
<1>. QED  BY <1>2 DEF TransitionsKeepTheScreen, Keeps

-----------------------------------------------------------------------------
(* The root scheduler.                                                     *)

(* Data will schedule the root again.                                      *)
Continues(r) == \E l : Listens(l) /\ l.root = r /\ l.kind = "continue"

(* performWorkUntilDeadline or the commit that is on the stack will        *)
(* schedule the root again.                                                *)
Exempt(r) ==
  \/ pc \in {"render", "exit", "layout"} /\ r = attempt.root
  \/ task # NoTask /\ r = task.root

InFlush ==
  pc = "flush" \/ (pc \in {"render", "exit", "layout"} /\ attempt.sync)

(* A root whose next lanes are synchronous, with nothing to wait for.      *)
Owes(r) ==
  /\ SyncLane \in Candidates(root[r])
  /\ ~Continues(r) /\ pendingCommit[r] # "host" /\ ~Exempt(r)

Due(r) ==
  /\ r \in schedule /\ mightHavePendingSyncWork
  /\ didScheduleMicrotask \/ isFlushingWork

(* The flag says that a flush is on the stack, or one was left by an       *)
(* exception, and then it says so for ever.  A stack that is suspended on  *)
(* data has a listener.  Synchronous work is due.                          *)
SyncInv ==
  /\ InFlush => isFlushingWork
  /\ wip.root # NoRoot /\ wip.reason = "Data" /\ pc # "render" => Continues(wip.root)
  /\ \/ isFlushingWork /\ ~InFlush
     \/ \A r \in Roots : Owes(r) => Due(r)

LEMMA SyncLaneNext ==
  ASSUME TypeInv, NestInv, NEW r \in Roots
  PROVE  SyncLane \in NextLanes(r) <=> SyncLane \in Candidates(root[r])
<1>1. root[r] \in RootRecord(LanesInUse)
  BY DEF TypeInv, DataType, RootType
<1>2. (IF wip.root = r THEN wip.lanes ELSE {}) \in SUBSET root[r].pendingLanes
  BY DEF NestInv
<1>. QED  BY <1>1, <1>2, LanesFacts, SyncLaneIsNext DEF NextLanes

LEMMA SyncWorkIsDue ==
  ASSUME TypeInv, NestInv, SyncInv
  PROVE  SyncWorkIsFlushedUnlessThrown
<1>1. SUFFICES ASSUME pc = "idle", ~isFlushingWork, NEW r \in Roots,
                      SyncLane \in NextLanes(r), ~Waits(r)
               PROVE  ~Quiescent /\ r \in schedule /\ mightHavePendingSyncWork
  BY DEF SyncWorkIsFlushedUnlessThrown, SyncWorkWillBeFlushed
<1>2. ~Continues(r) /\ pendingCommit[r] # "host"
  <2>1. \A l : Listens(l) =>
          l \in (UNION {Range(listeners[id]) : id \in UpdateIds}) \cup Range(ready)
    BY DEF Listens
  <2>. QED  BY <1>1, <2>1 DEF Waits, Continues
<1>3. ~Exempt(r)
  BY <1>1 DEF Exempt, TypeInv, FrameInv
<1>4. Owes(r)
  BY <1>1, <1>2, <1>3, SyncLaneNext DEF Owes
<1>. QED  BY <1>1, <1>4 DEF SyncInv, Due, Quiescent

-----------------------------------------------------------------------------
LEMMA ContinuesStay ==
  ASSUME TypeInv, [Next]_vars, NEW r, Continues(r)
  PROVE  Continues(r)' \/ (Continue /\ Head(ready).root = r)
<1>1. PICK l : Listens(l) /\ l.root = r /\ l.kind = "continue"
  BY DEF Continues
<1>2. Listens(l)' => Continues(r)'
  BY <1>1 DEF Continues
<1>3. CASE UNCHANGED <<listeners, ready>>
  BY <1>1, <1>2, <1>3 DEF Listens
<1>4. CASE \E m \in Listener : AddListener(m)
  BY <1>1, <1>2, <1>4, AddListenerAdds
<1>5. CASE Commits
  BY <1>1, <1>2, <1>5, CommitsAre, CommitListens
<1>6. CASE Ping \/ Continue \/ Retry
  <2>1. l = Head(ready) => Continue
    BY <1>1, <1>6 DEF Ping, Retry, Runs
  <2>. QED  BY <1>1, <1>2, <1>6, <2>1, TakeListener
<1>7. CASE \E id \in Ids : Resolve(id)
  BY <1>1, <1>2, <1>7, ResolveMoves
<1>. QED  BY <1>3, <1>4, <1>5, <1>6, <1>7, ListenerKinds DEF Commits

(* A stack that is left suspended on data listens.                         *)
LEMMA DataListens ==
  ASSUME TypeInv, SyncInv, [Next]_vars, NEW r, r # NoRoot,
         wip'.root = r, wip'.reason = "Data", pc' # "render"
  PROVE  Continues(r)'
<1>. USE DEF TypeInv, DataType
<1>1. ASSUME pc # "render", wip.root = r, wip.reason = "Data"
      PROVE  Continues(r)'
  <2>1. Continues(r)
    BY <1>1 DEF SyncInv
  <2>2. ~(Continue /\ Head(ready).root = r)
    BY <1>1 DEF Continue, SuspendedOnData, StackType, Stack
  <2>. QED  BY <2>1, <2>2, ContinuesStay
<1>2. CASE UNCHANGED vars
  BY <1>1, <1>2 DEF vars, frameVars
<1>3. CASE Render
  <2>1. WaitForData
    BY <1>3 DEF Render, SkipUnit, RenderUnit, UnitThrows, UnitSuspends, Replay,
       YieldToMicrotasks, Unwind, CompleteRender, Rendering, StackType, Stack
  <2>2. wip.root = r /\ r \in Roots /\ wip.todo # {}
    BY <2>1 DEF WaitForData, FrameInv
  <2>3. Unit \in Ids
    BY <2>2, UnitIsToDo
  <2>4. [kind |-> "continue", id |-> Unit, root |-> wip.root, lanes |-> {}] \in Listener
    BY <2>2, <2>3 DEF Listener, LaneSets
  <2>5. PICK l \in Listener : AddListener(l) /\ l.kind = "continue" /\ l.root = r
    BY <2>1, <2>2, <2>4 DEF WaitForData
  <2>6. Listens(l)'
    BY <2>5, AddListenerAdds
  <2>. QED  BY <2>5, <2>6 DEF Continues
<1>4. CASE SuspendRecovery \/ Yield
  BY <1>1, <1>4 DEF SuspendRecovery, Yield, Rendering, StackType, Stack
<1>5. CASE OtherStackStep /\ pc # "render"
  <2>1. ASSUME NEW q, NEW lanes, StackStarts(q, lanes) PROVE FALSE
    BY <2>1 DEF StackStarts
  <2>2. CASE StackStays
    BY <1>1, <1>5, <2>2 DEF StackStays
  <2>3. CASE FinishesTree
    BY <1>1, <1>5, <2>3 DEF FinishesTree, SuspendIndefinitely, ThrottleRetries,
       SuspendCommit, finishUnchanged
  <2>4. CASE Commits
    BY <1>1, <1>5, <2>4, CommitsAre, CommitKeepsStack
  <2>5. CASE \E q \in Roots : TimeoutThenSuspendCommit(q)
    BY <1>1, <1>5, <2>5 DEF TimeoutThenSuspendCommit
  <2>. QED  BY <1>5, <2>1, <2>2, <2>3, <2>4, <2>5 DEF OtherStackStep, Commits
<1>. QED  BY <1>2, <1>3, <1>4, <1>5, StackKinds

-----------------------------------------------------------------------------
(* The steps, as far as flushes are concerned: who begins one sets the     *)
(* flag, and only its end clears it.                                       *)
LEMMA FlushKinds ==
  ASSUME TypeInv, [Next]_vars
  PROVE  /\ \/ isFlushingWork' = isFlushingWork
            \/ isFlushingWork'
            \/ FlushDone /\ pc = "flush" /\ ~InFlush'
         /\ InFlush' => InFlush \/ (~isFlushingWork /\ isFlushingWork')
<1>. USE DEF TypeInv, DataType
<1>. DEFINE same == isFlushingWork' = isFlushingWork
<1>1. CASE Render \/ Yield
  BY <1>1 DEF Render, SkipUnit, RenderUnit, UnitThrows, UnitSuspends, Replay,
     WaitForData, YieldToMicrotasks, Unwind, CompleteRender, Rendering, renderUnchanged,
     Yield, InFlush
<1>2. CASE RenderTornTree \/ RetryAfterError \/ SuspendRecovery
  <2>1. pc = "exit" /\ pc' \in {"render", "exit"} /\ attempt'.sync = attempt.sync /\ same
    BY <1>2 DEF RenderTornTree, RetryAfterError, SuspendRecovery, RenderRoot,
       FrameType, Frame
  <2>. QED  BY <2>1 DEF InFlush
<1>3. CASE DidNotComplete
  BY <1>3 DEF DidNotComplete, Exits, InFlush
<1>4. CASE FinishesTree
  BY <1>4 DEF FinishesTree, SuspendIndefinitely, ThrottleRetries, SuspendCommit,
     finishUnchanged, InFlush
<1>5. CASE CommitsOnExit
  <2>1. pc = "exit" /\ pc' = "layout" /\ attempt'.sync = attempt.sync /\ same
    BY <1>5 DEF CommitsOnExit, CommitSync, CommitConcurrent, FinishesConcurrent, Exits,
       CommitRoot, FrameType, Frame
  <2>. QED  BY <2>1 DEF InFlush
<1>6. ASSUME NEW r \in Roots, CommitDelayed(r)
      PROVE  pc' = "layout" /\ ~attempt'.sync /\ same
  BY <1>6 DEF CommitDelayed, CommitRoot, NoAttempt
<1>7. CASE CommitDone
  BY <1>7 DEF CommitDone, FlushSyncWork, InFlush
<1>8. CASE ProcessRootSchedule \/ FlushSync
  BY <1>8 DEF ProcessRootSchedule, FlushSync, FlushSyncWork, InFlush
<1>9. CASE FlushDone
  BY <1>9 DEF FlushDone, InFlush
<1>10. CASE YieldToHost \/ CommitThrows \/ EndTask
  BY <1>10 DEF YieldToHost, CommitThrows, EndTask, InFlush
<1>11. ASSUME NEW r \in Roots, FlushRoot(r) PROVE InFlush /\ same
  BY <1>11 DEF FlushRoot, InFlush
<1>12. ASSUME NEW r \in Roots, NEW node,
              StartTask(r, node) \/ StartTaskWithoutLanes(r, node)
       PROVE  ~InFlush' /\ same
  BY <1>12 DEF StartTask, StartTaskWithoutLanes, RenderRoot, Attempt, NoAttempt, InFlush
<1>13. CASE \/ EventUpdate \/ LayoutUpdate \/ Ping \/ Continue \/ Retry
            \/ ThrottlePasses \/ (\E id \in Ids : Resolve(id)) \/ UNCHANGED vars
            \/ (\E r \in Roots : TimeoutThenSuspendCommit(r))
            \/ (\E r \in Roots : \E lane \in LanesInUse : LaneExpires(r, lane))
  <2>1. UNCHANGED <<pc, attempt, isFlushingWork>>
    BY <1>13 DEF EventUpdate, LayoutUpdate, Update, Ping, Continue, Retry,
       ThrottlePasses, Resolve, TimeoutThenSuspendCommit, LaneExpires,
       listenerUnchanged, frameVars, vars
  <2>. QED  BY <2>1 DEF InFlush
<1>14. /\ Commits => CommitsOnExit \/ \E r \in Roots : CommitDelayed(r)
       /\ \A r \in Roots : CommitDelayed(r) => same /\ ~InFlush'
  BY <1>6 DEF Commits, InFlush
<1>. QED
  BY <1>1, <1>2, <1>3, <1>4, <1>5, <1>7, <1>8, <1>9, <1>10, <1>11, <1>12, <1>13,
     <1>14 DEF Next, Run, Exit, Ids, FinishesTree, CommitsOnExit

(* What makes synchronous work due stays, but for the microtask that       *)
(* processes the schedule.                                                 *)
FlagsStay ==
  /\ schedule \subseteq schedule'
  /\ mightHavePendingSyncWork => mightHavePendingSyncWork'
  /\ didScheduleMicrotask => didScheduleMicrotask'

LEMMA FlagKinds ==
  ASSUME TypeInv, [Next]_vars
  PROVE  FlagsStay \/ ProcessRootSchedule
<1>. USE DEF TypeInv, DataType
<1>1. UNCHANGED flagVars => FlagsStay
  BY DEF flagVars, FlagsStay
<1>2. \A r : EnsureRootIsScheduled(r) => FlagsStay
  BY DEF EnsureRootIsScheduled, FlagsStay
<1>3. CASE EventUpdate \/ LayoutUpdate
  BY <1>2, <1>3 DEF EventUpdate, LayoutUpdate, Update, ScheduleUpdateOnFiber
<1>4. CASE Render \/ Yield
  BY <1>1, <1>4 DEF Render, SkipUnit, RenderUnit, UnitThrows, UnitSuspends, Replay,
     WaitForData, YieldToMicrotasks, Unwind, CompleteRender, renderUnchanged, Yield
<1>5. CASE Exit
  BY <1>1, <1>2, <1>5 DEF Exit, RenderTornTree, RetryAfterError, SuspendRecovery,
     DidNotComplete, SuspendIndefinitely, ThrottleRetries, SuspendCommit, CommitSync,
     CommitConcurrent, CommitRoot, finishUnchanged
<1>6. CASE \/ FlushSync \/ YieldToHost \/ FlushDone \/ CommitDone \/ CommitThrows
           \/ EndTask \/ Ping \/ Continue \/ Retry \/ ThrottlePasses
           \/ UNCHANGED vars \/ (\E id \in Ids : Resolve(id))
  BY <1>1, <1>2, <1>6 DEF FlushSync, YieldToHost, FlushDone, CommitDone, CommitThrows,
     EndTask, Ping, Continue, Retry, ThrottlePasses, vars, Resolve
<1>7. ASSUME NEW r \in Roots,
             \/ \E node \in tasks[r] : StartTask(r, node) \/ StartTaskWithoutLanes(r, node)
             \/ FlushRoot(r) \/ CommitDelayed(r) \/ TimeoutThenSuspendCommit(r)
             \/ \E lane \in LanesInUse : LaneExpires(r, lane)
      PROVE  FlagsStay
  BY <1>1, <1>7 DEF StartTask, StartTaskWithoutLanes, FlushRoot, CommitDelayed,
     CommitRoot, TimeoutThenSuspendCommit, LaneExpires
<1>. QED  BY <1>3, <1>4, <1>5, <1>6, <1>7 DEF Next, Run, Ids

-----------------------------------------------------------------------------
(* The steps, as far as one root's synchronous work is concerned.          *)
Spares(q) ==
  /\ root'[q].pendingLanes = root[q].pendingLanes
  /\ root'[q].suspendedLanes = root[q].suspendedLanes
  /\ root'[q].pingedLanes = root[q].pingedLanes
  /\ pendingCommit'[q] = pendingCommit[q]
  /\ Exempt(q) => Exempt(q)'

(* Only this root's lanes and commit are touched.                          *)
Touches(r) ==
  \A p \in Roots : p # r => /\ root'[p] = root[p]
                            /\ pendingCommit'[p] = pendingCommit[p]

LEMMA OweKinds ==
  ASSUME TypeInv, [Next]_vars, NEW q \in Roots
  PROVE  \/ Spares(q)
         \/ Exempt(q)'
         \/ EnsureRootIsScheduled(q)
         \/ ProcessRootSchedule
         \/ CommitThrows /\ attempt.sync
         \/ TimeoutThenSuspendCommit(q)
<1>. USE DEF TypeInv, DataType
<1>1. UNCHANGED <<root, pendingCommit, pc, attempt, task>> => Spares(q)
  BY DEF Spares, Exempt
<1>2. ASSUME NEW r \in Roots, Touches(r), q # r /\ Exempt(q) => Exempt(q)'
      PROVE  Spares(q) \/ q = r
  BY <1>2 DEF Touches, Spares
<1>3. environment \in Environment
  BY EnvironmentsAssumption DEF ProgramType
<1>4. ASSUME EventUpdate \/ LayoutUpdate PROVE Spares(q) \/ EnsureRootIsScheduled(q)
  <2>1. PICK r \in Roots, eventLane \in LanesInUse, content \in Contents :
          Update(r, eventLane, content)
    BY <1>3, <1>4, LanesFacts DEF EventUpdate, LayoutUpdate, Environment, Contents
  <2>2. PICK lane \in LanesInUse, new \in Nat :
          ScheduleUpdateOnFiber(r, lane, [id |-> new, lane |-> lane])
    BY <2>1, UpdateStep DEF Queues
  <2>3. UNCHANGED frameVars
    BY <2>1 DEF Update
  <2>4. Touches(r)
    BY <2>2 DEF ScheduleUpdateOnFiber, Touches, RootType, CommitType
  <2>5. EnsureRootIsScheduled(r)
    BY <2>2 DEF ScheduleUpdateOnFiber
  <2>6. Exempt(q) => Exempt(q)'
    BY <2>3 DEF frameVars, Exempt
  <2>. QED  BY <1>2, <2>4, <2>5, <2>6
<1>5. ASSUME Ping \/ Continue \/ Retry PROVE Spares(q) \/ EnsureRootIsScheduled(q)
  <2>1. PICK r \in Roots : r = Head(ready).root
    BY <1>5, TakeListener DEF Listener
  <2>2. EnsureRootIsScheduled(r)
    BY <1>5, <2>1 DEF Ping, Continue, Retry
  <2>3. Touches(r)
    BY <1>5, <2>1 DEF Ping, Continue, Retry, PrepareFreshStack, commitVars, Touches,
       RootType, CommitType
  <2>4. Exempt(q) => Exempt(q)'
    BY <1>5 DEF Ping, Continue, Retry, listenerUnchanged, frameVars, Exempt
  <2>. QED  BY <1>2, <2>2, <2>3, <2>4
<1>6. ASSUME Render \/ Yield \/ SuspendRecovery \/ RenderTornTree \/ RetryAfterError
             \/ FinishesTree \/ CommitsOnExit \/ (DidNotComplete /\ ~attempt.sync)
      PROVE  Spares(q) \/ Exempt(q)'
  <2>1. pc \in {"render", "exit"} /\ attempt.root \in Roots
    BY <1>6 DEF Render, SkipUnit, RenderUnit, UnitThrows, UnitSuspends, Replay,
       WaitForData, YieldToMicrotasks, Unwind, CompleteRender, Rendering, Yield,
       SuspendRecovery, RenderTornTree, RetryAfterError, FinishesTree,
       SuspendIndefinitely, ThrottleRetries, SuspendCommit, FinishesConcurrent, Exits,
       CommitsOnExit, CommitSync, CommitConcurrent, DidNotComplete, FrameInv
  <2>2. PICK r \in Roots : r = attempt.root
    BY <2>1
  <2>3. task' = task
    BY <1>6 DEF Render, SkipUnit, RenderUnit, UnitThrows, UnitSuspends, Replay,
       WaitForData, YieldToMicrotasks, Unwind, CompleteRender, Yield, renderUnchanged,
       SuspendRecovery, RenderTornTree, RetryAfterError, FinishesTree,
       SuspendIndefinitely, ThrottleRetries, SuspendCommit, finishUnchanged,
       CommitsOnExit, CommitSync, CommitConcurrent, CommitRoot, DidNotComplete
  <2>4. Exempt(r)'
    <3>1. \/ pc' \in {"render", "exit", "layout"} /\ attempt'.root = attempt.root
          \/ pc' = "end" /\ ~attempt.sync
      BY <1>6 DEF Render, SkipUnit, RenderUnit, UnitThrows, UnitSuspends, Replay,
         WaitForData, YieldToMicrotasks, Unwind, CompleteRender, Rendering, Yield,
         renderUnchanged, SuspendRecovery, RenderTornTree, RetryAfterError, RenderRoot,
         FinishesTree, SuspendIndefinitely, ThrottleRetries, SuspendCommit,
         FinishesConcurrent, CommitsOnExit, CommitSync, CommitConcurrent, CommitRoot,
         DidNotComplete, FrameInv, FrameType, Frame
    <3>2. ~attempt.sync => task # NoTask /\ task.root = attempt.root
      BY <2>1 DEF FrameInv
    <3>. QED  BY <2>2, <2>3, <3>1, <3>2 DEF Exempt
  <2>5. Touches(r)
    <3>1. CASE Render \/ Yield \/ SuspendRecovery
      <4>1. pendingCommit' = pendingCommit
        BY <3>1 DEF Render, SkipUnit, RenderUnit, UnitThrows, UnitSuspends, Replay,
           WaitForData, YieldToMicrotasks, Unwind, CompleteRender, Yield,
           renderUnchanged, SuspendRecovery, commitVars
      <4>2. Unwind => wip.root = r
        BY <2>2 DEF Unwind, FrameInv
      <4>3. \/ root' = root
            \/ \E rec : root' = [root EXCEPT ![r] = rec]
        BY <2>2, <3>1, <4>2 DEF Render, SkipUnit, RenderUnit, UnitThrows, UnitSuspends,
           Replay, WaitForData, YieldToMicrotasks, Unwind, CompleteRender, Yield,
           renderUnchanged, SuspendRecovery
      <4>4. \A p \in Roots : p # r => root'[p] = root[p]
        BY <4>3 DEF RootType
      <4>. QED  BY <4>1, <4>4 DEF Touches
    <3>2. CASE RenderTornTree \/ RetryAfterError
      BY <2>2, <3>2 DEF RenderTornTree, RetryAfterError, RenderRoot, PrepareFreshStack,
         Touches, CommitType
    <3>3. CASE FinishesTree \/ DidNotComplete
      BY <2>2, <3>3 DEF FinishesTree, SuspendIndefinitely, ThrottleRetries,
         SuspendCommit, SuspendRoot, DidNotComplete, commitVars, Touches, RootType,
         CommitType
    <3>4. CASE CommitsOnExit
      BY <2>2, <3>4 DEF CommitsOnExit, CommitSync, CommitConcurrent, CommitRoot,
         Touches, RootType, CommitType
    <3>. QED  BY <1>6, <3>1, <3>2, <3>3, <3>4
  <2>6. q # r /\ Exempt(q) => Exempt(q)'
    BY <2>1, <2>2, <2>3 DEF Exempt
  <2>. QED  BY <1>2, <2>4, <2>5, <2>6
<1>7. ASSUME DidNotComplete, attempt.sync PROVE Spares(q) \/ EnsureRootIsScheduled(q)
  <2>1. PICK r \in Roots : r = attempt.root
    BY <1>7 DEF DidNotComplete, Exits, FrameInv
  <2>2. Touches(r)
    BY <1>7, <2>1 DEF DidNotComplete, SuspendRoot, commitVars, Touches, RootType
  <2>3. EnsureRootIsScheduled(r) /\ task' = task
    BY <1>7, <2>1 DEF DidNotComplete
  <2>4. q # r /\ Exempt(q) => Exempt(q)'
    BY <2>1, <2>3 DEF Exempt
  <2>. QED  BY <1>2, <2>1, <2>2, <2>3, <2>4
<1>8. ASSUME NEW r \in Roots, CommitDelayed(r) PROVE Spares(q) \/ Exempt(q)'
  <2>1. Touches(r)
    BY <1>8 DEF CommitDelayed, CommitRoot, Touches, RootType, CommitType
  <2>2. Exempt(r)'
    BY <1>8 DEF CommitDelayed, CommitRoot, NoAttempt, Exempt
  <2>3. ~Exempt(q)
    BY <1>8 DEF CommitDelayed, Quiescent, Exempt, FrameInv
  <2>. QED  BY <1>2, <2>1, <2>2, <2>3
<1>9. ASSUME NEW r \in Roots, TimeoutThenSuspendCommit(r)
      PROVE  Spares(q) \/ TimeoutThenSuspendCommit(q)
  <2>1. Touches(r)
    BY <1>9 DEF TimeoutThenSuspendCommit, Touches, RootType, CommitType
  <2>2. Exempt(q) => Exempt(q)'
    BY <1>9 DEF TimeoutThenSuspendCommit, frameVars, Exempt
  <2>. QED  BY <1>2, <1>9, <2>1, <2>2
<1>10. ASSUME NEW r \in Roots, NEW node, StartTask(r, node) \/ FlushRoot(r)
       PROVE  Spares(q) \/ Exempt(q)'
  <2>1. Touches(r)
    BY <1>10 DEF StartTask, FlushRoot, RenderRoot, PrepareFreshStack, Touches,
       CommitType
  <2>3. Exempt(r)'
    BY <1>10 DEF StartTask, FlushRoot, RenderRoot, Attempt, NoAttempt, Exempt
  <2>4. q # r /\ Exempt(q) => Exempt(q)'
    <3>1. CASE FlushRoot(r)
      BY <3>1 DEF FlushRoot, Exempt
    <3>2. CASE StartTask(r, node)
      BY <3>2 DEF StartTask, SchedulerRuns, Quiescent, Exempt, FrameInv
    <3>. QED  BY <1>10, <3>1, <3>2
  <2>. QED  BY <1>2, <2>1, <2>3, <2>4
<1>11. ASSUME NEW r \in Roots, NEW node, StartTaskWithoutLanes(r, node) PROVE Spares(q)
  BY <1>11 DEF StartTaskWithoutLanes, SchedulerRuns, Quiescent, commitVars, Spares,
     Exempt
<1>12. ASSUME FlushSync \/ YieldToHost \/ FlushDone
       PROVE  Spares(q)
  <2>1. UNCHANGED <<root, pendingCommit, task>> /\ pc \in {"idle", "scheduler", "flush"}
    BY <1>12 DEF FlushSync, YieldToHost, FlushDone, commitVars
  <2>. QED  BY <2>1 DEF Spares, Exempt
<1>13. ASSUME CommitDone PROVE Spares(q) \/ EnsureRootIsScheduled(q)
  <2>1. UNCHANGED <<root, pendingCommit, task>> /\ pc = "layout"
    BY <1>13 DEF CommitDone, commitVars
  <2>. QED  BY <1>13, <2>1 DEF CommitDone, Spares, Exempt
<1>14. ASSUME CommitThrows, ~attempt.sync PROVE Spares(q) \/ EnsureRootIsScheduled(q)
  <2>1. UNCHANGED <<root, pendingCommit>> /\ pc = "layout"
    BY <1>14 DEF CommitThrows, commitVars
  <2>. QED  BY <1>14, <2>1 DEF CommitThrows, Spares, Exempt, FrameInv
<1>15. ASSUME EndTask PROVE Spares(q) \/ EnsureRootIsScheduled(q)
  <2>1. PICK r \in Roots : r = task.root
    BY <1>15 DEF EndTask, FrameType, FrameInv, TaskFrame
  <2>2. EnsureRootIsScheduled(r)
    BY <1>15, <2>1 DEF EndTask
  <2>3. Touches(r)
    BY <1>15, <2>1 DEF EndTask, commitVars, Touches, RootType
  <2>4. q # r => ~Exempt(q)
    BY <1>15, <2>1 DEF EndTask, Exempt
  <2>. QED  BY <1>2, <2>2, <2>3, <2>4
<1>16. ASSUME NEW r \in Roots, NEW lane \in LanesInUse, LaneExpires(r, lane)
       PROVE  Spares(q)
  BY <1>16 DEF LaneExpires, RootType, RootRecord, Spares, commitVars, frameVars, Exempt
<1>17. ASSUME ThrottlePasses \/ UNCHANGED vars \/ (\E id \in Ids : Resolve(id))
       PROVE  Spares(q)
  BY <1>1, <1>17 DEF ThrottlePasses, Resolve, vars, commitVars, frameVars
<1>. QED
  BY <1>4, <1>5, <1>6, <1>7, <1>8, <1>9, <1>10, <1>11, <1>12, <1>13, <1>14, <1>15,
     <1>16, <1>17 DEF Next, Run, Exit, Ids, FinishesTree, CommitsOnExit

LEMMA TimeoutWaitsForHost ==
  ASSUME TypeInv, NEW q \in Roots, TimeoutThenSuspendCommit(q)
  PROVE  pendingCommit'[q] = "host"
BY DEF TypeInv, DataType, CommitType, TimeoutThenSuspendCommit

-----------------------------------------------------------------------------
(* The microtask flushes the roots whose next lanes are synchronous.       *)
LEMMA ProcessingFlushes ==
  ASSUME TypeInv, NestInv, SyncInv, ProcessRootSchedule, NEW q \in Roots, Owes(q)',
         Owes(q) => Due(q)
  PROVE  Due(q)'
<1>. USE DEF TypeInv, DataType
<1>1. /\ UNCHANGED <<wip, listeners, ready, pendingCommit, task>>
      /\ pc = "idle" /\ task = NoTask
  BY DEF ProcessRootSchedule, listenerVars, commitVars, FrameInv
<1>2. ~Continues(q) /\ pendingCommit[q] # "host" /\ ~Exempt(q)
  BY <1>1 DEF Owes, Continues, Listens, Exempt
<1>3. SyncLane \in Candidates(root'[q])
  BY DEF Owes
<1>4. CASE q \notin schedule /\ root'[q] = root[q]
  BY <1>2, <1>3, <1>4 DEF Owes, Due
<1>5. ASSUME NEW rec \in RootRecord(LanesInUse), MayUpgrade(q, rec), Processes(q, rec)
      PROVE  Due(q)'
  <2>. DEFINE w == IF wip.root = q THEN wip.lanes ELSE {}
  <2>1. root[q] \in RootRecord(LanesInUse) /\ w \subseteq root[q].pendingLanes
    BY DEF RootType, NestInv
  <2>2. w \in SUBSET rec.pendingLanes
    BY <1>5, <2>1, UpgradeAddsSyncLane DEF MayUpgrade
  <2>3. root'[q] = MarkStarvedLanesAsExpired(rec)
    BY <1>5, ScheduleTaskDecides DEF Processes
  <2>4. SyncLane \in Candidates(rec)
    BY <1>3, <2>3, MarkStarvedKeepsNextLanes
  <2>5. SyncLane \in GetNextLanes(rec, w)
    BY <2>2, <2>4, LanesFacts, SyncLaneIsNext
  <2>6. ~SuspendedOnData(q)
    BY <1>1, <1>2, RootsAssumption DEF SyncInv, SuspendedOnData
  <2>7. ScheduleTask(q, rec).priority = SyncLane
    BY <1>2, <2>5, <2>6, ScheduleTaskDecides
  <2>8. q \in schedule' /\ mightHavePendingSyncWork'
    BY <1>5, <2>7 DEF Processes, SyncLane, NoLane
  <2>9. isFlushingWork'
    BY <2>8 DEF ProcessRootSchedule, FlushSyncWork, FlagType
  <2>. QED  BY <2>8, <2>9 DEF Due
<1>. QED  BY <1>4, <1>5, ProcessKinds

LEMMA SyncStep ==
  ASSUME TypeInv, NestInv, SyncInv, [Next]_vars
  PROVE  SyncInv'
<1>. USE DEF TypeInv, DataType
<1>1. InFlush' => isFlushingWork'
  BY FlushKinds DEF SyncInv
<1>2. wip'.root # NoRoot /\ wip'.reason = "Data" /\ pc' # "render"
        => Continues(wip.root)'
  <2>1. SUFFICES ASSUME wip'.root # NoRoot, wip'.reason = "Data", pc' # "render"
                 PROVE  Continues(wip.root)'
    OBVIOUS
  <2>2. PICK r : r = wip'.root
    OBVIOUS
  <2>3. Continues(r)'
    BY <2>1, <2>2, DataListens
  <2>. QED  BY <2>2, <2>3 DEF Continues
<1>3. CASE isFlushingWork /\ ~InFlush
  <2>1. isFlushingWork' /\ ~InFlush'
    BY <1>3, FlushKinds DEF InFlush
  <2>. QED  BY <1>1, <1>2, <2>1 DEF SyncInv
<1>4. CASE CommitThrows /\ attempt.sync
  <2>1. isFlushingWork' /\ ~InFlush'
    BY <1>4 DEF CommitThrows, InFlush, SyncInv
  <2>. QED  BY <1>1, <1>2, <2>1 DEF SyncInv
<1>5. ASSUME \A r \in Roots : Owes(r) => Due(r), ~(CommitThrows /\ attempt.sync),
             NEW q \in Roots, Owes(q)'
      PROVE  Due(q)'
  <2>1. CASE EnsureRootIsScheduled(q)
    BY <2>1 DEF EnsureRootIsScheduled, Due
  <2>2. CASE ProcessRootSchedule
    BY <1>5, <2>2, ProcessingFlushes
  <2>3. CASE Spares(q) /\ ~EnsureRootIsScheduled(q) /\ ~ProcessRootSchedule
    <3>1. Candidates(root'[q]) = Candidates(root[q])
      BY <2>3 DEF Spares, Candidates
    <3>2. ~Continues(q)
      BY <1>5, <2>3, ContinuesStay DEF Owes, Continue
    <3>3. Owes(q)
      BY <1>5, <2>3, <3>1, <3>2 DEF Owes, Spares
    <3>4. Due(q) /\ FlagsStay
      BY <1>5, <2>3, <3>3, FlagKinds
    <3>5. isFlushingWork => isFlushingWork'
      <4>1. SyncLane \in NextLanes(q)
        BY <3>3, SyncLaneNext DEF Owes
      <4>2. ~FlushDone
        BY <3>4, <4>1 DEF FlushDone, Due
      <4>. QED  BY <4>2, FlushKinds
    <3>. QED  BY <3>4, <3>5 DEF Due, FlagsStay
  <2>. QED  BY <1>5, <2>1, <2>2, <2>3, OweKinds, TimeoutWaitsForHost DEF Owes
<1>. QED  BY <1>1, <1>2, <1>3, <1>4, <1>5 DEF SyncInv

(* When the stack is empty, a root with synchronous work is in the list,   *)
(* flushSync's fast path does not pass it over and a microtask or a flush  *)
(* that is under way will take it; unless it waits for data or for the     *)
(* host, and unless an exception left a flush.                             *)
THEOREM WorkLoopSyncWorkIsFlushed == Spec => []SyncWorkIsFlushedUnlessThrown
<1>1. Init => SyncInv
  BY DEF Init, SyncInv, InFlush, Owes, Candidates, InitialRoot, NoAttempt
<1>2. Init => TypeInv /\ NestInv
  BY InitTypes, InitScreen DEF ScreenInvs
<1>3. TypeInv /\ NestInv /\ SyncInv /\ [Next]_vars => (TypeInv /\ NestInv /\ SyncInv)'
  BY TypeStep, NestStep, SyncStep
<1>4. TypeInv /\ NestInv /\ SyncInv => SyncWorkIsFlushedUnlessThrown
  BY SyncWorkIsDue
<1>. QED  BY <1>1, <1>2, <1>3, <1>4, PTL DEF Spec

-----------------------------------------------------------------------------
(* The roots in the list will be processed before the macrotask ends.      *)
WillProcess ==
  didScheduleMicrotask \/ pc \in {"render", "exit", "layout"} \/ task # NoTask

(* Suspending these lanes as well leaves no other candidates than before.  *)
Spared(rec) ==
  \/ Unblocked(rec) = {} \/ rec.suspendedLanes = {} \/ SyncLane \in Unblocked(rec)

(* A root with a callback is in the list, and the callback is as urgent as *)
(* its work, unless it will be scheduled again.                            *)
UrgentInv ==
  \A r \in Roots : callbackNode[r] # 0 =>
    /\ r \in schedule /\ callbackPriority[r] \in LanesInUse
    /\ WillProcess \/ \A lane \in NextLanes(r) : callbackPriority[r] <= lane

(* A commit whose timer may suspend it again is one of retries.            *)
ThrottledInv ==
  \A r \in Roots : pendingCommit[r] = "throttled" =>
    /\ finished[r].lanes \subseteq RetryLanes /\ finished[r].lanes # {}
    /\ Spared(root[r])

CallbackInv == UrgentInv /\ ThrottledInv

LEMMA CallbackIsUrgent ==
  ASSUME TypeInv, CallbackInv
  PROVE  CallbackIsUrgentEnough
<1>1. Quiescent => ~WillProcess
  BY DEF Quiescent, WillProcess, TypeInv, FrameInv
<1>. QED  BY <1>1 DEF CallbackInv, UrgentInv, CallbackIsUrgentEnough

-----------------------------------------------------------------------------
LEMMA SparedSuspends ==
  ASSUME NEW rec \in RootRecord(LanesInUse), Nested(rec), Spared(rec),
         NEW lanes \in SUBSET RetryLanes
  PROVE  Candidates(MarkRootSuspended(rec, lanes)) = Candidates(rec) \ lanes
<1>. DEFINE after == MarkRootSuspended(rec, lanes)
<1>1. /\ after.pendingLanes = rec.pendingLanes
      /\ after.suspendedLanes = rec.suspendedLanes \cup lanes
      /\ after.pingedLanes = rec.pingedLanes \ lanes
  BY DEF MarkRootSuspended, RootRecord
<1>2. SyncLane \notin lanes
  BY DEF SyncLane, RetryLanes
<1>. SUFFICES Candidates(after) = Candidates(rec) \ lanes
  OBVIOUS
<1>. HIDE DEF after
<1>3. CASE Unblocked(rec) = {}
  BY <1>1, <1>3 DEF Unblocked, Candidates
<1>4. CASE rec.suspendedLanes = {}
  <2>1. rec.pingedLanes = {}
    BY <1>4 DEF Nested
  <2>. QED  BY <1>1, <1>4, <2>1 DEF Unblocked, Candidates
<1>5. CASE SyncLane \in Unblocked(rec)
  <2>1. SyncLane \in Unblocked(rec) \ lanes
    BY <1>2, <1>5
  <2>. QED  BY <1>1, <1>5, <2>1 DEF Unblocked, Candidates
<1>. QED  BY <1>3, <1>4, <1>5 DEF Spared

(* Idle updates, the upgrade of a transition and pings do not give the     *)
(* root other candidates to fall back to.                                  *)
LEMMA SparedStays ==
  ASSUME NEW rec \in RootRecord(LanesInUse), Spared(rec),
         rec.pendingLanes \cap NonIdleLanes # {}, NEW next,
         next.suspendedLanes = rec.suspendedLanes,
         next.pendingLanes \in {rec.pendingLanes, rec.pendingLanes \cup {IdleLane},
                                rec.pendingLanes \cup {SyncLane}}
  PROVE  Spared(next)
<1>1. IdleLane \notin NonIdleLanes /\ SyncLane \in NonIdleLanes
  BY DEF IdleLane, NonIdleLanes, SyncLane
<1>. QED  BY <1>1 DEF Spared, Unblocked

LEMMA SparedUpdated ==
  ASSUME NEW rec \in RootRecord(LanesInUse), Spared(rec),
         rec.pendingLanes \cap NonIdleLanes # {}, NEW lane \in LanesInUse
  PROVE  Spared(MarkRootUpdated(rec, lane))
<1>. DEFINE next == MarkRootUpdated(rec, lane)
<1>1. /\ next.pendingLanes = rec.pendingLanes \cup {lane}
      /\ next.suspendedLanes = IF lane = IdleLane THEN rec.suspendedLanes ELSE {}
  BY DEF MarkRootUpdated, RootRecord
<1>. HIDE DEF next
<1>2. CASE lane = IdleLane
  BY <1>1, <1>2, SparedStays DEF next
<1>3. CASE lane # IdleLane
  BY <1>1, <1>3 DEF Spared, next
<1>. QED  BY <1>2, <1>3

-----------------------------------------------------------------------------
(* A throttled commit is new, or its tree is the same as before.           *)
LEMMA ThrottledKinds ==
  ASSUME TypeInv, NestInv, [Next]_vars, NEW q \in Roots, pendingCommit'[q] = "throttled"
  PROVE  \/ ThrottleRetries /\ q = attempt.root
         \/ pendingCommit[q] = "throttled" /\ finished'[q] = finished[q]
<1>. USE DEF TypeInv, DataType
<1>1. CASE UNCHANGED <<finished, pendingCommit>>
  BY <1>1
<1>2. ASSUME NEW r \in Roots, NEW lanes, StackStarts(r, lanes)
      PROVE  pendingCommit[q] = "throttled" /\ finished'[q] = finished[q]
  BY <1>2 DEF StackStarts, CommitType
<1>3. CASE Commits
  <2>1. PICK r \in Roots, tree \in Tree : CommitRoot(r, tree)
    BY <1>3, CommitsAre
  <2>. QED  BY <2>1 DEF CommitRoot, CommitType
<1>4. CASE SuspendIndefinitely \/ SuspendCommit
  <2>1. pc = "exit" /\ finished' = [finished EXCEPT ![attempt.root] = FinishedTree]
    BY <1>4 DEF SuspendIndefinitely, SuspendCommit, FinishesConcurrent, Exits
  <2>2. attempt.root \in Roots /\ pendingCommit[attempt.root] = "no"
    BY <2>1, RenderedLanesArePending
  <2>. QED
    BY <1>4, <2>1, <2>2 DEF SuspendIndefinitely, SuspendCommit, CommitType
<1>5. CASE ThrottleRetries /\ q # attempt.root
  BY <1>5 DEF ThrottleRetries, CommitType
<1>6. ASSUME NEW r \in Roots, TimeoutThenSuspendCommit(r)
      PROVE  pendingCommit[q] = "throttled" /\ finished'[q] = finished[q]
  BY <1>6 DEF TimeoutThenSuspendCommit, CommitType
<1>7. Render \/ SuspendRecovery \/ Yield => UNCHANGED <<finished, pendingCommit>>
  BY RenderKeepsRoot
<1>8. UNCHANGED vars => UNCHANGED <<finished, pendingCommit>>
  BY DEF vars, commitVars
<1>. QED
  BY <1>1, <1>2, <1>3, <1>4, <1>5, <1>6, <1>7, <1>8, StackKinds
  DEF OtherStackStep, FinishesTree, Commits

LEMMA ThrottledStep ==
  ASSUME TypeInv, NestInv, ThrottledInv, [Next]_vars
  PROVE  ThrottledInv'
<1>. USE DEF TypeInv, DataType
<1>1. SUFFICES ASSUME NEW q \in Roots, pendingCommit'[q] = "throttled"
               PROVE  /\ finished'[q].lanes \subseteq RetryLanes
                      /\ finished'[q].lanes # {}
                      /\ Spared(root'[q])
  BY DEF ThrottledInv, Spared, Unblocked
<1>2. CASE ThrottleRetries /\ q = attempt.root
  <2>1. pc = "exit" /\ pendingCommit[attempt.root] = "no"
    BY <1>2, RenderedLanesArePending DEF ThrottleRetries, FinishesConcurrent, Exits
  <2>2. GetNextLanes(root'[q], {}) = {}
    BY <1>1, <1>2, <2>1 DEF ThrottleRetries
  <2>3. finished'[q].lanes = attempt.lanes
    BY <1>2 DEF ThrottleRetries, CommitType, FinishedTree
  <2>4. attempt.lanes \subseteq RetryLanes /\ attempt.lanes # {}
    BY <1>2, <2>1 DEF ThrottleRetries, Throttles, FrameInv
  <2>5. root'[q] \in RootRecord(LanesInUse)
    BY TypeStep DEF RootType
  <2>6. Candidates(root'[q]) = {}
    BY <2>2, <2>5, LanesFacts, CandidatesType, NextLanesAreUrgent
  <2>7. Unblocked(root'[q]) = {}
    BY <2>6 DEF Candidates, Unblocked
  <2>. QED  BY <2>3, <2>4, <2>7 DEF Spared
<1>3. CASE pendingCommit[q] = "throttled" /\ finished'[q] = finished[q]
           /\ ~(ThrottleRetries /\ q = attempt.root)
  <2>1. finished[q].lanes \subseteq RetryLanes /\ finished[q].lanes # {}
        /\ Spared(root[q])
    BY <1>3 DEF ThrottledInv
  <2>2. root[q] \in RootRecord(LanesInUse) /\ Nested(root[q])
        /\ root[q].pendingLanes \cap NonIdleLanes # {}
    BY <2>1 DEF RootType, NestInv, RetryLanes, NonIdleLanes
  <2>3. wip.root # q /\ (pc = "exit" => attempt.root # q)
    BY <1>3 DEF NestInv
  <2>. SUFFICES Spared(root'[q])
    BY <1>3, <2>1
  <2>4. ASSUME NEW r \in Roots, NEW eventLane \in LanesInUse, NEW content \in Contents,
               Update(r, eventLane, content)
        PROVE  Spared(root'[q])
    <3>1. PICK lane \in LanesInUse, new \in Nat :
            ScheduleUpdateOnFiber(r, lane, [id |-> new, lane |-> lane])
      BY <2>4, UpdateStep DEF Queues
    <3>2. root'[q] \in {root[q], MarkRootUpdated(root[q], lane)}
      BY <2>3, <3>1 DEF ScheduleUpdateOnFiber, RootType
    <3>. QED  BY <2>1, <2>2, <3>2, SparedUpdated
  <2>5. CASE Commits
    <3>1. PICK r \in Roots, tree \in Tree : CommitRoot(r, tree)
      BY <2>5, CommitsAre
    <3>2. q # r
      BY <1>1, <3>1 DEF CommitRoot, CommitType
    <3>. QED  BY <2>1, <3>1, <3>2 DEF CommitRoot, RootType
  <2>6. CASE ProcessRootSchedule
    <3>1. ASSUME NEW rec \in RootRecord(LanesInUse), MayUpgrade(q, rec),
                 Processes(q, rec)
          PROVE  Spared(root'[q])
      <4>1. /\ rec.pendingLanes \in {root[q].pendingLanes,
                                     root[q].pendingLanes \cup {SyncLane}}
            /\ rec.suspendedLanes = root[q].suspendedLanes
        BY <2>2, <3>1, UpgradeAddsSyncLane DEF MayUpgrade
      <4>2. root'[q] = MarkStarvedLanesAsExpired(rec)
        BY <3>1, ScheduleTaskDecides DEF Processes
      <4>3. /\ root'[q].pendingLanes = rec.pendingLanes
            /\ root'[q].suspendedLanes = rec.suspendedLanes
        BY <4>2, MarkStarvedKeepsNextLanes
      <4>. QED  BY <2>1, <2>2, <4>1, <4>3, SparedStays
    <3>. QED  BY <2>1, <2>6, <3>1, ProcessKinds
  <2>7. CASE Retry \/ Ping
    <3>1. PICK r \in Roots : r = Head(ready).root
      BY <2>7, TakeListener DEF Listener
    <3>2. root'[q] \in {root[q], MarkRootUpdated(root[q], nextRetryLane),
                        MarkRootPinged(root[q], Head(ready).lanes)}
      BY <2>7, <3>1 DEF Retry, Ping, RootType
    <3>3. nextRetryLane \in LanesInUse
      BY LanesFacts DEF ClaimType
    <3>4. Spared(MarkRootPinged(root[q], Head(ready).lanes))
      BY <2>1, <2>2 DEF MarkRootPinged, RootRecord, Spared, Unblocked
    <3>. QED  BY <2>1, <2>2, <3>2, <3>3, <3>4, SparedUpdated
  <2>8. ASSUME NEW r \in Roots, NEW lanes \in LaneSets, SuspendsRoot(r, lanes)
        PROVE  Spared(root'[q])
    <3>1. q # r
      BY <1>1, <2>3, <2>8 DEF SuspendsRoot, TimeoutThenSuspendCommit, CommitType
    <3>. QED  BY <2>1, <2>8, <3>1 DEF SuspendsRoot, RootType
  <2>9. CASE RootsStay
    BY <2>1, <2>9 DEF RootsStay, Spared, Unblocked
  <2>. QED  BY <2>4, <2>5, <2>6, <2>7, <2>8, <2>9, RootKinds
<1>. QED  BY <1>1, <1>2, <1>3, ThrottledKinds

-----------------------------------------------------------------------------
LEMMA WillProcessStays ==
  ASSUME TypeInv, [Next]_vars, WillProcess
  PROVE  WillProcess' \/ ProcessRootSchedule
<1>. USE DEF TypeInv, DataType
<1>1. SUFFICES ASSUME FlagsStay, ~didScheduleMicrotask' PROVE WillProcess'
  BY FlagKinds DEF WillProcess
<1>2. pc \in {"render", "exit", "layout"} \/ task # NoTask
  BY <1>1 DEF WillProcess, FlagsStay, FlagType
<1>3. \A r : ~EnsureRootIsScheduled(r)
  BY <1>1 DEF EnsureRootIsScheduled
<1>4. pc' = "end" => WillProcess'
  BY TypeStep DEF FrameInv, WillProcess
<1>5. CASE Render \/ Yield \/ Exit
  <2>1. pc' \in {"render", "exit", "layout", "end"}
    BY <1>3, <1>5 DEF Render, SkipUnit, RenderUnit, UnitThrows, UnitSuspends, Replay,
       WaitForData, YieldToMicrotasks, Unwind, CompleteRender, Rendering, Yield,
       Exit, RenderTornTree, RetryAfterError, RenderRoot, SuspendRecovery,
       DidNotComplete, SuspendIndefinitely, ThrottleRetries, SuspendCommit, CommitSync,
       CommitConcurrent, CommitRoot, FinishesConcurrent, Exits
  <2>. QED  BY <1>4, <2>1 DEF WillProcess
<1>6. CASE \E r \in Roots : \/ \E node \in tasks[r] : StartTask(r, node)
                           \/ FlushRoot(r) \/ CommitDelayed(r)
  <2>1. PICK r \in Roots : \/ \E node \in tasks[r] : StartTask(r, node)
                          \/ FlushRoot(r) \/ CommitDelayed(r)
    BY <1>6
  <2>2. FlushRoot(r) \/ CommitDelayed(r) => pc' \in {"render", "layout", "end"}
    BY DEF FlushRoot, RenderRoot, CommitDelayed, CommitRoot
  <2>3. ASSUME NEW node \in tasks[r]
        PROVE  StartTask(r, node) => pc' = "render"
    BY DEF StartTask, RenderRoot
  <2>. QED  BY <1>4, <2>1, <2>2, <2>3 DEF WillProcess
<1>7. CASE \/ \E r \in Roots : \/ \E node \in tasks[r] : StartTaskWithoutLanes(r, node)
                             \/ TimeoutThenSuspendCommit(r)
                             \/ \E lane \in LanesInUse : LaneExpires(r, lane)
           \/ FlushSync \/ YieldToHost \/ FlushDone \/ ThrottlePasses
           \/ (\E id \in Ids : Resolve(id)) \/ UNCHANGED vars
  <2>1. task' = task /\ (pc' = pc \/ pc \in {"idle", "scheduler", "flush"})
    BY <1>7 DEF StartTaskWithoutLanes, TimeoutThenSuspendCommit, LaneExpires,
       FlushSync, YieldToHost, FlushDone, ThrottlePasses, Resolve, Quiescent, SchedulerRuns, frameVars, vars
  <2>. QED  BY <1>2, <2>1 DEF WillProcess
<1>8. ~(EventUpdate \/ LayoutUpdate \/ CommitDone \/ CommitThrows)
  BY <1>3 DEF EventUpdate, LayoutUpdate, Update, ScheduleUpdateOnFiber, CommitDone,
     CommitThrows
<1>9. ~(EndTask \/ Ping \/ Continue \/ Retry)
  BY <1>3 DEF EndTask, Ping, Continue, Retry
<1>10. ~ProcessRootSchedule \/ WillProcess'
  BY <1>1, <1>2 DEF ProcessRootSchedule, FrameInv
<1>. QED  BY <1>5, <1>6, <1>7, <1>8, <1>9, <1>10 DEF Next, Run, Ids

(* The steps, as far as the callback of one root is concerned.             *)
LEMMA CallbackKinds ==
  ASSUME TypeInv, [Next]_vars, NEW q \in Roots
  PROVE  \/ ProcessRootSchedule \/ EndTask
         \/ callbackNode'[q] = 0 /\ callbackPriority'[q] = NoLane /\ Exempt(q)'
         \/ /\ callbackNode'[q] = callbackNode[q]
            /\ callbackPriority'[q] = callbackPriority[q]
<1>. USE DEF TypeInv, DataType
<1>1. CASE Commits
  <2>1. PICK r \in Roots, tree \in Tree : CommitRoot(r, tree) /\ r = attempt'.root
    <3>1. CommitsOnExit => pc = "exit" /\ attempt'.root = attempt.root
      BY DEF CommitsOnExit, CommitSync, CommitConcurrent, FinishesConcurrent, Exits,
         FrameType, Frame
    <3>2. \A r \in Roots : CommitDelayed(r) =>
            /\ CommitRoot(r, finished[r]) /\ finished[r] \in Tree /\ attempt'.root = r
      BY DEF CommitDelayed, NoAttempt, CommitType
    <3>. QED  BY <1>1, <3>1, <3>2, CommitsAre, ExitCommits DEF Commits
  <2>2. q = r => Exempt(q)'
    BY <2>1 DEF CommitRoot, Exempt
  <2>. QED  BY <2>1, <2>2 DEF CommitRoot, CallbackType
<1>2. CASE EventUpdate \/ LayoutUpdate
  BY <1>2 DEF EventUpdate, LayoutUpdate, Update, callbackVars
<1>3. CASE Render \/ Yield
  BY <1>3 DEF Render, SkipUnit, RenderUnit, UnitThrows, UnitSuspends, Replay,
     WaitForData, YieldToMicrotasks, Unwind, CompleteRender, renderUnchanged, Yield,
     callbackVars
<1>4. CASE Exit
  BY <1>1, <1>4 DEF Exit, RenderTornTree, RetryAfterError, SuspendRecovery,
     DidNotComplete, SuspendIndefinitely, ThrottleRetries, SuspendCommit,
     finishUnchanged, callbackVars, Commits, CommitsOnExit
<1>5. CASE \/ FlushSync \/ YieldToHost \/ FlushDone \/ CommitDone \/ CommitThrows
           \/ Ping \/ Continue \/ Retry \/ ThrottlePasses
           \/ UNCHANGED vars \/ (\E id \in Ids : Resolve(id))
  BY <1>5 DEF FlushSync, YieldToHost, FlushDone, CommitDone, CommitThrows, Ping,
     Continue, Retry, listenerUnchanged, ThrottlePasses, Resolve, vars, callbackVars
<1>6. ASSUME NEW r \in Roots,
             \/ \E node \in tasks[r] : StartTask(r, node) \/ StartTaskWithoutLanes(r, node)
             \/ FlushRoot(r) \/ TimeoutThenSuspendCommit(r)
             \/ \E lane \in LanesInUse : LaneExpires(r, lane)
      PROVE  UNCHANGED <<callbackNode, callbackPriority>>
  BY <1>6 DEF StartTask, StartTaskWithoutLanes, FlushRoot, TimeoutThenSuspendCommit,
     LaneExpires, callbackVars
<1>. QED
  BY <1>1, <1>2, <1>3, <1>4, <1>5, <1>6 DEF Next, Run, Ids, Commits

(* What happens while no root will be processed.                           *)
LEMMA RestKinds ==
  ASSUME TypeInv, NestInv, [Next]_vars, ~WillProcess, ~WillProcess'
  PROVE  /\ wip' = wip
         /\ RootsStay \/ \E r \in Roots : TimeoutThenSuspendCommit(r)
<1>. USE DEF TypeInv, DataType
<1>1. \A r : ~EnsureRootIsScheduled(r)
  BY DEF EnsureRootIsScheduled, WillProcess
<1>2. pc \notin {"render", "exit", "layout", "end"}
  BY DEF WillProcess, FrameInv
<1>3. pc' \notin {"render", "layout", "end"}
  BY TypeStep DEF WillProcess, FrameInv
<1>4. ~didScheduleMicrotask
  BY DEF WillProcess
<1>5. ~(EventUpdate \/ LayoutUpdate \/ CommitDone \/ CommitThrows \/ EndTask
        \/ Ping \/ Continue \/ Retry \/ ProcessRootSchedule)
  BY <1>1, <1>4 DEF EventUpdate, LayoutUpdate, Update, ScheduleUpdateOnFiber, CommitDone,
     CommitThrows, EndTask, Ping, Continue, Retry, ProcessRootSchedule
<1>6. ~(Render \/ Yield \/ Exit)
  BY <1>2 DEF Render, SkipUnit, RenderUnit, UnitThrows, UnitSuspends, Replay,
     WaitForData, YieldToMicrotasks, Unwind, CompleteRender, Rendering, Yield,
     Exit, RenderTornTree, RetryAfterError, RenderRoot, SuspendRecovery,
     DidNotComplete, SuspendIndefinitely, ThrottleRetries, SuspendCommit, CommitSync,
     CommitConcurrent, CommitRoot, FinishesConcurrent, Exits
<1>7. \A r \in Roots : /\ \A node \in tasks[r] : ~StartTask(r, node)
                       /\ ~FlushRoot(r) /\ ~CommitDelayed(r)
  BY <1>3 DEF StartTask, FlushRoot, RenderRoot, CommitDelayed, CommitRoot
<1>8. CASE FlushSync \/ YieldToHost \/ FlushDone \/ ThrottlePasses \/ UNCHANGED vars
           \/ (\E id \in Ids : Resolve(id))
           \/ (\E r \in Roots : \E node \in tasks[r] : StartTaskWithoutLanes(r, node))
  BY <1>8 DEF FlushSync, YieldToHost, FlushDone, ThrottlePasses, Resolve,
     StartTaskWithoutLanes, vars, RootsStay
<1>9. ASSUME NEW r \in Roots, NEW lane \in LanesInUse, LaneExpires(r, lane)
      PROVE  wip' = wip /\ RootsStay
  BY <1>9 DEF LaneExpires, RootsStay, RootType, RootRecord
<1>10. ASSUME NEW r \in Roots, TimeoutThenSuspendCommit(r) PROVE wip' = wip
  BY <1>10 DEF TimeoutThenSuspendCommit
<1>. QED
  BY <1>5, <1>6, <1>7, <1>8, <1>9, <1>10 DEF Next, Run, Ids

-----------------------------------------------------------------------------
(* A commit of retries that is suspended again leaves no more urgent work. *)
LEMMA TimeoutKeepsUrgency ==
  ASSUME TypeInv, NestInv, ThrottledInv, NEW q \in Roots, TimeoutThenSuspendCommit(q),
         NEW p \in Nat, \A lane \in NextLanes(q) : p <= lane
  PROVE  \A lane \in NextLanes(q)' : p <= lane
<1>. USE DEF TypeInv, DataType
<1>1. pendingCommit[q] = "throttled" /\ wip' = wip
  BY DEF TimeoutThenSuspendCommit
<1>2. wip.root # q
  BY <1>1 DEF NestInv
<1>. DEFINE lanes == finished[q].lanes \ (wip.pinged \cup wip.interleaved)
            before == Candidates(root[q])
<1>3. root'[q] = MarkRootSuspended(root[q], lanes)
  BY DEF TimeoutThenSuspendCommit, Suspend, RootType
<1>4. lanes \in SUBSET RetryLanes /\ Spared(root[q])
  BY <1>1 DEF ThrottledInv
<1>5. Candidates(root'[q]) = before \ lanes
  BY <1>3, <1>4, SparedSuspends DEF RootType, NestInv
<1>6. before \in SUBSET (SyncLane..IdleLane)
  BY LanesFacts, CandidatesType DEF RootType
<1>7. NextLanes(q) = IF before = {} THEN {} ELSE HighestPriorityLanes(before)
  BY <1>2 DEF NextLanes, GetNextLanes
<1>. HIDE DEF lanes, before
<1>8. NextLanes(q)' = IF before \ lanes = {} THEN {}
                      ELSE HighestPriorityLanes(before \ lanes)
  BY <1>1, <1>2, <1>5 DEF NextLanes, GetNextLanes
<1>9. before \ lanes # {} => \A l \in HighestPriorityLanes(before) : p <= l
  BY <1>7
<1>. QED
  BY <1>4, <1>6, <1>8, <1>9, HighestPriorityLanesWithoutRetries

LEMMA UrgentStep ==
  ASSUME TypeInv, NestInv, CallbackInv, [Next]_vars
  PROVE  UrgentInv'
<1>. USE DEF TypeInv, DataType
<1>1. SUFFICES ASSUME NEW q \in Roots, callbackNode'[q] # 0
               PROVE  /\ q \in schedule' /\ callbackPriority'[q] \in LanesInUse
                      /\ \/ WillProcess'
                         \/ \A lane \in NextLanes(q)' : callbackPriority'[q] <= lane
  BY DEF UrgentInv
<1>2. CASE ProcessRootSchedule
  <2>1. callbackNode[q] # 0 => q \in schedule
    BY DEF CallbackInv, UrgentInv
  <2>2. PICK rec \in RootRecord(LanesInUse) : MayUpgrade(q, rec) /\ Processes(q, rec)
    BY <1>1, <1>2, <2>1, ProcessKinds
  <2>. DEFINE w == IF wip.root = q THEN wip.lanes ELSE {}
              next == GetNextLanes(rec, w)
              p == ScheduleTask(q, rec).priority
  <2>3. /\ ScheduleTask(q, rec).root = MarkStarvedLanesAsExpired(rec)
        /\ ScheduleTask(q, rec).node # 0 =>
             p \in LanesInUse /\ \A lane \in next : p <= lane
    BY ScheduleTaskDecides
  <2>4. wip' = wip
    BY <1>2 DEF ProcessRootSchedule
  <2>5. NextLanes(q)' = next
    BY <2>2, <2>3, <2>4, MarkStarvedKeepsNextLanes DEF Processes, NextLanes
  <2>. HIDE DEF next, w
  <2>. QED  BY <1>1, <2>2, <2>3, <2>5, LanesFacts DEF Processes
<1>3. CASE EndTask
  <2>1. PICK r \in Roots : r = task.root
    BY <1>3 DEF EndTask, FrameType, FrameInv, TaskFrame
  <2>. DEFINE result == ScheduleTask(r, root[r])
  <2>2. result.node # 0 => result.priority \in LanesInUse
    BY ScheduleTaskDecides DEF RootType
  <2>. HIDE DEF result
  <2>3. /\ callbackNode' = [callbackNode EXCEPT ![r] = result.node]
        /\ callbackPriority' = [callbackPriority EXCEPT ![r] = result.priority]
        /\ EnsureRootIsScheduled(r)
    BY <1>3, <2>1 DEF EndTask, result
  <2>4. r \in schedule' /\ schedule \subseteq schedule' /\ WillProcess'
    BY <2>3 DEF EnsureRootIsScheduled, WillProcess
  <2>5. callbackNode[q] # 0 => q \in schedule /\ callbackPriority[q] \in LanesInUse
    BY DEF CallbackInv, UrgentInv
  <2>. QED  BY <1>1, <2>2, <2>3, <2>4, <2>5 DEF CallbackType
<1>4. CASE /\ callbackNode'[q] = callbackNode[q] /\ ~ProcessRootSchedule
           /\ callbackPriority'[q] = callbackPriority[q]
  <2>1. /\ q \in schedule /\ callbackPriority[q] \in LanesInUse
        /\ WillProcess \/ \A lane \in NextLanes(q) : callbackPriority[q] <= lane
    BY <1>1, <1>4 DEF CallbackInv, UrgentInv
  <2>2. q \in schedule' /\ callbackPriority'[q] \in LanesInUse
    BY <1>4, <2>1, FlagKinds DEF FlagsStay
  <2>3. SUFFICES ASSUME ~WillProcess'
                 PROVE  \A lane \in NextLanes(q)' : callbackPriority[q] <= lane
    BY <1>4, <2>2
  <2>4. ~WillProcess
    BY <1>4, <2>3, WillProcessStays
  <2>5. wip' = wip
    BY <2>3, <2>4, RestKinds
  <2>6. PICK p \in Nat : p = callbackPriority[q]
    BY <2>1, LanesFacts
  <2>7. \A lane \in NextLanes(q) : p <= lane
    BY <2>1, <2>4, <2>6
  <2>8. CASE TimeoutThenSuspendCommit(q)
    BY <2>6, <2>7, <2>8, TimeoutKeepsUrgency DEF CallbackInv
  <2>9. CASE /\ root'[q].pendingLanes = root[q].pendingLanes
             /\ root'[q].suspendedLanes = root[q].suspendedLanes
             /\ root'[q].pingedLanes = root[q].pingedLanes
    <3>1. Candidates(root'[q]) = Candidates(root[q])
      BY <2>9 DEF Candidates
    <3>2. NextLanes(q)' = NextLanes(q)
      BY <2>5, <2>9, <3>1 DEF NextLanes, GetNextLanes
    <3>. QED  BY <2>6, <2>7, <3>2
  <2>10. ASSUME NEW r \in Roots, TimeoutThenSuspendCommit(r), r # q
         PROVE  root'[q] = root[q]
    BY <2>10 DEF TimeoutThenSuspendCommit, RootType
  <2>. QED  BY <2>3, <2>4, <2>8, <2>9, <2>10, RestKinds DEF RootsStay
<1>. QED  BY <1>1, <1>2, <1>3, <1>4, CallbackKinds

(* When microtasks have run, a root's Scheduler task has a priority as     *)
(* high as the root's work, whatever has happened to the root since the    *)
(* task was scheduled: also when the timer of a commit of retries suspends *)
(* it again.                                                               *)
THEOREM WorkLoopCallbackIsUrgentEnough == Spec => []CallbackIsUrgentEnough
<1>1. Init => CallbackInv
  BY DEF Init, CallbackInv, UrgentInv, ThrottledInv
<1>2. Init => TypeInv /\ NestInv
  BY InitTypes, InitScreen DEF ScreenInvs
<1>3. TypeInv /\ NestInv /\ CallbackInv /\ [Next]_vars
        => (TypeInv /\ NestInv /\ CallbackInv)'
  BY TypeStep, NestStep, ThrottledStep, UrgentStep DEF CallbackInv
<1>4. TypeInv /\ NestInv /\ CallbackInv => CallbackIsUrgentEnough
  BY CallbackIsUrgent
<1>. QED  BY <1>1, <1>2, <1>3, <1>4, PTL DEF Spec

-----------------------------------------------------------------------------
WillBeProcessed(r) == r \in schedule /\ didScheduleMicrotask
OwnTask(r) == task # NoTask /\ task.root = r

(* A root's callback is a live task, or the one on the stack, which is     *)
(* then the root's own, or it dangles; and while a commit of its root, or  *)
(* any flush, is on the task's stack the root has no callback.             *)
NodeInv ==
  \A r \in Roots :
    /\ callbackNode[r] # 0 =>
         \/ callbackNode[r] \in tasks[r]
         \/ OwnTask(r) /\ callbackNode[r] = task.node
         \/ r \in dangling
    /\ callbackNode[r] = 0 => callbackPriority[r] \in {NoLane, SyncLane}

TaskInv ==
  task # NoTask =>
    /\ callbackNode[task.root] \in {0, task.original}
    /\ pc = "layout" \/ InFlush => callbackNode[task.root] = 0
    /\ InFlush => WillBeProcessed(task.root)

(* A root with work for a task, and nothing to wait for, has a callback or *)
(* will be scheduled.                                                      *)
Wanted(r) ==
  /\ Candidates(root[r]) # {} /\ SyncLane \notin Candidates(root[r])
  /\ ~Continues(r) /\ pendingCommit[r] # "host"

WorkInv ==
  \A r \in Roots :
    Wanted(r) => callbackNode[r] # 0 \/ Exempt(r) \/ WillBeProcessed(r)

OwnInvs == NodeInv /\ TaskInv /\ WorkInv

LEMMA WorkHasTask ==
  ASSUME TypeInv, NestInv, SyncInv, NodeInv, WorkInv
  PROVE  WorkIsScheduledUnlessDangling
<1>1. SUFFICES ASSUME Quiescent, ~isFlushingWork, NEW r \in Roots,
                      NextLanes(r) # {}, ~Waits(r)
               PROVE  callbackNode[r] \in tasks[r] \/ r \in dangling
  BY DEF WorkIsScheduledUnlessDangling
<1>2. pc = "idle" /\ task = NoTask /\ ~WillBeProcessed(r) /\ ~Exempt(r)
  BY <1>1 DEF Quiescent, WillBeProcessed, Exempt, TypeInv, FrameInv
<1>3. ~Continues(r) /\ pendingCommit[r] # "host"
  <2>1. \A l : Listens(l) =>
          l \in (UNION {Range(listeners[id]) : id \in UpdateIds}) \cup Range(ready)
    BY DEF Listens
  <2>. QED  BY <1>1, <2>1 DEF Waits, Continues
<1>4. Candidates(root[r]) # {}
  BY <1>1 DEF NextLanes, GetNextLanes
<1>5. SyncLane \notin Candidates(root[r])
  BY <1>1, <1>2, SyncLaneNext, SyncWorkIsDue
  DEF SyncWorkIsFlushedUnlessThrown, SyncWorkWillBeFlushed
<1>6. callbackNode[r] # 0
  BY <1>2, <1>3, <1>4, <1>5 DEF WorkInv, Wanted
<1>. QED  BY <1>2, <1>6 DEF NodeInv, OwnTask

-----------------------------------------------------------------------------
(* What a root that wants a task gets, in scheduleTaskForRootDuringMicro-  *)
(* task: the live task that it has, or another one; and its priority is    *)
(* not one that a root without a callback has.                             *)
LEMMA ScheduledTask ==
  ASSUME TypeInv, NodeInv, NEW r \in Roots, NEW rec \in RootRecord(LanesInUse)
  PROVE  LET result == ScheduleTask(r, rec)
             next == GetNextLanes(rec, IF wip.root = r THEN wip.lanes ELSE {})
         IN  /\ next # {} /\ SyncLane \notin next
                  /\ ~SuspendedOnData(r) /\ pendingCommit[r] # "host"
                => result.node # 0
             /\ result.node = 0 => result.priority \in {NoLane, SyncLane}
             /\ result.node # 0 =>
                  \/ result.node \in result.tasks
                  \/ result.node = callbackNode[r] /\ result.tasks = tasks[r]
<1>. DEFINE result == ScheduleTask(r, rec)
            next == GetNextLanes(rec, IF wip.root = r THEN wip.lanes ELSE {})
            nothing == next = {} \/ SuspendedOnData(r) \/ pendingCommit[r] = "host"
<1>1. /\ result.tasks \in TaskSets
      /\ nothing => result.priority = NoLane /\ result.node = 0
      /\ ~nothing /\ SyncLane \in next =>
           result.priority = SyncLane /\ result.node = 0
      /\ ~nothing /\ SyncLane \notin next =>
           /\ result.priority \in LanesInUse \ {SyncLane}
           /\ \/ /\ result.node = callbackNode[r] /\ result.tasks = tasks[r]
                 /\ result.priority = callbackPriority[r]
              \/ result.node \in result.tasks
  BY ScheduleTaskDecides DEF TypeInv, DataType
<1>. HIDE DEF result, next
<1>2. 0 \notin result.tasks
  BY <1>1 DEF TaskSets
<1>3. ~nothing /\ SyncLane \notin next => result.node # 0
  BY <1>1, <1>2, LanesFacts DEF NodeInv
<1>. QED  BY <1>1, <1>3 DEF result, next

-----------------------------------------------------------------------------
(* The steps, as far as the live tasks and the task on the stack go.       *)
LEMMA TaskKinds ==
  ASSUME TypeInv, [Next]_vars
  PROVE  \/ ProcessRootSchedule \/ EndTask
         \/ \E r \in Roots : \E node \in tasks[r] :
              StartTask(r, node) \/ StartTaskWithoutLanes(r, node)
         \/ CommitThrows /\ tasks' = tasks
         \/ tasks' = tasks /\ task' = task
<1>1. CASE EventUpdate \/ LayoutUpdate
  BY <1>1 DEF EventUpdate, LayoutUpdate, Update, callbackVars, frameVars
<1>2. CASE Render \/ Yield
  BY <1>2 DEF Render, SkipUnit, RenderUnit, UnitThrows, UnitSuspends, Replay,
     WaitForData, YieldToMicrotasks, Unwind, CompleteRender, renderUnchanged, Yield,
     callbackVars
<1>3. CASE Exit
  BY <1>3 DEF Exit, RenderTornTree, RetryAfterError, SuspendRecovery, DidNotComplete,
     SuspendIndefinitely, ThrottleRetries, SuspendCommit, CommitSync, CommitConcurrent,
     CommitRoot, finishUnchanged, callbackVars
<1>4. CASE \/ FlushSync \/ YieldToHost \/ FlushDone \/ CommitDone \/ CommitThrows
           \/ Ping \/ Continue \/ Retry \/ ThrottlePasses
           \/ UNCHANGED vars \/ (\E id \in Ids : Resolve(id))
  BY <1>4 DEF FlushSync, YieldToHost, FlushDone, CommitDone, CommitThrows, Ping,
     Continue, Retry, listenerUnchanged, ThrottlePasses, Resolve, vars, callbackVars,
     frameVars
<1>5. ASSUME NEW r \in Roots,
             \/ FlushRoot(r) \/ TimeoutThenSuspendCommit(r) \/ CommitDelayed(r)
             \/ \E lane \in LanesInUse : LaneExpires(r, lane)
      PROVE  tasks' = tasks /\ task' = task
  BY <1>5 DEF FlushRoot, TimeoutThenSuspendCommit, CommitDelayed, CommitRoot,
     LaneExpires, callbackVars, frameVars
<1>. QED
  BY <1>1, <1>2, <1>3, <1>4, <1>5 DEF Next, Run, Ids

(* The steps that leave the task on the stack: a commit, the end of one,   *)
(* or one that begins neither a commit nor a flush.                        *)
LEMMA OnStackKinds ==
  ASSUME TypeInv, [Next]_vars, task # NoTask, task' # NoTask
  PROVE  /\ task' = task
         /\ \/ CommitsOnExit \/ CommitDone
            \/ /\ callbackNode' = callbackNode
               /\ pc' = "layout" => pc = "layout"
               /\ InFlush' => InFlush
<1>. USE DEF TypeInv, DataType
<1>1. pc \notin {"idle", "scheduler"}
  BY DEF FrameInv
<1>2. CASE LayoutUpdate
  BY <1>2 DEF LayoutUpdate, Update, callbackVars, frameVars, InFlush
<1>3. CASE Render \/ Yield
  BY <1>3 DEF Render, SkipUnit, RenderUnit, UnitThrows, UnitSuspends, Replay,
     WaitForData, YieldToMicrotasks, Unwind, CompleteRender, Rendering,
     renderUnchanged, Yield, callbackVars, InFlush
<1>4. CASE RenderTornTree \/ RetryAfterError \/ SuspendRecovery
  BY <1>4 DEF RenderTornTree, RetryAfterError, SuspendRecovery, RenderRoot,
     callbackVars, InFlush, FrameType, Frame
<1>5. CASE DidNotComplete \/ FinishesTree
  BY <1>5 DEF DidNotComplete, FinishesTree, SuspendIndefinitely, ThrottleRetries,
     SuspendCommit, FinishesConcurrent, Exits, finishUnchanged, callbackVars, InFlush
<1>6. CASE CommitsOnExit \/ CommitDone
  BY <1>6 DEF CommitsOnExit, CommitSync, CommitConcurrent, CommitRoot, CommitDone
<1>7. CASE FlushDone \/ UNCHANGED vars
  BY <1>7 DEF FlushDone, vars, callbackVars, frameVars, InFlush
<1>8. ASSUME NEW r \in Roots, FlushRoot(r)
      PROVE  task' = task /\ callbackNode' = callbackNode /\ pc' # "layout" /\ InFlush
  BY <1>8 DEF FlushRoot, RenderRoot, callbackVars, InFlush
<1>9. ~(CommitThrows \/ EndTask)
  BY DEF CommitThrows, EndTask
<1>10. ~(\/ EventUpdate \/ FlushSync \/ YieldToHost \/ Ping \/ Continue \/ Retry
         \/ ProcessRootSchedule \/ ThrottlePasses \/ (\E id \in Ids : Resolve(id)))
  BY <1>1 DEF EventUpdate, FlushSync, YieldToHost, Ping, Continue, Retry, Runs,
     ProcessRootSchedule, ThrottlePasses, Resolve, Quiescent
<1>11. \A r \in Roots :
         /\ \A node \in tasks[r] :
              ~StartTask(r, node) /\ ~StartTaskWithoutLanes(r, node)
         /\ ~CommitDelayed(r) /\ ~TimeoutThenSuspendCommit(r)
         /\ \A lane \in LanesInUse : ~LaneExpires(r, lane)
  BY <1>1 DEF StartTask, StartTaskWithoutLanes, SchedulerRuns, CommitDelayed,
     TimeoutThenSuspendCommit, LaneExpires, Quiescent
<1>. QED
  BY <1>2, <1>3, <1>4, <1>5, <1>6, <1>7, <1>8, <1>9, <1>10, <1>11
  DEF Next, Run, Exit, Ids, FinishesTree, CommitsOnExit

-----------------------------------------------------------------------------
LEMMA TaskStep ==
  ASSUME TypeInv, TaskInv, [Next]_vars
  PROVE  TaskInv'
<1>. USE DEF TypeInv, DataType
<1>1. SUFFICES ASSUME task' # NoTask
               PROVE  /\ callbackNode'[task'.root] \in {0, task'.original}
                      /\ pc' = "layout" \/ InFlush' => callbackNode'[task'.root] = 0
                      /\ InFlush' =>
                           task'.root \in schedule' /\ didScheduleMicrotask'
  BY DEF TaskInv, WillBeProcessed
<1>2. CASE task = NoTask
  <2>1. PICK r \in Roots : \E node \in tasks[r] : StartTask(r, node)
    <3>1. ~(ProcessRootSchedule \/ EndTask \/ CommitThrows)
      BY <1>1, <1>2 DEF ProcessRootSchedule, EndTask, CommitThrows
    <3>2. \A r \in Roots : \A node \in tasks[r] : ~StartTaskWithoutLanes(r, node)
      BY <1>1, <1>2 DEF StartTaskWithoutLanes
    <3>. QED  BY <1>1, <1>2, <3>1, <3>2, TaskKinds
  <2>2. /\ task'.root = r /\ task'.original = callbackNode[r]
        /\ callbackNode' = callbackNode /\ pc' = "render" /\ ~attempt'.sync
    BY <2>1 DEF StartTask, RenderRoot, Attempt, NoAttempt
  <2>. QED  BY <2>2 DEF InFlush
<1>3. CASE task # NoTask
  <2>1. task' = task /\ task.root \in Roots
    BY <1>1, <1>3, OnStackKinds DEF FrameType, TaskFrame
  <2>2. /\ callbackNode[task.root] \in {0, task.original}
        /\ pc = "layout" \/ InFlush => callbackNode[task.root] = 0
        /\ InFlush => task.root \in schedule /\ didScheduleMicrotask
    BY <1>3 DEF TaskInv, WillBeProcessed
  <2>3. FlagsStay
    BY <1>3, FlagKinds DEF ProcessRootSchedule, FrameInv
  <2>4. CASE CommitsOnExit
    <3>1. /\ pc = "exit" /\ attempt.root \in Roots
          /\ callbackNode' = [callbackNode EXCEPT ![attempt.root] = 0]
          /\ attempt'.sync = attempt.sync
      BY <2>4, ExitCommits DEF CommitRoot, CommitsOnExit, CommitSync, CommitConcurrent,
         FrameType, Frame
    <3>2. callbackNode'[task.root] = 0
      <4>1. CASE attempt.sync
        BY <2>1, <2>2, <3>1, <4>1 DEF InFlush, CallbackType
      <4>2. CASE ~attempt.sync
        BY <3>1, <4>2 DEF FrameInv, CallbackType
      <4>. QED  BY <4>1, <4>2
    <3>3. InFlush' => InFlush
      BY <2>4, <3>1, ExitCommits DEF CommitRoot, InFlush
    <3>. QED  BY <2>1, <2>2, <2>3, <3>2, <3>3 DEF FlagsStay
  <2>5. CASE CommitDone
    <3>1. /\ pc = "layout" /\ pc' # "layout" /\ callbackNode' = callbackNode
          /\ EnsureRootIsScheduled(attempt.root)
      BY <2>5 DEF CommitDone, FlushSyncWork, callbackVars
    <3>2. callbackNode'[task.root] = 0
      BY <2>2, <3>1
    <3>3. task.root \in schedule' /\ didScheduleMicrotask'
      <4>1. CASE attempt.sync
        BY <2>2, <2>3, <3>1, <4>1 DEF InFlush, FlagsStay
      <4>2. CASE ~attempt.sync
        BY <1>3, <3>1, <4>2 DEF FrameInv, EnsureRootIsScheduled
      <4>. QED  BY <4>1, <4>2
    <3>. QED  BY <2>1, <3>2, <3>3
  <2>6. CASE /\ callbackNode' = callbackNode
             /\ pc' = "layout" => pc = "layout"
             /\ InFlush' => InFlush
    BY <2>1, <2>2, <2>3, <2>6 DEF FlagsStay
  <2>. QED  BY <1>1, <1>3, <2>4, <2>5, <2>6, OnStackKinds
<1>. QED  BY <1>2, <1>3

(* A callback that dangles does so until it is replaced.                   *)
LEMMA DanglingStays ==
  ASSUME TypeInv, [Next]_vars, NEW q \in dangling, callbackNode'[q] = callbackNode[q]
  PROVE  q \in dangling'
<1>1. CASE ProcessRootSchedule \/ EndTask
  BY <1>1 DEF ProcessRootSchedule, EndTask, KeepDangling
<1>2. ASSUME NEW r \in Roots,
             \/ CommitDelayed(r)
             \/ \E node \in tasks[r] : StartTask(r, node) \/ StartTaskWithoutLanes(r, node)
      PROVE  q \in dangling'
  BY <1>2 DEF CommitDelayed, CommitRoot, StartTask, StartTaskWithoutLanes, KeepDangling
<1>3. CASE Exit
  BY <1>3 DEF Exit, RenderTornTree, RetryAfterError, SuspendRecovery, DidNotComplete,
     SuspendIndefinitely, ThrottleRetries, SuspendCommit, CommitSync, CommitConcurrent,
     CommitRoot, KeepDangling, finishUnchanged, callbackVars
<1>4. CASE EventUpdate \/ LayoutUpdate
  BY <1>4 DEF EventUpdate, LayoutUpdate, Update, callbackVars
<1>5. CASE Render \/ Yield
  BY <1>5 DEF Render, SkipUnit, RenderUnit, UnitThrows, UnitSuspends, Replay,
     WaitForData, YieldToMicrotasks, Unwind, CompleteRender, renderUnchanged, Yield,
     callbackVars
<1>6. CASE \/ FlushSync \/ YieldToHost \/ FlushDone \/ CommitDone \/ CommitThrows
           \/ Ping \/ Continue \/ Retry \/ ThrottlePasses
           \/ UNCHANGED vars \/ (\E id \in Ids : Resolve(id))
  BY <1>6 DEF FlushSync, YieldToHost, FlushDone, CommitDone, CommitThrows, Ping,
     Continue, Retry, listenerUnchanged, ThrottlePasses, Resolve, vars, callbackVars
<1>7. ASSUME NEW r \in Roots,
             \/ FlushRoot(r) \/ TimeoutThenSuspendCommit(r)
             \/ \E lane \in LanesInUse : LaneExpires(r, lane)
      PROVE  q \in dangling'
  BY <1>7 DEF FlushRoot, TimeoutThenSuspendCommit, LaneExpires, callbackVars
<1>. QED
  BY <1>1, <1>2, <1>3, <1>4, <1>5, <1>6, <1>7 DEF Next, Run, Ids

LEMMA NodeStep ==
  ASSUME TypeInv, NodeInv, TaskInv, [Next]_vars
  PROVE  NodeInv'
<1>. USE DEF TypeInv, DataType
<1>1. SUFFICES ASSUME NEW q \in Roots
               PROVE  /\ callbackNode'[q] # 0 =>
                           \/ callbackNode'[q] \in tasks'[q]
                           \/ /\ task' # NoTask /\ task'.root = q
                              /\ callbackNode'[q] = task'.node
                           \/ q \in dangling'
                      /\ callbackNode'[q] = 0 =>
                           callbackPriority'[q] \in {NoLane, SyncLane}
  BY DEF NodeInv, OwnTask
<1>2. /\ callbackNode[q] # 0 =>
           \/ callbackNode[q] \in tasks[q]
           \/ OwnTask(q) /\ callbackNode[q] = task.node
           \/ callbackNode'[q] = callbackNode[q] => q \in dangling'
      /\ callbackNode[q] = 0 => callbackPriority[q] \in {NoLane, SyncLane}
  BY DanglingStays DEF NodeInv
<1>3. CASE ProcessRootSchedule
  <2>1. ~OwnTask(q)
    BY <1>3 DEF ProcessRootSchedule, FrameInv, OwnTask
  <2>2. CASE q \notin schedule
    <3>1. /\ callbackNode'[q] = callbackNode[q] /\ tasks'[q] = tasks[q]
          /\ callbackPriority'[q] = callbackPriority[q]
      BY <1>3, <2>2, ProcessKinds
    <3>. QED  BY <1>2, <2>1, <3>1
  <2>3. CASE q \in schedule
    <3>1. PICK rec \in RootRecord(LanesInUse) : Processes(q, rec)
      BY <1>3, <2>3, ProcessKinds
    <3>. DEFINE result == ScheduleTask(q, rec)
    <3>2. /\ callbackNode'[q] = result.node /\ tasks'[q] = result.tasks
          /\ callbackPriority'[q] = result.priority
      BY <3>1 DEF Processes
    <3>3. /\ result.node = 0 => result.priority \in {NoLane, SyncLane}
          /\ result.node # 0 =>
               \/ result.node \in result.tasks
               \/ result.node = callbackNode[q] /\ result.tasks = tasks[q]
      BY ScheduledTask
    <3>. HIDE DEF result
    <3>. QED  BY <1>2, <2>1, <3>2, <3>3
  <2>. QED  BY <2>2, <2>3
<1>4. CASE EndTask
  <2>1. PICK r \in Roots : r = task.root
    BY <1>4 DEF EndTask, FrameType, FrameInv, TaskFrame
  <2>2. task # NoTask /\ root[r] \in RootRecord(LanesInUse)
    BY <1>4 DEF EndTask, FrameInv, RootType
  <2>. DEFINE result == ScheduleTask(r, root[r])
  <2>3. /\ result.node = 0 => result.priority \in {NoLane, SyncLane}
        /\ result.node # 0 =>
             \/ result.node \in result.tasks
             \/ result.node = callbackNode[r] /\ result.tasks = tasks[r]
    BY <2>2, ScheduledTask
  <2>. HIDE DEF result
  <2>4. /\ callbackNode' = [callbackNode EXCEPT ![r] = result.node]
        /\ callbackPriority' = [callbackPriority EXCEPT ![r] = result.priority]
        /\ tasks' = [tasks EXCEPT ![r] = result.tasks \cup
             (IF result.node = task.original THEN {task.node} ELSE {})]
    BY <1>4, <2>1 DEF EndTask, result
  <2>5. CASE q # r
    <3>1. /\ callbackNode'[q] = callbackNode[q] /\ tasks'[q] = tasks[q]
          /\ callbackPriority'[q] = callbackPriority[q]
      BY <2>4, <2>5 DEF CallbackType
    <3>. QED  BY <1>2, <2>1, <2>5, <3>1 DEF OwnTask
  <2>6. CASE q = r
    <3>1. /\ callbackNode'[q] = result.node /\ callbackPriority'[q] = result.priority
          /\ result.tasks \subseteq tasks'[q]
          /\ result.node = task.original => task.node \in tasks'[q]
      BY <2>4, <2>6 DEF CallbackType
    <3>2. callbackNode[q] \in {0, task.original}
      BY <2>1, <2>2, <2>6 DEF TaskInv
    <3>. QED  BY <1>2, <2>3, <2>6, <3>1, <3>2
  <2>. QED  BY <2>5, <2>6
<1>5. CASE callbackNode'[q] = 0 /\ callbackPriority'[q] = NoLane
  BY <1>5
<1>6. CASE /\ callbackNode'[q] = callbackNode[q]
           /\ callbackPriority'[q] = callbackPriority[q]
           /\ ~ProcessRootSchedule /\ ~EndTask
  <2>1. ASSUME NEW r \in Roots, NEW node \in tasks[r], StartTask(r, node)
        PROVE  callbackNode[q] # 0 =>
                 \/ callbackNode[q] \in tasks'[q]
                 \/ /\ task' # NoTask /\ task'.root = q
                    /\ callbackNode[q] = task'.node
                 \/ q \in dangling'
    <3>1. ~OwnTask(q)
      BY <2>1 DEF StartTask, SchedulerRuns, Quiescent, FrameInv, OwnTask
    <3>2. /\ tasks' = [tasks EXCEPT ![r] = @ \ {node}]
          /\ task'.root = r /\ task'.node = node
      BY <2>1 DEF StartTask
    <3>3. task' # NoTask
      BY <3>2, RootsAssumption DEF NoTask
    <3>. QED  BY <1>2, <1>6, <3>1, <3>2, <3>3 DEF CallbackType
  <2>2. ASSUME NEW r \in Roots, NEW node \in tasks[r], StartTaskWithoutLanes(r, node)
        PROVE  callbackNode[q] # 0 =>
                 callbackNode[q] \in tasks'[q] \/ q \in dangling'
    <3>1. ~OwnTask(q)
      BY <2>2 DEF StartTaskWithoutLanes, SchedulerRuns, Quiescent, FrameInv, OwnTask
    <3>2. tasks' = [tasks EXCEPT ![r] = @ \ {node}]
      BY <2>2 DEF StartTaskWithoutLanes
    <3>3. node = callbackNode[r] => r \in dangling'
      BY <2>2 DEF StartTaskWithoutLanes
    <3>. QED  BY <1>2, <1>6, <3>1, <3>2, <3>3 DEF CallbackType
  <2>3. ASSUME CommitThrows, tasks' = tasks
        PROVE  callbackNode[q] # 0 =>
                 callbackNode[q] \in tasks'[q] \/ q \in dangling'
    <3>1. OwnTask(q) => callbackNode[q] = 0
      BY <2>3 DEF CommitThrows, TaskInv, OwnTask
    <3>. QED  BY <1>2, <1>6, <2>3, <3>1
  <2>4. CASE tasks' = tasks /\ task' = task
    BY <1>2, <1>6, <2>4 DEF OwnTask
  <2>. QED  BY <1>2, <1>6, <2>1, <2>2, <2>3, <2>4, TaskKinds
<1>. QED  BY <1>3, <1>4, <1>5, <1>6, CallbackKinds

-----------------------------------------------------------------------------
(* The microtask gives a root that wants it a callback.                    *)
LEMMA ProcessingSchedules ==
  ASSUME TypeInv, NestInv, SyncInv, NodeInv, WorkInv, ProcessRootSchedule,
         NEW q \in Roots, Wanted(q)'
  PROVE  callbackNode'[q] # 0
<1>. USE DEF TypeInv, DataType
<1>1. /\ UNCHANGED <<wip, listeners, ready, pendingCommit>>
      /\ pc = "idle" /\ task = NoTask
  BY DEF ProcessRootSchedule, listenerVars, commitVars, FrameInv
<1>2. /\ ~Continues(q) /\ pendingCommit[q] # "host" /\ ~Exempt(q)
      /\ Candidates(root'[q]) # {} /\ SyncLane \notin Candidates(root'[q])
  BY <1>1 DEF Wanted, Continues, Listens, Exempt
<1>3. CASE q \notin schedule
  <2>1. root'[q] = root[q] /\ callbackNode'[q] = callbackNode[q]
    BY <1>3, ProcessKinds
  <2>. QED  BY <1>2, <1>3, <2>1 DEF WorkInv, Wanted, WillBeProcessed
<1>4. CASE q \in schedule
  <2>1. PICK rec \in RootRecord(LanesInUse) : MayUpgrade(q, rec) /\ Processes(q, rec)
    BY <1>4, ProcessKinds
  <2>. DEFINE w == IF wip.root = q THEN wip.lanes ELSE {}
  <2>2. root[q] \in RootRecord(LanesInUse) /\ w \subseteq root[q].pendingLanes
    BY DEF RootType, NestInv
  <2>3. w \in SUBSET rec.pendingLanes
    BY <2>1, <2>2, UpgradeAddsSyncLane DEF MayUpgrade
  <2>4. root'[q] = MarkStarvedLanesAsExpired(rec)
    BY <2>1, ScheduleTaskDecides DEF Processes
  <2>5. Candidates(rec) # {} /\ SyncLane \notin Candidates(rec)
    BY <1>2, <2>4, MarkStarvedKeepsNextLanes
  <2>6. GetNextLanes(rec, w) # {} /\ SyncLane \notin GetNextLanes(rec, w)
    <3>1. Candidates(rec) \subseteq SyncLane..IdleLane
      BY LanesFacts, CandidatesType
    <3>2. GetNextLanes(rec, w) # {}
      BY <2>5, <3>1, NextLanesAreUrgent
    <3>3. SyncLane \notin GetNextLanes(rec, w)
      BY <2>3, <2>5, LanesFacts, SyncLaneIsNext
    <3>. QED  BY <3>2, <3>3
  <2>7. ~SuspendedOnData(q)
    BY <1>1, <1>2, RootsAssumption DEF SyncInv, SuspendedOnData
  <2>8. ScheduleTask(q, rec).node # 0
    BY <1>2, <2>6, <2>7, ScheduledTask
  <2>. QED  BY <2>1, <2>8 DEF Processes
<1>. QED  BY <1>3, <1>4

LEMMA WorkStep ==
  ASSUME TypeInv, NestInv, SyncInv, NodeInv, TaskInv, WorkInv, [Next]_vars
  PROVE  WorkInv'
<1>. USE DEF TypeInv, DataType
<1>1. SUFFICES ASSUME NEW q \in Roots, Wanted(q)'
               PROVE  callbackNode'[q] # 0 \/ Exempt(q)' \/ WillBeProcessed(q)'
  BY DEF WorkInv
<1>2. CASE EnsureRootIsScheduled(q)
  BY <1>2 DEF EnsureRootIsScheduled, WillBeProcessed
<1>3. CASE ProcessRootSchedule
  BY <1>1, <1>3, ProcessingSchedules
<1>4. ASSUME ~EnsureRootIsScheduled(q), ~ProcessRootSchedule
      PROVE  WillBeProcessed(q) => WillBeProcessed(q)'
  BY <1>4, FlagKinds DEF FlagsStay, WillBeProcessed
<1>5. ASSUME ~EnsureRootIsScheduled(q), ~ProcessRootSchedule
      PROVE  ~Continues(q)
  BY <1>1, <1>5, ContinuesStay DEF Wanted, Continue
<1>6. ASSUME ~EnsureRootIsScheduled(q), ~ProcessRootSchedule, callbackNode[q] # 0
      PROVE  callbackNode'[q] # 0 \/ Exempt(q)'
  <2>1. EndTask => task.root # q /\ task.root \in Roots
    BY <1>6 DEF EndTask, FrameType, FrameInv, TaskFrame
  <2>2. EndTask => callbackNode'[q] = callbackNode[q]
    BY <2>1 DEF EndTask, CallbackType
  <2>. QED  BY <1>6, <2>2, CallbackKinds
<1>7. CASE Spares(q) /\ ~EnsureRootIsScheduled(q) /\ ~ProcessRootSchedule
  <2>1. Candidates(root'[q]) = Candidates(root[q])
    BY <1>7 DEF Spares, Candidates
  <2>2. Wanted(q)
    BY <1>1, <1>5, <1>7, <2>1 DEF Wanted, Spares
  <2>. QED  BY <1>4, <1>6, <1>7, <2>2 DEF WorkInv, Spares
<1>8. CASE CommitThrows /\ attempt.sync /\ ~EnsureRootIsScheduled(q)
  <2>1. /\ UNCHANGED <<root, pendingCommit>> /\ pc = "layout"
        /\ EnsureRootIsScheduled(attempt.root)
    BY <1>8 DEF CommitThrows, commitVars
  <2>2. ~ProcessRootSchedule
    BY <2>1 DEF ProcessRootSchedule
  <2>3. Wanted(q)
    BY <1>1, <1>5, <1>8, <2>1, <2>2 DEF Wanted
  <2>4. Exempt(q) => WillBeProcessed(q)
    <3>1. task # NoTask => WillBeProcessed(task.root)
      BY <1>8, <2>1 DEF TaskInv, InFlush
    <3>. QED  BY <1>8, <2>1, <3>1 DEF Exempt
  <2>. QED  BY <1>4, <1>6, <1>8, <2>2, <2>3, <2>4 DEF WorkInv
<1>. QED  BY <1>1, <1>2, <1>3, <1>7, <1>8, OweKinds, TimeoutWaitsForHost DEF Wanted

(* When microtasks have run, a root with work to do has a live Scheduler   *)
(* task, unless it waits for data or for the host, and unless a flush has  *)
(* been left by an exception; or else its callbackNode is a task that ran  *)
(* in vain and that nothing has replaced.                                  *)
THEOREM WorkLoopWorkIsScheduled == Spec => []WorkIsScheduledUnlessDangling
<1>1. Init => OwnInvs
  BY DEF Init, OwnInvs, NodeInv, TaskInv, WorkInv, Wanted, Candidates, InitialRoot
<1>2. Init => TypeInv /\ NestInv /\ SyncInv
  <2>1. Init => SyncInv
    BY DEF Init, SyncInv, InFlush, Owes, Candidates, InitialRoot, NoAttempt
  <2>. QED  BY <2>1, InitTypes, InitScreen DEF ScreenInvs
<1>3. TypeInv /\ NestInv /\ SyncInv /\ OwnInvs /\ [Next]_vars
        => (TypeInv /\ NestInv /\ SyncInv /\ OwnInvs)'
  BY TypeStep, NestStep, SyncStep, NodeStep, TaskStep, WorkStep DEF OwnInvs
<1>4. TypeInv /\ NestInv /\ SyncInv /\ OwnInvs => WorkIsScheduledUnlessDangling
  BY WorkHasTask DEF OwnInvs
<1>. QED  BY <1>1, <1>2, <1>3, <1>4, PTL DEF Spec

-----------------------------------------------------------------------------
(* The timer of a throttled commit finds that the host is not ready.       *)
HostDelaysTimers == \E r \in Roots : TimeoutThenSuspendCommit(r)

(* A root with a callback has lanes for it, or will be scheduled again.    *)
LaneInv ==
  \A r \in Roots :
    callbackNode[r] # 0 =>
      Candidates(root[r]) # {} \/ Exempt(r) \/ WillBeProcessed(r)

(* A callback is scheduled for lanes that the root has.                    *)
LEMMA ProcessedLanes ==
  ASSUME TypeInv, LaneInv, ProcessRootSchedule, NEW q \in Roots, callbackNode'[q] # 0
  PROVE  Candidates(root'[q]) # {}
<1>. USE DEF TypeInv, DataType
<1>1. pc = "idle" /\ task = NoTask
  BY DEF ProcessRootSchedule, FrameInv
<1>2. CASE q \notin schedule
  <2>1. root'[q] = root[q] /\ callbackNode'[q] = callbackNode[q]
    BY <1>2, ProcessKinds
  <2>. QED  BY <1>1, <1>2, <2>1 DEF LaneInv, Exempt, WillBeProcessed
<1>3. CASE q \in schedule
  <2>1. PICK rec \in RootRecord(LanesInUse) : Processes(q, rec)
    BY <1>3, ProcessKinds
  <2>. DEFINE w == IF wip.root = q THEN wip.lanes ELSE {}
  <2>2. root'[q] = MarkStarvedLanesAsExpired(rec)
    BY <2>1, ScheduleTaskDecides DEF Processes
  <2>3. ScheduleTask(q, rec).node # 0
    BY <2>1 DEF Processes
  <2>4. GetNextLanes(rec, w) # {}
    BY <2>3, ScheduleTaskDecides
  <2>5. Candidates(rec) # {}
    BY <2>4 DEF GetNextLanes
  <2>. QED  BY <2>2, <2>5, MarkStarvedKeepsNextLanes
<1>. QED  BY <1>2, <1>3

LEMMA LaneStep ==
  ASSUME TypeInv, TaskInv, LaneInv, [Next]_vars, ~HostDelaysTimers
  PROVE  LaneInv'
<1>. USE DEF TypeInv, DataType
<1>1. SUFFICES ASSUME NEW q \in Roots, callbackNode'[q] # 0
               PROVE  Candidates(root[q])' # {} \/ Exempt(q)' \/ WillBeProcessed(q)'
  BY DEF LaneInv
<1>2. CASE EnsureRootIsScheduled(q)
  BY <1>2 DEF EnsureRootIsScheduled, WillBeProcessed
<1>3. CASE ProcessRootSchedule
  BY <1>1, <1>3, ProcessedLanes
<1>4. ASSUME ~EnsureRootIsScheduled(q), ~ProcessRootSchedule
      PROVE  WillBeProcessed(q) => WillBeProcessed(q)'
  BY <1>4, FlagKinds DEF FlagsStay, WillBeProcessed
<1>5. ASSUME ~EnsureRootIsScheduled(q), ~ProcessRootSchedule
      PROVE  callbackNode[q] # 0
  <2>1. EndTask => task.root # q /\ task.root \in Roots
    BY <1>5 DEF EndTask, FrameType, FrameInv, TaskFrame
  <2>2. EndTask => callbackNode'[q] = callbackNode[q]
    BY <2>1 DEF EndTask, CallbackType
  <2>. QED  BY <1>1, <1>5, <2>2, CallbackKinds
<1>6. CASE Spares(q) /\ ~EnsureRootIsScheduled(q) /\ ~ProcessRootSchedule
  <2>1. Candidates(root'[q]) = Candidates(root[q])
    BY <1>6 DEF Spares, Candidates
  <2>. QED  BY <1>4, <1>5, <1>6, <2>1 DEF LaneInv, Spares
<1>7. CASE CommitThrows /\ attempt.sync /\ ~EnsureRootIsScheduled(q)
  <2>1. root' = root /\ pc = "layout" /\ EnsureRootIsScheduled(attempt.root)
    BY <1>7 DEF CommitThrows
  <2>2. ~ProcessRootSchedule
    BY <2>1 DEF ProcessRootSchedule
  <2>3. Exempt(q) => WillBeProcessed(q)
    <3>1. task # NoTask => WillBeProcessed(task.root)
      BY <1>7, <2>1 DEF TaskInv, InFlush
    <3>. QED  BY <1>7, <2>1, <3>1 DEF Exempt
  <2>. QED  BY <1>4, <1>5, <1>7, <2>1, <2>2, <2>3 DEF LaneInv
<1>. QED  BY <1>2, <1>3, <1>6, <1>7, OweKinds DEF HostDelaysTimers

(* When microtasks have run, a root with a Scheduler task has lanes that   *)
(* the task will find, unless the host delays the commit of a timer.       *)
CallbacksHaveLanes ==
  Quiescent => \A r \in Roots : callbackNode[r] # 0 => NextLanes(r) # {}

LEMMA CallbacksHaveThem ==
  ASSUME TypeInv, LaneInv
  PROVE  CallbacksHaveLanes
<1>. USE DEF TypeInv, DataType
<1>1. SUFFICES ASSUME Quiescent, NEW r \in Roots, callbackNode[r] # 0
               PROVE  NextLanes(r) # {}
  BY DEF CallbacksHaveLanes
<1>2. Candidates(root[r]) # {}
  BY <1>1 DEF Quiescent, FrameInv, LaneInv, Exempt, WillBeProcessed
<1>3. Candidates(root[r]) \subseteq SyncLane..IdleLane
  BY LanesFacts, CandidatesType DEF RootType
<1>. QED  BY <1>2, <1>3, NextLanesAreUrgent DEF NextLanes

(* Of the two ways in which a root's own task may yet find no lanes, this  *)
(* rules out all but one: that the Scheduler starts it in the macrotask of *)
(* another task, before microtasks have run.                               *)
THEOREM WorkLoopCallbacksHaveLanes ==
  Spec /\ [][~HostDelaysTimers]_vars => []CallbacksHaveLanes
<1>1. Init => TypeInv /\ TaskInv /\ LaneInv
  BY InitTypes DEF Init, TaskInv, LaneInv
<1>2. TypeInv /\ TaskInv /\ LaneInv /\ [Next]_vars /\ [~HostDelaysTimers]_vars
        => (TypeInv /\ TaskInv /\ LaneInv)'
  <2>1. ASSUME TypeInv, UNCHANGED vars PROVE ~HostDelaysTimers
    BY <2>1 DEF HostDelaysTimers, TimeoutThenSuspendCommit, TypeInv, DataType,
       CommitType, vars, commitVars
  <2>. QED  BY <2>1, TypeStep, TaskStep, LaneStep
<1>3. TypeInv /\ LaneInv => CallbacksHaveLanes
  BY CallbacksHaveThem
<1>. QED  BY <1>1, <1>2, <1>3, PTL DEF Spec

-----------------------------------------------------------------------------
(* A render that may have to suspend its lanes listens for their data, or  *)
(* the data is there.                                                      *)
WantsPing ==
  wip.exit \in {"SuspendedWithDelay", "DidNotComplete"} \/ wip.didAttachPing

Pings(r, lanes) ==
  \/ lanes \subseteq wip.pinged
  \/ \E l : Listens(l) /\ l.kind = "ping" /\ l.root = r /\ l.lanes = lanes

PingInv ==
  WantsPing =>
    /\ wip.root # NoRoot => Pings(wip.root, wip.lanes)
    /\ pc = "exit" => Pings(attempt.root, attempt.lanes)

(* A stack that is suspended on data has the listener that continues it.   *)
DataListener == [kind |-> "continue", id |-> Unit, root |-> wip.root, lanes |-> {}]

DataInv ==
  wip.root # NoRoot /\ wip.reason = "Data" /\ pc # "render" => Wakes(DataListener)

LEMMA PingsStay ==
  ASSUME TypeInv, [Next]_vars, NEW l, Listens(l), l.kind = "ping"
  PROVE  Listens(l)' \/ (Ping /\ l = Head(ready))
<1>1. CASE UNCHANGED <<listeners, ready>>
  BY <1>1 DEF Listens
<1>2. CASE \E m \in Listener : AddListener(m)
  BY <1>2, AddListenerAdds
<1>3. CASE Commits
  BY <1>3, CommitsAre, CommitListens
<1>4. CASE Ping \/ Continue \/ Retry
  <2>1. l = Head(ready) => Ping
    BY <1>4 DEF Continue, Retry, Runs
  <2>. QED  BY <1>4, <2>1, TakeListener
<1>5. CASE \E id \in Ids : Resolve(id)
  BY <1>5, ResolveMoves
<1>. QED  BY <1>1, <1>2, <1>3, <1>4, <1>5, ListenerKinds DEF Commits

(* A render on the stack that wants a ping has its listener.               *)
LEMMA RenderPings ==
  ASSUME TypeInv, PingInv, Render
  PROVE  PingInv'
<1>. USE DEF TypeInv, DataType, StackType, Stack
<1>1. /\ pc = "render" /\ attempt' = attempt
      /\ wip.root = attempt.root /\ wip.lanes = attempt.lanes /\ wip.root # NoRoot
  BY RootsAssumption
  DEF Render, SkipUnit, RenderUnit, UnitThrows, UnitSuspends, Replay, WaitForData,
     YieldToMicrotasks, Unwind, CompleteRender, Rendering, renderUnchanged, FrameInv
<1>2. ASSUME NEW r, NEW lanes, Pings(r, lanes), wip'.pinged = wip.pinged
      PROVE  Pings(r, lanes)'
  <2>1. ~Ping
    BY <1>1 DEF Ping, Runs
  <2>. QED  BY <1>2, <2>1, PingsStay DEF Pings, Next, Run
<1>3. CASE Unwind
  <2>1. wip.root \in Roots /\ wip.lanes \in LaneSets /\ wip.todo # {}
    BY <1>1, <1>3 DEF Unwind, FrameInv
  <2>2. PingListener(Unit) \in Listener
    BY <2>1, UnitIsToDo DEF PingListener, Listener
  <2>3. PICK l \in Listener : /\ AddListener(l) /\ l.kind = "ping"
                              /\ l.root = wip.root /\ l.lanes = wip.lanes
    BY <1>3, <2>2 DEF Unwind, PingListener
  <2>4. wip'.root = wip.root /\ wip'.lanes = wip.lanes /\ pc' = pc
    BY <1>3 DEF Unwind
  <2>5. Pings(wip.root, wip.lanes)'
    BY <2>3, <2>4, AddListenerAdds DEF Pings
  <2>. QED  BY <1>1, <2>4, <2>5 DEF PingInv
<1>4. CASE CompleteRender
  <2>1. /\ wip'.root = NoRoot /\ wip'.pinged = wip.pinged
        /\ WantsPing' => WantsPing
    BY <1>4 DEF CompleteRender, WantsPing
  <2>2. WantsPing => Pings(attempt.root, attempt.lanes)
    BY <1>1 DEF PingInv
  <2>. QED  BY <1>1, <1>2, <2>1, <2>2 DEF PingInv
<1>5. CASE /\ wip'.root = wip.root /\ wip'.lanes = wip.lanes /\ pc' # "exit"
           /\ wip'.pinged = wip.pinged
           /\ WantsPing' => WantsPing
  <2>1. PICK r, lanes : r = wip.root /\ lanes = wip.lanes
    OBVIOUS
  <2>2. WantsPing => Pings(r, lanes)
    BY <1>1, <2>1 DEF PingInv
  <2>3. WantsPing => Pings(r, lanes)'
    BY <1>2, <1>5, <2>2
  <2>. QED  BY <1>5, <2>1, <2>3 DEF PingInv, Pings
<1>6. CASE SkipUnit \/ RenderUnit \/ UnitThrows \/ UnitSuspends \/ Replay
  <2>1. /\ wip'.root = wip.root /\ wip'.lanes = wip.lanes /\ pc' # "exit"
        /\ wip'.pinged = wip.pinged
    BY <1>1, <1>6 DEF SkipUnit, RenderUnit, UnitThrows, UnitSuspends, Replay
  <2>2. CASE SkipUnit \/ RenderUnit \/ UnitThrows
    <3>1. WantsPing' => WantsPing
      BY <1>1, <2>2 DEF SkipUnit, RenderUnit, UnitThrows, WantsPing
    <3>. QED  BY <1>5, <2>1, <3>1
  <2>3. CASE UnitSuspends \/ Replay
    <3>1. WantsPing' => WantsPing
      BY <1>1, <2>3 DEF UnitSuspends, Replay, WantsPing
    <3>. QED  BY <1>5, <2>1, <3>1
  <2>. QED  BY <1>6, <2>2, <2>3
<1>7. CASE WaitForData \/ YieldToMicrotasks
  <2>1. /\ wip'.root = wip.root /\ wip'.lanes = wip.lanes /\ pc' # "exit"
        /\ wip'.pinged = wip.pinged
        /\ WantsPing' => WantsPing
    BY <1>7 DEF WaitForData, YieldToMicrotasks, renderUnchanged, WantsPing
  <2>. QED  BY <1>5, <2>1
<1>. QED  BY <1>3, <1>4, <1>6, <1>7 DEF Render

LEMMA PingStep ==
  ASSUME TypeInv, PingInv, [Next]_vars
  PROVE  PingInv'
<1>. USE DEF TypeInv, DataType
<1>1. CASE UNCHANGED vars
  BY <1>1 DEF vars, frameVars, listenerVars, PingInv, WantsPing, Pings, Listens
<1>2. CASE Render
  BY <1>2, RenderPings
<1>3. CASE SuspendRecovery
  <2>1. /\ wip.didAttachPing /\ pc = "exit" /\ pc' = pc
        /\ wip'.root = wip.root /\ wip'.pinged = wip.pinged
        /\ attempt'.root = attempt.root /\ attempt'.lanes = attempt.lanes
        /\ UNCHANGED <<listeners, ready>>
    BY <1>3 DEF SuspendRecovery, listenerVars, StackType, Stack, FrameType, Frame
  <2>2. wip.root = NoRoot
    BY <2>1 DEF FrameInv
  <2>. QED  BY <2>1, <2>2 DEF PingInv, WantsPing, Pings, Listens
<1>4. CASE Yield
  <2>1. wip' = wip /\ pc' = "end" /\ UNCHANGED <<listeners, ready>>
    BY <1>4 DEF Yield
  <2>. QED  BY <2>1 DEF PingInv, WantsPing, Pings, Listens
<1>5. CASE pc # "render" /\ pc' # "exit" /\ OtherStackStep
  <2>1. SUFFICES ASSUME WantsPing', wip'.root # NoRoot
                 PROVE  Pings(wip.root, wip.lanes)'
    BY <1>5 DEF PingInv
  <2>2. ASSUME NEW r \in Roots, NEW lanes, StackStarts(r, lanes) PROVE FALSE
    BY <2>1, <2>2 DEF StackStarts, SameTree, FreshStack, WantsPing
  <2>3. ASSUME wip'.root = wip.root, wip'.lanes = wip.lanes,
               wip.pinged \subseteq wip'.pinged, WantsPing
        PROVE  Pings(wip.root, wip.lanes)'
    <3>1. Pings(wip.root, wip.lanes)
      BY <2>1, <2>3 DEF PingInv
    <3>2. ASSUME NEW l, Listens(l), l.kind = "ping", l.root = wip.root,
                 l.lanes = wip.lanes
          PROVE  Listens(l)' \/ wip.lanes \subseteq wip'.pinged
      <4>1. CASE Ping /\ l = Head(ready)
        <5>1. CASE PrepareFreshStack(l.root, {})
          BY <2>1, <5>1 DEF PrepareFreshStack, FreshStack, WantsPing
        <5>2. CASE ~PrepareFreshStack(l.root, {})
          <6>1. wip' = [wip EXCEPT !.pinged = @ \cup wip.lanes]
            BY <3>2, <4>1, <5>2 DEF Ping
          <6>. QED  BY <6>1 DEF StackType, Stack
        <5>. QED  BY <5>1, <5>2
      <4>. QED  BY <3>2, <4>1, PingsStay
    <3>. QED  BY <2>3, <3>1, <3>2 DEF Pings
  <2>4. CASE StackStays
    BY <2>1, <2>3, <2>4 DEF StackStays, SameTree, WantsPing
  <2>5. CASE FinishesTree \/ \E r \in Roots : TimeoutThenSuspendCommit(r)
    <3>1. wip' = wip
      BY <2>5 DEF FinishesTree, SuspendIndefinitely, ThrottleRetries, SuspendCommit,
         finishUnchanged, TimeoutThenSuspendCommit
    <3>. QED  BY <2>1, <2>3, <3>1 DEF WantsPing
  <2>6. CASE Commits
    <3>1. PICK r \in Roots, tree \in Tree : CommitRoot(r, tree)
      BY <2>6, CommitsAre
    <3>. QED  BY <2>1, <2>3, <3>1, CommitKeepsStack DEF SameTree, WantsPing
  <2>. QED  BY <1>5, <2>2, <2>4, <2>5, <2>6 DEF OtherStackStep, Commits
<1>. QED  BY <1>1, <1>2, <1>3, <1>4, <1>5, StackKinds

LEMMA ContinuingStays ==
  ASSUME TypeInv, [Next]_vars, NEW m \in Listener, Wakes(m), m.kind = "continue"
  PROVE  Wakes(m)' \/ (Continue /\ m = Head(ready))
<1>1. CASE UNCHANGED <<listeners, ready>>
  BY <1>1 DEF Wakes
<1>2. CASE \E l \in Listener : AddListener(l)
  BY <1>2, AddListenerAdds
<1>3. CASE Commits
  BY <1>3, CommitsAre, CommitListens
<1>4. CASE Ping \/ Continue \/ Retry
  <2>1. m = Head(ready) => Continue
    BY <1>4 DEF Ping, Retry, Runs
  <2>. QED  BY <1>4, <2>1, TakeListener
<1>5. CASE \E id \in Ids : Resolve(id)
  BY <1>5, ResolveMoves
<1>. QED  BY <1>1, <1>2, <1>3, <1>4, <1>5, ListenerKinds DEF Commits

LEMMA DataListenerType ==
  ASSUME TypeInv, wip.root # NoRoot, wip.todo # {}
  PROVE  DataListener \in Listener
<1>1. wip.root \in Roots /\ Unit \in Ids
  BY UnitIsToDo DEF TypeInv, DataType, StackType, Stack
<1>. QED  BY <1>1 DEF DataListener, Listener, LaneSets

LEMMA DataInvStep ==
  ASSUME TypeInv, DataInv, [Next]_vars
  PROVE  DataInv'
<1>. USE DEF TypeInv, DataType
<1>1. SUFFICES ASSUME wip'.root # NoRoot, wip'.reason = "Data", pc' # "render"
               PROVE  Wakes(DataListener)'
  BY DEF DataInv
<1>2. ASSUME pc # "render", wip.reason = "Data", wip'.root = wip.root,
             wip'.todo = wip.todo
      PROVE  Wakes(DataListener)'
  <2>1. wip.root # NoRoot /\ wip.todo # {}
    BY <1>1, <1>2 DEF FrameInv
  <2>2. PICK m \in Listener : m = DataListener
    BY <2>1, DataListenerType
  <2>3. Wakes(m) /\ m.kind = "continue" /\ m.root = wip.root
    BY <1>2, <2>1, <2>2 DEF DataInv, DataListener
  <2>4. ~(Continue /\ m = Head(ready))
    BY <1>1, <1>2, <2>3 DEF Continue, SuspendedOnData, StackType, Stack
  <2>5. Wakes(m)'
    BY <2>3, <2>4, ContinuingStays
  <2>6. DataListener' = m
    BY <1>2, <2>2 DEF DataListener, Unit
  <2>. QED  BY <2>5, <2>6 DEF Wakes
<1>3. CASE UNCHANGED vars
  BY <1>1, <1>2, <1>3 DEF vars, frameVars
<1>4. CASE Render
  <2>1. WaitForData
    BY <1>1, <1>4 DEF Render, SkipUnit, RenderUnit, UnitThrows, UnitSuspends, Replay,
       YieldToMicrotasks, Unwind, CompleteRender, Rendering, StackType, Stack
  <2>2. wip' = wip /\ wip.todo # {}
    BY <1>1, <2>1 DEF WaitForData, FrameInv
  <2>3. PICK m \in Listener : m = DataListener
    BY <1>1, <2>2, DataListenerType
  <2>4. AddListener(m)
    BY <2>1, <2>3 DEF WaitForData, DataListener
  <2>5. Wakes(m)'
    BY <2>4, AddListenerAdds
  <2>6. DataListener' = m
    BY <2>2, <2>3 DEF DataListener, Unit
  <2>. QED  BY <2>5, <2>6 DEF Wakes
<1>5. CASE SuspendRecovery \/ Yield
  BY <1>1, <1>2, <1>5 DEF SuspendRecovery, Yield, Rendering, FrameInv, StackType, Stack
<1>6. CASE OtherStackStep /\ pc # "render"
  <2>1. ASSUME NEW q, NEW lanes, StackStarts(q, lanes) PROVE FALSE
    BY <1>1, <2>1 DEF StackStarts
  <2>2. CASE StackStays
    BY <1>1, <1>2, <1>6, <2>2 DEF StackStays, SameTree
  <2>3. CASE FinishesTree \/ \E q \in Roots : TimeoutThenSuspendCommit(q)
    <3>1. wip' = wip
      BY <2>3 DEF FinishesTree, SuspendIndefinitely, ThrottleRetries, SuspendCommit,
         finishUnchanged, TimeoutThenSuspendCommit
    <3>. QED  BY <1>1, <1>2, <1>6, <3>1
  <2>4. CASE Commits
    BY <1>1, <1>2, <1>6, <2>4, CommitsAre, CommitKeepsStack DEF SameTree
  <2>. QED  BY <1>6, <2>1, <2>2, <2>3, <2>4 DEF OtherStackStep, Commits
<1>. QED  BY <1>3, <1>4, <1>5, <1>6, StackKinds

-----------------------------------------------------------------------------
(* Data will ping the root for the lane.                                   *)
PingsLane(r, lane) ==
  \E l : Listens(l) /\ l.kind = "ping" /\ l.root = r /\ lane \in l.lanes

LEMMA PingsLaneStays ==
  ASSUME TypeInv, [Next]_vars, ~Ping, NEW r, NEW lane, PingsLane(r, lane)
  PROVE  PingsLane(r, lane)'
BY PingsStay DEF PingsLane

LEMMA SuspendedLanes ==
  ASSUME NEW rec \in RootRecord(LanesInUse), NEW lanes
  PROVE  LET suspended == Suspend(rec, lanes)
             new == lanes \ (wip.pinged \cup wip.interleaved)
         IN  /\ suspended.pendingLanes = rec.pendingLanes
             /\ suspended.suspendedLanes = rec.suspendedLanes \cup new
             /\ suspended.pingedLanes = rec.pingedLanes \ new
BY DEF Suspend, MarkRootSuspended, RootRecord

(* The steps, as far as suspended lanes are concerned: they have a         *)
(* listener that pings them, but for commits that are delayed.             *)
SuspendsPinged(r, lanes) ==
  /\ root' = [root EXCEPT ![r] = Suspend(@, lanes)]
  /\ Pings(r, lanes)' /\ wip'.pinged = wip.pinged
  /\ UNCHANGED pendingCommit

DelaysCommit(r) ==
  /\ root' = [root EXCEPT ![r] = Suspend(@, finished'[r].lanes)]
  /\ \A q \in Roots : q # r => pendingCommit'[q] = pendingCommit[q]
  /\ \/ environment.suspendsCommits /\ pendingCommit'[r] = "host"
     \/ finished'[r].lanes \subseteq RetryLanes
        /\ (pendingCommit'[r] = "throttled" \/ NextLanes(r)' # {})

LEMMA SuspendKinds ==
  ASSUME TypeInv, NestInv, PingInv, [Next]_vars
  PROVE  \/ \E r \in Roots, eventLane \in LanesInUse, content \in Contents :
              Update(r, eventLane, content)
         \/ Commits \/ ProcessRootSchedule \/ Retry \/ Ping \/ RootsStay
         \/ \E r \in Roots, lanes \in LaneSets : SuspendsPinged(r, lanes)
         \/ \E r \in Roots : DelaysCommit(r)
<1>. USE DEF TypeInv, DataType
<1>1. PingInv'
  BY PingStep
<1>2. CASE Unwind
  <2>1. /\ wip.root \in Roots /\ wip.lanes \in LaneSets /\ pc = "render"
        /\ Unit \in Ids
    BY <1>2, UnitIsToDo DEF Unwind, FrameInv, StackType, Stack
  <2>2. /\ wip'.root = wip.root /\ wip'.lanes = wip.lanes /\ wip'.pinged = wip.pinged
        /\ UNCHANGED pendingCommit
        /\ wip'.exit = SuspendedExit(updates[Unit].content # "root")
    BY <1>2 DEF Unwind, renderUnchanged, commitVars, StackType, Stack
  <2>3. CASE root' = root
    BY <2>3 DEF RootsStay
  <2>4. CASE root' # root
    <3>1. InShell(Unit) /\ root' = [root EXCEPT ![wip.root] = Suspend(@, wip.lanes)]
      BY <1>2, <2>4 DEF Unwind
    <3>2. wip'.exit \in {"SuspendedWithDelay", "DidNotComplete"}
      BY <2>2, <3>1 DEF SuspendedExit
    <3>3. PICK r \in Roots, lanes \in LaneSets : r = wip.root /\ lanes = wip.lanes
      BY <2>1
    <3>4. wip'.root = r /\ wip'.lanes = lanes /\ r # NoRoot
      BY <2>2, <3>3, RootsAssumption
    <3>5. Pings(r, lanes)'
      BY <1>1, <3>2, <3>4 DEF PingInv, WantsPing, Pings
    <3>. QED  BY <2>2, <3>1, <3>3, <3>5 DEF SuspendsPinged
  <2>. QED  BY <2>3, <2>4
<1>3. CASE pc = "exit" /\ (DidNotComplete \/ SuspendIndefinitely)
  <2>1. PICK r \in Roots, lanes \in LaneSets : r = attempt.root /\ lanes = attempt.lanes
    BY <1>3 DEF FrameInv, FrameType, Frame
  <2>2. /\ wip' = wip /\ root' = [root EXCEPT ![r] = Suspend(@, lanes)]
        /\ UNCHANGED <<listeners, ready, pendingCommit>>
        /\ wip.exit \in {"SuspendedWithDelay", "DidNotComplete"}
    BY <1>3, <2>1 DEF DidNotComplete, SuspendIndefinitely, SuspendRoot,
       SuspendsIndefinitely, finishUnchanged, listenerVars, commitVars
  <2>3. Pings(r, lanes)
    BY <1>3, <2>1, <2>2 DEF PingInv, WantsPing
  <2>. QED  BY <2>1, <2>2, <2>3 DEF SuspendsPinged, Pings, Listens
<1>4. CASE pc = "exit" /\ (ThrottleRetries \/ SuspendCommit)
  <2>1. PICK r \in Roots, lanes \in LaneSets : r = attempt.root /\ lanes = attempt.lanes
    BY <1>4 DEF FrameInv, FrameType, Frame
  <2>2. /\ wip' = wip /\ wip.root = NoRoot
        /\ root' = [root EXCEPT ![r] = Suspend(@, lanes)]
        /\ finished'[r].lanes = lanes
        /\ \A q \in Roots : q # r => pendingCommit'[q] = pendingCommit[q]
    BY <1>4, <2>1 DEF ThrottleRetries, SuspendCommit, SuspendRoot, FinishedTree,
       finishUnchanged, CommitType, FrameInv
  <2>3. CASE SuspendCommit
    BY <2>1, <2>2, <2>3 DEF SuspendCommit, DelaysCommit, CommitType
  <2>4. CASE ThrottleRetries
    <3>1. lanes \subseteq RetryLanes
      BY <2>1, <2>4 DEF ThrottleRetries, Throttles
    <3>2. pendingCommit'[r] = "throttled" \/ GetNextLanes(root'[r], {}) # {}
      BY <2>1, <2>4 DEF ThrottleRetries, CommitType
    <3>3. NextLanes(r)' = GetNextLanes(root'[r], {})
      BY <2>2, RootsAssumption DEF NextLanes
    <3>. QED  BY <2>1, <2>2, <3>1, <3>2, <3>3 DEF DelaysCommit
  <2>. QED  BY <1>4, <2>3, <2>4
<1>5. ASSUME NEW r \in Roots, TimeoutThenSuspendCommit(r) PROVE DelaysCommit(r)
  BY <1>5 DEF TimeoutThenSuspendCommit, DelaysCommit, CommitType
<1>6. ASSUME NEW r \in Roots, NEW lanes, SuspendsRoot(r, lanes)
      PROVE  \/ Unwind \/ TimeoutThenSuspendCommit(r)
             \/ pc = "exit" /\ (DidNotComplete \/ FinishesTree)
  BY <1>6 DEF SuspendsRoot
<1>. QED  BY <1>2, <1>3, <1>4, <1>5, <1>6, RootKinds DEF FinishesTree

-----------------------------------------------------------------------------
DataLanes == NonIdleLanes \ RetryLanes

(* If the host does not delay commits, every lane that is suspended and    *)
(* not pinged waits for data that will ping it; but for retries, which may *)
(* wait for the throttle.                                                  *)
WakeInv ==
  ~environment.suspendsCommits =>
    \A r \in Roots :
      \A lane \in (root[r].suspendedLanes \ root[r].pingedLanes) \cap DataLanes :
        PingsLane(r, lane)

(* The environment is for ever, and only events and layout effects         *)
(* schedule updates.                                                       *)
LEMMA EnvironmentStays ==
  ASSUME [Next]_vars
  PROVE  /\ environment' = environment
         /\ updates' = updates \/ EventUpdate \/ LayoutUpdate
<1>1. CASE Render \/ Yield
  BY <1>1 DEF Render, SkipUnit, RenderUnit, UnitThrows, UnitSuspends, Replay,
     WaitForData, YieldToMicrotasks, Unwind, CompleteRender, Yield, renderUnchanged,
     screenVars
<1>2. CASE Exit
  BY <1>2 DEF Exit, RenderTornTree, RetryAfterError, SuspendRecovery, DidNotComplete,
     SuspendIndefinitely, ThrottleRetries, SuspendCommit, CommitSync,
     CommitConcurrent, CommitRoot, finishUnchanged, screenVars
<1>3. CASE EventUpdate \/ LayoutUpdate
  BY <1>3 DEF EventUpdate, LayoutUpdate, Update
<1>4. CASE \/ ProcessRootSchedule \/ FlushSync \/ YieldToHost \/ FlushDone
           \/ CommitDone \/ CommitThrows \/ EndTask \/ ThrottlePasses
           \/ Ping \/ Continue \/ Retry
  BY <1>4 DEF ProcessRootSchedule, FlushSync, YieldToHost, FlushDone, CommitDone,
     CommitThrows, EndTask, ThrottlePasses, Ping, Continue, Retry, listenerUnchanged, screenVars
<1>5. ASSUME NEW r \in Roots,
             \/ \E node \in tasks[r] : StartTask(r, node) \/ StartTaskWithoutLanes(r, node)
             \/ FlushRoot(r) \/ TimeoutThenSuspendCommit(r) \/ CommitDelayed(r)
             \/ \E lane \in LanesInUse : LaneExpires(r, lane)
      PROVE  environment' = environment /\ updates' = updates
  BY <1>5 DEF StartTask, StartTaskWithoutLanes, FlushRoot, TimeoutThenSuspendCommit,
     CommitDelayed, CommitRoot, LaneExpires, screenVars
<1>6. ASSUME NEW id, Resolve(id) PROVE environment' = environment /\ updates' = updates
  BY <1>6 DEF Resolve
<1>7. CASE UNCHANGED vars
  BY <1>7 DEF vars, screenVars
<1>. QED  BY <1>1, <1>2, <1>3, <1>4, <1>5, <1>6, <1>7 DEF Next, Run

(* An update suspends again what the render that it interrupts has to      *)
(* suspend, and nothing else.                                              *)
LEMMA UpdatedLanes ==
  ASSUME TypeInv, NEW r \in Roots, NEW eventLane \in LanesInUse,
         NEW content \in Contents, Update(r, eventLane, content)
  PROVE  \E lane \in LanesInUse :
           /\ root'[r].pendingLanes = root[r].pendingLanes \cup {lane}
           /\ lane # IdleLane => lane \notin root'[r].suspendedLanes
           /\ root'[r].suspendedLanes \ root'[r].pingedLanes \subseteq
                (root[r].suspendedLanes \ root[r].pingedLanes)
                  \cup {l \in wip.lanes \ wip.pinged :
                          wip.root = r /\ wip.exit = "SuspendedWithDelay"}
           /\ \A q \in Roots : q # r => /\ root'[q] = root[q]
                                        /\ pendingCommit'[q] = pendingCommit[q]
<1>. USE DEF TypeInv, DataType
<1>1. PICK lane \in LanesInUse, new \in Nat :
        ScheduleUpdateOnFiber(r, lane, [id |-> new, lane |-> lane])
  BY UpdateStep DEF Queues
<1>. DEFINE updated == MarkRootUpdated(root[r], lane)
            rest == wip.lanes \ (wip.pinged \cup wip.interleaved \cup {lane})
<1>2. \/ root' = [root EXCEPT ![r] = updated]
      \/ /\ wip.root = r /\ wip.exit = "SuspendedWithDelay"
         /\ root' = [root EXCEPT ![r] = MarkRootSuspended(updated, rest)]
  <2>1. wip.lanes \ (wip.pinged \cup [wip EXCEPT !.interleaved = @ \cup {lane}].interleaved)
          = rest
    BY DEF StackType, Stack
  <2>. HIDE DEF rest
  <2>. QED  BY <1>1, <2>1 DEF ScheduleUpdateOnFiber
<1>3. /\ updated.pendingLanes = root[r].pendingLanes \cup {lane}
      /\ updated.suspendedLanes = IF lane = IdleLane THEN root[r].suspendedLanes ELSE {}
      /\ updated.pingedLanes = IF lane = IdleLane THEN root[r].pingedLanes ELSE {}
  BY DEF MarkRootUpdated, RootType, RootRecord
<1>4. updated \in RootRecord(LanesInUse)
  BY MarkRootUpdatedType DEF RootType
<1>. HIDE DEF updated
<1>5. LET s == MarkRootSuspended(updated, rest)
      IN  /\ s.pendingLanes = updated.pendingLanes
          /\ s.suspendedLanes = updated.suspendedLanes \cup rest
          /\ s.pingedLanes = updated.pingedLanes \ rest
  BY <1>4 DEF MarkRootSuspended, RootRecord
<1>6. \A q \in Roots : q # r => root'[q] = root[q]
  BY <1>2 DEF RootType
<1>7. \A q \in Roots : q # r => pendingCommit'[q] = pendingCommit[q]
  BY <1>1 DEF ScheduleUpdateOnFiber, CommitType
<1>8. \/ root'[r] = updated
      \/ /\ wip.root = r /\ wip.exit = "SuspendedWithDelay"
         /\ root'[r] = MarkRootSuspended(updated, rest)
  BY <1>2 DEF RootType
<1>9. /\ root'[r].pendingLanes = root[r].pendingLanes \cup {lane}
      /\ lane # IdleLane => lane \notin root'[r].suspendedLanes
      /\ root'[r].suspendedLanes \ root'[r].pingedLanes \subseteq
           (root[r].suspendedLanes \ root[r].pingedLanes)
             \cup {l \in wip.lanes \ wip.pinged :
                     wip.root = r /\ wip.exit = "SuspendedWithDelay"}
  BY <1>3, <1>5, <1>8
<1>. QED  BY <1>6, <1>7, <1>9

(* What the other steps do to the lanes of a root.                         *)
LEMMA CommittedLanes ==
  ASSUME TypeInv, Commits
  PROVE  \E r \in Roots : /\ root'[r].suspendedLanes = {}
                          /\ \A q \in Roots : q # r =>
                               /\ root'[q] = root[q]
                               /\ pendingCommit'[q] = pendingCommit[q]
<1>1. PICK r \in Roots, tree \in Tree : CommitRoot(r, tree)
  BY CommitsAre
<1>. QED
  BY <1>1 DEF CommitRoot, MarkRootFinished, TypeInv, DataType, RootType, RootRecord,
     CommitType

LEMMA RetriedLanes ==
  ASSUME TypeInv, Retry
  PROVE  /\ pendingCommit' = pendingCommit
         /\ \E r \in Roots : /\ root'[r].suspendedLanes = {}
                             /\ nextRetryLane \in root'[r].pendingLanes
                             /\ root'[r].pendingLanes =
                                  root[r].pendingLanes \cup {nextRetryLane}
                             /\ \A q \in Roots : q # r => root'[q] = root[q]
<1>. USE DEF TypeInv, DataType
<1>1. Head(ready).root \in Roots
  BY TakeListener DEF Listener
<1>2. PICK r \in Roots : r = Head(ready).root
  BY <1>1
<1>3. nextRetryLane # IdleLane
  BY LanesAssumption DEF ClaimType, RetryLanes, IdleLane
<1>4. root' = [root EXCEPT ![r] = MarkRootUpdated(@, nextRetryLane)]
  BY <1>2 DEF Retry
<1>5. pendingCommit' = pendingCommit
  BY DEF Retry, commitVars
<1>. QED  BY <1>3, <1>4, <1>5 DEF MarkRootUpdated, RootType, RootRecord

LEMMA ScheduledLanes ==
  ASSUME TypeInv, ProcessRootSchedule, NEW q \in Roots
  PROVE  /\ root'[q].suspendedLanes = root[q].suspendedLanes
         /\ root'[q].pingedLanes = root[q].pingedLanes
         /\ root[q].pendingLanes \subseteq root'[q].pendingLanes
         /\ root'[q].pendingLanes \subseteq root[q].pendingLanes \cup {SyncLane}
         /\ pendingCommit' = pendingCommit
<1>. USE DEF TypeInv, DataType
<1>1. ASSUME NEW rec \in RootRecord(LanesInUse), MayUpgrade(q, rec), Processes(q, rec)
      PROVE  /\ root'[q].suspendedLanes = root[q].suspendedLanes
             /\ root'[q].pingedLanes = root[q].pingedLanes
             /\ root[q].pendingLanes \subseteq root'[q].pendingLanes
             /\ root'[q].pendingLanes \subseteq root[q].pendingLanes \cup {SyncLane}
  <2>1. root'[q] = MarkStarvedLanesAsExpired(rec)
    BY <1>1, ScheduleTaskDecides DEF Processes
  <2>2. /\ rec.suspendedLanes = root[q].suspendedLanes
        /\ rec.pingedLanes = root[q].pingedLanes
        /\ rec.pendingLanes \in {root[q].pendingLanes, root[q].pendingLanes \cup {SyncLane}}
    BY <1>1, UpgradeAddsSyncLane DEF MayUpgrade, RootType
  <2>. QED  BY <2>1, <2>2, MarkStarvedKeepsNextLanes
<1>2. pendingCommit' = pendingCommit
  BY DEF ProcessRootSchedule, commitVars
<1>. QED  BY <1>1, <1>2, ProcessKinds

LEMMA PingedLanes ==
  ASSUME TypeInv, Ping
  PROVE  \E r \in Roots, l \in Listener :
           /\ l = Head(ready) /\ l.root = r /\ l.kind = "ping"
           /\ root'[r].pendingLanes = root[r].pendingLanes
           /\ root'[r].suspendedLanes = root[r].suspendedLanes
           /\ root'[r].pingedLanes =
                root[r].pingedLanes \cup (root[r].suspendedLanes \cap l.lanes)
           /\ \A q \in Roots : q # r => root'[q] = root[q]
<1>. USE DEF TypeInv, DataType
<1>1. PICK r \in Roots, l \in Listener : l = Head(ready) /\ l.root = r
  BY TakeListener DEF Listener
<1>2. l.kind = "ping" /\ root' = [root EXCEPT ![r] = MarkRootPinged(@, l.lanes)]
  BY <1>1 DEF Ping, Runs
<1>. QED  BY <1>1, <1>2 DEF MarkRootPinged, RootType, RootRecord

LEMMA WakeStep ==
  ASSUME TypeInv, NestInv, PingInv, WakeInv, [Next]_vars
  PROVE  WakeInv'
<1>. USE DEF TypeInv, DataType
<1>1. SUFFICES ASSUME ~environment.suspendsCommits, NEW q \in Roots, NEW lane,
                      lane \in root'[q].suspendedLanes, lane \notin root'[q].pingedLanes,
                      lane \in DataLanes
               PROVE  PingsLane(q, lane)'
  BY EnvironmentStays DEF WakeInv
<1>2. PingInv'
  BY PingStep
<1>3. ASSUME lane \in root[q].suspendedLanes, lane \notin root[q].pingedLanes,
             ~Ping
      PROVE  PingsLane(q, lane)'
  BY <1>1, <1>3, PingsLaneStays DEF WakeInv
<1>4. ASSUME NEW r \in Roots, NEW eventLane \in LanesInUse, NEW content \in Contents,
             Update(r, eventLane, content)
      PROVE  PingsLane(q, lane)'
  <2>1. UNCHANGED <<listeners, ready>>
    BY <1>4 DEF Update, listenerVars
  <2>2. PingsLane(q, lane) => PingsLane(q, lane)'
    BY <2>1 DEF PingsLane, Listens
  <2>3. \/ lane \in root[q].suspendedLanes /\ lane \notin root[q].pingedLanes
        \/ /\ lane \in wip.lanes \ wip.pinged /\ wip.root = q
           /\ wip.exit = "SuspendedWithDelay"
    BY <1>1, <1>4, UpdatedLanes
  <2>4. CASE lane \in root[q].suspendedLanes /\ lane \notin root[q].pingedLanes
    BY <1>1, <2>2, <2>4 DEF WakeInv
  <2>5. CASE /\ lane \in wip.lanes \ wip.pinged /\ wip.root = q
             /\ wip.exit = "SuspendedWithDelay"
    <3>1. Pings(wip.root, wip.lanes)
      BY <2>5, RootsAssumption DEF PingInv, WantsPing
    <3>. QED  BY <2>2, <2>5, <3>1 DEF Pings, PingsLane
  <2>. QED  BY <2>3, <2>4, <2>5
<1>5. CASE Commits
  <2>1. ~Ping
    BY <1>5, CommitsAre, PingedLanes DEF CommitRoot, Ping, listenerUnchanged, frameVars,
       Runs
  <2>. QED  BY <1>1, <1>3, <1>5, <2>1, CommittedLanes
<1>6. CASE ProcessRootSchedule /\ ~Ping
  BY <1>1, <1>3, <1>6, ScheduledLanes
<1>7. CASE Retry /\ ~Ping
  BY <1>1, <1>3, <1>7, RetriedLanes
<1>8. CASE Ping
  <2>1. PICK r \in Roots, l \in Listener :
           /\ l = Head(ready) /\ l.root = r /\ l.kind = "ping"
           /\ root'[r].suspendedLanes = root[r].suspendedLanes
           /\ root'[r].pingedLanes =
                root[r].pingedLanes \cup (root[r].suspendedLanes \cap l.lanes)
           /\ \A p \in Roots : p # r => root'[p] = root[p]
    BY <1>8, PingedLanes
  <2>2. lane \in root[q].suspendedLanes /\ lane \notin root[q].pingedLanes
    BY <1>1, <2>1
  <2>3. PICK m : Listens(m) /\ m.kind = "ping" /\ m.root = q /\ lane \in m.lanes
    BY <1>1, <2>2 DEF WakeInv, PingsLane
  <2>4. m # Head(ready)
    BY <1>1, <2>1, <2>3
  <2>5. Listens(m)'
    BY <1>8, <2>3, <2>4, TakeListener
  <2>. QED  BY <2>3, <2>5 DEF PingsLane
<1>9. CASE RootsStay /\ ~Ping
  BY <1>1, <1>3, <1>9 DEF RootsStay
<1>10. ASSUME NEW r \in Roots, NEW lanes, SuspendsPinged(r, lanes), ~Ping
       PROVE  PingsLane(q, lane)'
  <2>1. CASE q # r
    BY <1>1, <1>3, <1>10, <2>1 DEF SuspendsPinged, RootType
  <2>2. CASE q = r /\ lane \in lanes \ wip.pinged
    BY <1>10, <2>2 DEF SuspendsPinged, Pings, PingsLane
  <2>3. CASE q = r /\ lane \notin lanes \ wip.pinged
    <3>1. root[q] \in RootRecord(LanesInUse) /\ root'[q] = Suspend(root[q], lanes)
      BY <1>10, <2>3 DEF SuspendsPinged, RootType
    <3>2. lane \in root[q].suspendedLanes /\ lane \notin root[q].pingedLanes
      BY <1>1, <2>3, <3>1, SuspendedLanes
    <3>. QED  BY <1>3, <1>10, <3>2
  <2>. QED  BY <2>1, <2>2, <2>3
<1>11. ASSUME NEW r \in Roots, DelaysCommit(r), ~Ping PROVE PingsLane(q, lane)'
  <2>1. root' = [root EXCEPT ![r] = Suspend(@, finished'[r].lanes)]
        /\ finished'[r].lanes \subseteq RetryLanes
    BY <1>1, <1>11 DEF DelaysCommit
  <2>2. CASE q # r
    BY <1>1, <1>3, <1>11, <2>1, <2>2 DEF RootType
  <2>3. CASE q = r
    <3>1. root[q] \in RootRecord(LanesInUse) /\ root'[q] = Suspend(root[q], finished'[r].lanes)
      BY <2>1, <2>3 DEF RootType
    <3>2. lane \notin finished'[r].lanes
      BY <1>1, <2>1 DEF DataLanes
    <3>3. lane \in root[q].suspendedLanes /\ lane \notin root[q].pingedLanes
      BY <1>1, <3>1, <3>2, SuspendedLanes
    <3>. QED  BY <1>3, <1>11, <3>3
  <2>. QED  BY <2>2, <2>3
<1>. QED  BY <1>4, <1>5, <1>6, <1>7, <1>8, <1>9, <1>10, <1>11, SuspendKinds

-----------------------------------------------------------------------------
(* Where the host delays commits, idle work is left out: it would have to  *)
(* wait for all the other work, also for what is suspended without data to *)
(* ping it.                                                                *)
NoIdleUpdates ==
  \A e \in Environments : e.suspendsCommits => e.eventLanes \subseteq NonIdleLanes

NoIdleInv ==
  environment.suspendsCommits =>
    /\ \A i \in Queued : i.lane \in NonIdleLanes
    /\ \A r \in Roots : root[r].pendingLanes \subseteq NonIdleLanes

(* If the host delays commits, a root with work has lanes for a render, or *)
(* its commit is coming, or data will ping some of its lanes.              *)
Meets(r) == \E lane \in root[r].suspendedLanes : PingsLane(r, lane)

AliveInv ==
  environment.suspendsCommits =>
    \A r \in Roots : root[r].pendingLanes # {} =>
      pendingCommit[r] # "no" \/ Candidates(root[r]) # {} \/ Meets(r)

LEMMA EventsUpdate ==
  ASSUME TypeInv, EventUpdate \/ LayoutUpdate
  PROVE  \E r \in Roots, eventLane \in LanesInUse, content \in Contents :
           /\ Update(r, eventLane, content)
           /\ eventLane \in environment.eventLanes \cup {SyncLane}
<1>1. environment \in Environment
  BY EnvironmentsAssumption DEF TypeInv, DataType, ProgramType
<1>2. /\ environment.roots \subseteq Roots /\ environment.eventLanes \subseteq LanesInUse
      /\ environment.contents \subseteq Contents
  BY <1>1 DEF Environment, Contents
<1>3. SyncLane \in LanesInUse
  BY LanesFacts
<1>. QED  BY <1>2, <1>3 DEF EventUpdate, LayoutUpdate

LEMMA NonIdleUpdate ==
  ASSUME TypeInv, NoIdleUpdates, NoIdleInv, environment.suspendsCommits,
         EventUpdate \/ LayoutUpdate
  PROVE  NoIdleInv'
<1>. USE DEF TypeInv, DataType
<1>1. environment.eventLanes \cup {SyncLane} \subseteq NonIdleLanes
  <2>1. SyncLane \in NonIdleLanes
    BY DEF SyncLane, NonIdleLanes
  <2>2. environment \in Environments
    BY DEF ProgramType
  <2>. QED  BY <2>1, <2>2 DEF NoIdleUpdates
<1>2. PICK r \in Roots, eventLane \in LanesInUse, content \in Contents :
        Update(r, eventLane, content) /\ eventLane \in NonIdleLanes
  BY <1>1, EventsUpdate
<1>3. PICK lane \in LanesInUse, new \in Nat : Queues(r, eventLane, content, lane, new)
  BY <1>2, UpdateStep
<1>4. lane \in NonIdleLanes
  <2>1. 7..LastTransitionLane \subseteq NonIdleLanes
    BY LanesAssumption DEF TransitionLanes, NonIdleLanes
  <2>2. lane # NoLane
    BY LanesFacts
  <2>. QED
    BY <1>2, <1>3, <2>1, <2>2 DEF Queues, RequestUpdateLane, ClaimType
<1>5. Queued' = Queued \cup {[id |-> new, lane |-> lane]}
  BY <1>3 DEF Queues
<1>6. \A q \in Roots : root'[q].pendingLanes \subseteq root[q].pendingLanes \cup {lane}
  <2>1. ScheduleUpdateOnFiber(r, lane, [id |-> new, lane |-> lane])
    BY <1>3 DEF Queues
  <2>. DEFINE updated == MarkRootUpdated(root[r], lane)
  <2>2. updated \in RootRecord(LanesInUse)
    BY MarkRootUpdatedType DEF RootType
  <2>3. updated.pendingLanes = root[r].pendingLanes \cup {lane}
    BY DEF MarkRootUpdated, RootType, RootRecord
  <2>4. \A lanes : MarkRootSuspended(updated, lanes).pendingLanes = updated.pendingLanes
    BY <2>2, SuspendKeepsPending
  <2>. HIDE DEF updated
  <2>5. root'[r].pendingLanes = updated.pendingLanes
    BY <2>1, <2>4 DEF ScheduleUpdateOnFiber, RootType, updated
  <2>6. \A q \in Roots : q # r => root'[q] = root[q]
    BY <2>1 DEF ScheduleUpdateOnFiber, RootType
  <2>. QED  BY <2>3, <2>5, <2>6
<1>. QED  BY <1>4, <1>5, <1>6 DEF NoIdleInv

LEMMA NoIdleStep ==
  ASSUME TypeInv, NestInv, PingInv, NoIdleUpdates, NoIdleInv, [Next]_vars
  PROVE  NoIdleInv'
<1>. USE DEF TypeInv, DataType
<1>1. SUFFICES ASSUME environment.suspendsCommits PROVE NoIdleInv'
  BY EnvironmentStays DEF NoIdleInv
<1>2. CASE EventUpdate \/ LayoutUpdate
  BY <1>1, <1>2, NonIdleUpdate
<1>3. CASE Commits
  <2>1. PICK r \in Roots, tree \in Tree : CommitRoot(r, tree)
    BY <1>3, CommitsAre
  <2>2. Queued' \subseteq Queued
    BY <2>1 DEF CommitRoot, Queued
  <2>3. RemainingLanes(r, tree) \subseteq NonIdleLanes
    BY <1>1 DEF RemainingLanes, LanesOf, WorkOf, Queued, NoIdleInv
  <2>4. root'[r].pendingLanes = RemainingLanes(r, tree)
    BY <2>1 DEF CommitRoot, MarkRootFinished, RootType, RootRecord
  <2>5. \A q \in Roots : q # r => root'[q] = root[q]
    BY <2>1 DEF CommitRoot, RootType
  <2>. QED  BY <1>1, <2>2, <2>3, <2>4, <2>5 DEF NoIdleInv
<1>4. CASE Retry
  <2>1. nextRetryLane \in NonIdleLanes
    BY LanesAssumption DEF ClaimType, RetryLanes, NonIdleLanes
  <2>2. \A i \in Queued' : i \in Queued \/ i.lane = nextRetryLane
    BY <1>4 DEF Retry, Queued
  <2>3. \A q \in Roots :
          root'[q].pendingLanes \subseteq root[q].pendingLanes \cup {nextRetryLane}
    BY <1>4, RetriedLanes
  <2>. QED  BY <1>1, <2>1, <2>2, <2>3 DEF NoIdleInv
<1>5. ASSUME NEW r \in Roots, NEW eventLane \in LanesInUse, NEW content \in Contents,
             Update(r, eventLane, content)
      PROVE  EventUpdate \/ LayoutUpdate
  <2>1. updates' # updates
    BY <1>5, UpdateStep DEF Queues, Ids
  <2>. QED  BY <2>1, EnvironmentStays
<1>6. ASSUME QueuesStay, ~Commits, ~Retry, ~EventUpdate, ~LayoutUpdate
      PROVE  NoIdleInv'
  <2>1. Queued' = Queued
    BY <1>6 DEF QueuesStay
  <2>2. \A q \in Roots : root'[q].pendingLanes \subseteq root[q].pendingLanes \cup {SyncLane}
    <3>1. CASE ProcessRootSchedule
      BY <3>1, ScheduledLanes
    <3>2. CASE Ping
      BY <3>2, PingedLanes
    <3>3. CASE RootsStay
      BY <3>3 DEF RootsStay
    <3>4. ASSUME NEW r \in Roots, NEW lanes, root' = [root EXCEPT ![r] = Suspend(@, lanes)]
          PROVE  \A q \in Roots : root'[q].pendingLanes = root[q].pendingLanes
      BY <3>4, SuspendedLanes DEF RootType
    <3>. QED
      BY <1>5, <1>6, <3>1, <3>2, <3>3, <3>4, SuspendKinds DEF SuspendsPinged, DelaysCommit
  <2>3. SyncLane \in NonIdleLanes
    BY DEF SyncLane, NonIdleLanes
  <2>. QED  BY <1>1, <2>1, <2>2, <2>3 DEF NoIdleInv
<1>. QED  BY <1>2, <1>3, <1>4, <1>5, <1>6, StepKinds DEF Commits

(* A delayed commit that is cancelled gives way to rendered lanes.         *)
LEMMA CancelKinds ==
  ASSUME TypeInv, NestInv, [Next]_vars, NEW q \in Roots,
         pendingCommit[q] # "no", pendingCommit'[q] = "no"
  PROVE  \/ Commits \/ EventUpdate \/ LayoutUpdate
         \/ NextLanes(q) # {}
<1>. USE DEF TypeInv, DataType
<1>1. SUFFICES ASSUME ~UNCHANGED pendingCommit
               PROVE  \/ Commits \/ EventUpdate \/ LayoutUpdate \/ NextLanes(q) # {}
  OBVIOUS
<1>2. ASSUME NEW r \in Roots, NEW lanes, RenderRoot(r, lanes)
      PROVE  r = q
  BY <1>1, <1>2 DEF RenderRoot, PrepareFreshStack, CommitType
<1>3. CASE Render \/ Yield \/ SuspendRecovery
  BY <1>1, <1>3, RenderKeepsRoot
<1>4. CASE RenderTornTree \/ RetryAfterError
  <2>1. pc = "exit" /\ attempt.root \in Roots
    BY <1>4 DEF RenderTornTree, RetryAfterError, FrameInv
  <2>2. attempt.root # q
    BY <2>1 DEF NestInv
  <2>. QED  BY <1>2, <1>4, <2>1, <2>2 DEF RenderTornTree, RetryAfterError
<1>5. CASE DidNotComplete \/ FinishesTree
  <2>1. attempt.root \in Roots
    BY <1>5 DEF DidNotComplete, FinishesTree, SuspendIndefinitely, ThrottleRetries,
       SuspendCommit, FinishesConcurrent, Exits, FrameInv
  <2>2. \/ UNCHANGED pendingCommit
        \/ \E c \in {"throttled", "host"} :
             pendingCommit' = [pendingCommit EXCEPT ![attempt.root] = c]
    BY <1>5 DEF DidNotComplete, FinishesTree, SuspendIndefinitely, ThrottleRetries,
       SuspendCommit, commitVars
  <2>. QED  BY <1>1, <2>1, <2>2 DEF CommitType
<1>6. CASE \/ ProcessRootSchedule \/ FlushSync \/ YieldToHost \/ FlushDone
           \/ CommitDone \/ CommitThrows \/ EndTask \/ ThrottlePasses
           \/ Continue \/ Retry
  BY <1>1, <1>6 DEF ProcessRootSchedule, FlushSync, YieldToHost, FlushDone, CommitDone,
     CommitThrows, EndTask, ThrottlePasses, Continue, Retry, commitVars
<1>7. CASE Ping
  <2>1. PICK r \in Roots : r = Head(ready).root
    BY <1>7, TakeListener DEF Listener
  <2>2. PrepareFreshStack(r, {}) /\ wip.root = r
    BY <1>1, <1>7, <2>1 DEF Ping
  <2>3. r = q
    BY <2>2 DEF PrepareFreshStack, CommitType
  <2>. QED  BY <2>2, <2>3 DEF NestInv
<1>8. ASSUME NEW r \in Roots,
             (\E node \in tasks[r] : StartTask(r, node)) \/ FlushRoot(r)
      PROVE  NextLanes(q) # {}
  <2>1. r = q
    BY <1>2, <1>8 DEF StartTask, FlushRoot
  <2>. QED  BY <1>8, <2>1 DEF StartTask, FlushRoot
<1>9. ASSUME NEW r \in Roots,
             \/ \E node \in tasks[r] : StartTaskWithoutLanes(r, node)
             \/ \E lane \in LanesInUse : LaneExpires(r, lane)
      PROVE  FALSE
  BY <1>1, <1>9 DEF StartTaskWithoutLanes, LaneExpires, commitVars
<1>10. ASSUME NEW r \in Roots, TimeoutThenSuspendCommit(r) PROVE FALSE
  BY <1>10 DEF TimeoutThenSuspendCommit, CommitType
<1>11. ASSUME NEW id, Resolve(id) PROVE FALSE
  BY <1>1, <1>11 DEF Resolve, commitVars
<1>12. CASE UNCHANGED vars
  BY <1>1, <1>12 DEF vars, commitVars
<1>. QED
  BY <1>3, <1>4, <1>5, <1>6, <1>7, <1>8, <1>9, <1>10, <1>11, <1>12
  DEF Next, Run, Exit, FinishesTree, Commits, CommitsOnExit

(* Without idle work, lanes that are not suspended, or are pinged, are     *)
(* candidates.                                                             *)
LEMMA OpenLanes ==
  ASSUME NEW rec, rec.pendingLanes \subseteq NonIdleLanes, NEW lane \in rec.pendingLanes,
         lane \notin rec.suspendedLanes \/ lane \in rec.pingedLanes
  PROVE  Candidates(rec) # {}
<1>1. rec.pendingLanes \cap NonIdleLanes = rec.pendingLanes
  OBVIOUS
<1>. QED  BY <1>1 DEF Candidates

LEMMA CandidatesOpen ==
  ASSUME NEW rec, Nested(rec), rec.pendingLanes \subseteq NonIdleLanes,
         Candidates(rec) # {}
  PROVE  \E lane \in rec.pendingLanes :
           lane \notin rec.suspendedLanes \/ lane \in rec.pingedLanes
BY DEF Candidates, Nested

LEMMA NextLanesOpen ==
  ASSUME TypeInv, NEW r \in Roots
  PROVE  NextLanes(r) = {} <=> Candidates(root[r]) = {}
<1>1. Candidates(root[r]) \subseteq SyncLane..IdleLane
  BY LanesFacts, CandidatesType DEF TypeInv, DataType, RootType
<1>. QED  BY <1>1, NextLanesAreUrgent DEF NextLanes

Alive(r) == pendingCommit[r] # "no" \/ Candidates(root[r]) # {} \/ Meets(r)

LEMMA AliveStep ==
  ASSUME TypeInv, NestInv, PingInv, NoIdleInv, AliveInv, NoIdleInv', [Next]_vars
  PROVE  AliveInv'
<1>. USE DEF TypeInv, DataType
<1>1. SUFFICES ASSUME environment.suspendsCommits, NEW q \in Roots,
                      root'[q].pendingLanes # {}
               PROVE  Alive(q)'
  BY EnvironmentStays DEF AliveInv, Alive
<1>2. /\ root[q].pendingLanes \subseteq NonIdleLanes
      /\ root'[q].pendingLanes \subseteq NonIdleLanes
      /\ Nested(root[q]) /\ Nested(root'[q])
  BY <1>1, EnvironmentStays, NestedStep DEF NoIdleInv, NestInv
<1>3. root[q].pendingLanes # {} => Alive(q)
  BY <1>1 DEF AliveInv, Alive
<1>4. ASSUME NEW lane \in root'[q].pendingLanes,
             lane \notin root'[q].suspendedLanes \/ lane \in root'[q].pingedLanes
      PROVE  Alive(q)'
  <2>1. Candidates(root'[q]) # {}
    BY <1>2, <1>4, OpenLanes
  <2>. QED  BY <2>1 DEF Alive
<1>5. ASSUME ~Ping, root[q].pendingLanes # {},
             root[q].pendingLanes \subseteq root'[q].pendingLanes,
             root'[q].suspendedLanes = root[q].suspendedLanes,
             root'[q].pingedLanes = root[q].pingedLanes,
             pendingCommit[q] # "no" =>
               pendingCommit'[q] # "no" \/ Candidates(root[q]) # {}
      PROVE  Alive(q)'
  <2>1. pendingCommit'[q] # "no" \/ Candidates(root[q]) # {} \/ Meets(q)
    BY <1>3, <1>5 DEF Alive
  <2>2. Meets(q) => Meets(q)'
    BY <1>5, PingsLaneStays DEF Meets
  <2>3. Candidates(root[q]) # {} => Alive(q)'
    BY <1>2, <1>4, <1>5, CandidatesOpen
  <2>. QED  BY <2>1, <2>2, <2>3 DEF Alive
<1>6. ASSUME ~Ping, root'[q] = root[q], pendingCommit'[q] = pendingCommit[q]
      PROVE  Alive(q)'
  BY <1>1, <1>5, <1>6
<1>7. ASSUME NEW r \in Roots, NEW eventLane \in LanesInUse, NEW content \in Contents,
             Update(r, eventLane, content)
      PROVE  Alive(q)'
  <2>1. PICK lane \in LanesInUse :
           /\ root'[r].pendingLanes = root[r].pendingLanes \cup {lane}
           /\ lane # IdleLane => lane \notin root'[r].suspendedLanes
           /\ \A p \in Roots : p # r => /\ root'[p] = root[p]
                                        /\ pendingCommit'[p] = pendingCommit[p]
    BY <1>7, UpdatedLanes
  <2>2. CASE q = r
    <3>1. lane # IdleLane
      BY <1>2, <2>1, <2>2 DEF IdleLane, NonIdleLanes
    <3>. QED  BY <1>4, <2>1, <2>2, <3>1
  <2>3. CASE q # r
    <3>1. root'[q] = root[q] /\ pendingCommit'[q] = pendingCommit[q]
      BY <2>1, <2>3
    <3>2. Meets(q) => Meets(q)'
      BY <1>7, <3>1 DEF Update, listenerVars, Meets, PingsLane, Listens
    <3>. QED  BY <1>1, <1>3, <3>1, <3>2 DEF Alive
  <2>. QED  BY <2>2, <2>3
<1>8. CASE Commits
  <2>1. ~Ping
    BY <1>8, CommitsAre DEF CommitRoot, Ping, listenerUnchanged, frameVars, Runs
  <2>2. PICK r \in Roots : /\ root'[r].suspendedLanes = {}
                           /\ \A p \in Roots : p # r =>
                                /\ root'[p] = root[p]
                                /\ pendingCommit'[p] = pendingCommit[p]
    BY <1>8, CommittedLanes
  <2>3. CASE q = r
    BY <1>1, <1>4, <2>2, <2>3
  <2>. QED  BY <1>6, <2>1, <2>2, <2>3
<1>9. CASE ProcessRootSchedule /\ ~Ping
  <2>1. /\ root'[q].suspendedLanes = root[q].suspendedLanes
        /\ root'[q].pingedLanes = root[q].pingedLanes
        /\ root[q].pendingLanes \subseteq root'[q].pendingLanes
        /\ pendingCommit' = pendingCommit
    BY <1>9, ScheduledLanes
  <2>2. CASE root[q].pendingLanes = {}
    BY <1>1, <1>2, <1>4, <2>1, <2>2 DEF Nested
  <2>. QED  BY <1>5, <1>9, <2>1, <2>2
<1>10. CASE Retry /\ ~Ping
  <2>1. PICK r \in Roots : /\ root'[r].suspendedLanes = {}
                           /\ \A p \in Roots : p # r => root'[p] = root[p]
    BY <1>10, RetriedLanes
  <2>2. pendingCommit' = pendingCommit
    BY <1>10, RetriedLanes
  <2>3. CASE q = r
    BY <1>1, <1>4, <2>1, <2>3
  <2>. QED  BY <1>6, <1>10, <2>1, <2>2, <2>3
<1>11. CASE Ping
  <2>1. PICK r \in Roots, l \in Listener :
           /\ l = Head(ready) /\ l.root = r /\ l.kind = "ping"
           /\ root'[r].pendingLanes = root[r].pendingLanes
           /\ root'[r].suspendedLanes = root[r].suspendedLanes
           /\ root'[r].pingedLanes =
                root[r].pingedLanes \cup (root[r].suspendedLanes \cap l.lanes)
           /\ \A p \in Roots : p # r => root'[p] = root[p]
    BY <1>11, PingedLanes
  <2>2. /\ root'[q].pendingLanes = root[q].pendingLanes
        /\ root'[q].suspendedLanes = root[q].suspendedLanes
        /\ root[q].pingedLanes \subseteq root'[q].pingedLanes
    BY <2>1
  <2>3. pendingCommit[q] # "no" => pendingCommit'[q] # "no"
    <3>1. \/ UNCHANGED pendingCommit
          \/ wip.root = r /\ PrepareFreshStack(r, {})
      BY <1>11, <2>1 DEF Ping
    <3>2. CASE wip.root = r /\ PrepareFreshStack(r, {})
      BY <2>1, <3>2 DEF PrepareFreshStack, CommitType, NestInv
    <3>. QED  BY <3>1, <3>2
  <2>4. CASE Candidates(root[q]) # {}
    BY <1>2, <1>4, <2>2, <2>4, CandidatesOpen
  <2>5. ASSUME NEW lane \in root[q].suspendedLanes, PingsLane(q, lane)
        PROVE  Alive(q)'
    <3>1. PICK m : Listens(m) /\ m.kind = "ping" /\ m.root = q /\ lane \in m.lanes
      BY <2>5 DEF PingsLane
    <3>2. CASE m = l
      <4>1. lane \in root'[q].pingedLanes /\ lane \in root'[q].pendingLanes
        BY <1>2, <2>1, <2>5, <3>1, <3>2 DEF Nested
      <4>. QED  BY <1>4, <4>1
    <3>3. CASE m # l
      <4>1. Listens(m)'
        BY <1>11, <2>1, <3>1, <3>3, TakeListener
      <4>. QED  BY <2>2, <2>5, <3>1, <4>1 DEF Alive, Meets, PingsLane
    <3>. QED  BY <3>2, <3>3
  <2>. QED  BY <1>1, <1>3, <2>2, <2>3, <2>4, <2>5 DEF Alive, Meets
<1>12. CASE RootsStay /\ ~Ping /\ ~Commits /\ ~EventUpdate /\ ~LayoutUpdate
  <2>1. pendingCommit[q] # "no" => pendingCommit'[q] # "no" \/ Candidates(root[q]) # {}
    BY <1>12, CancelKinds, NextLanesOpen
  <2>. QED  BY <1>1, <1>5, <1>12, <2>1 DEF RootsStay
<1>13. ASSUME NEW r \in Roots, NEW lanes, SuspendsPinged(r, lanes), ~Ping
       PROVE  Alive(q)'
  <2>1. CASE q # r
    BY <1>6, <1>13, <2>1 DEF SuspendsPinged, RootType
  <2>2. CASE q = r
    <3>. DEFINE new == lanes \ (wip.pinged \cup wip.interleaved)
    <3>1. root[q] \in RootRecord(LanesInUse) /\ root'[q] = Suspend(root[q], lanes)
      BY <1>13, <2>2 DEF SuspendsPinged, RootType
    <3>2. /\ root'[q].pendingLanes = root[q].pendingLanes
          /\ root'[q].suspendedLanes = root[q].suspendedLanes \cup new
          /\ root'[q].pingedLanes = root[q].pingedLanes \ new
      BY <3>1, SuspendedLanes
    <3>3. CASE new = {}
      BY <1>1, <1>5, <1>13, <3>2, <3>3 DEF SuspendsPinged
    <3>4. CASE new # {}
      <4>1. PICK lane : lane \in new
        BY <3>4
      <4>2. lane \in lanes /\ lane \notin wip'.pinged
        BY <1>13, <4>1 DEF SuspendsPinged
      <4>3. PingsLane(q, lane)'
        BY <1>13, <2>2, <4>2 DEF SuspendsPinged, Pings, PingsLane
      <4>. QED  BY <3>2, <4>1, <4>3 DEF Alive, Meets
    <3>. QED  BY <3>3, <3>4
  <2>. QED  BY <2>1, <2>2
<1>14. ASSUME NEW r \in Roots, DelaysCommit(r), ~Ping
       PROVE  Alive(q)'
  <2>1. CASE q # r
    BY <1>6, <1>14, <2>1 DEF DelaysCommit, RootType
  <2>2. CASE q = r
    <3>1. pendingCommit'[q] # "no" \/ NextLanes(q)' # {}
      BY <1>14, <2>2 DEF DelaysCommit
    <3>2. NextLanes(q)' # {} => Candidates(root'[q]) # {}
      <4>1. TypeInv'
        BY TypeStep
      <4>2. Candidates(root'[q]) \subseteq SyncLane..IdleLane
        BY <4>1, LanesFacts, CandidatesType DEF RootType
      <4>. QED  BY <4>2, NextLanesAreUrgent DEF NextLanes
    <3>. QED  BY <3>1, <3>2 DEF Alive
  <2>. QED  BY <2>1, <2>2
<1>. QED
  BY <1>7, <1>8, <1>9, <1>10, <1>11, <1>12, <1>13, <1>14, EventsUpdate, SuspendKinds

-----------------------------------------------------------------------------
WakeInvs == PingInv /\ DataInv /\ WakeInv /\ NoIdleInv /\ AliveInv

LEMMA SuspendedWakesUp ==
  ASSUME TypeInv, NestInv, WakeInvs
  PROVE  SuspendedWorkWakesUp
<1>. USE DEF TypeInv, DataType
<1>1. SUFFICES ASSUME Quiescent, NEW r \in Roots
               PROVE  /\ SuspendedOnData(r) =>
                           Wakes([kind |-> "continue", id |-> Unit, root |-> r,
                                  lanes |-> {}])
                      /\ NextLanes(r) = {} =>
                           \A lane \in root[r].pendingLanes \cap DataLanes :
                             HasWakeUp(r, lane)
  BY DEF SuspendedWorkWakesUp, DataLanes
<1>2. ASSUME SuspendedOnData(r)
      PROVE  Wakes([kind |-> "continue", id |-> Unit, root |-> r, lanes |-> {}])
  BY <1>1, <1>2, RootsAssumption
  DEF SuspendedOnData, WakeInvs, DataInv, DataListener, Quiescent
<1>3. ASSUME NextLanes(r) = {}, NEW lane \in root[r].pendingLanes, lane \in DataLanes
      PROVE  HasWakeUp(r, lane)
  <2>1. Range(ready) = {}
    BY <1>1 DEF Quiescent, Range
  <2>2. \A l : Listens(l) => l \in UNION {Range(listeners[id]) : id \in UpdateIds}
    BY <2>1 DEF Listens
  <2>3. Candidates(root[r]) = {}
    BY <1>3, NextLanesOpen
  <2>4. lane \in root[r].suspendedLanes /\ lane \notin root[r].pingedLanes
    BY <1>3, <2>3 DEF Candidates, DataLanes
  <2>5. CASE ~environment.suspendsCommits
    BY <1>3, <2>2, <2>4, <2>5 DEF WakeInvs, WakeInv, PingsLane, HasWakeUp
  <2>6. CASE environment.suspendsCommits
    <3>1. pendingCommit[r] # "no" \/ Meets(r)
      BY <1>3, <2>3, <2>6 DEF WakeInvs, AliveInv
    <3>. QED  BY <2>2, <2>6, <3>1 DEF Meets, PingsLane, HasWakeUp
  <2>. QED  BY <2>5, <2>6
<1>. QED  BY <1>2, <1>3

LEMMA InitWakes ==
  ASSUME Init
  PROVE  WakeInvs
<1>1. /\ wip.root = NoRoot /\ wip.exit = "InProgress" /\ ~wip.didAttachPing
      /\ Queued = {}
      /\ \A r \in Roots : root[r].pendingLanes = {} /\ root[r].suspendedLanes = {}
  BY DEF Init, Queued, InitialRoot
<1>. QED
  BY <1>1 DEF WakeInvs, PingInv, WantsPing, DataInv, WakeInv, NoIdleInv, AliveInv

(* When microtasks have run, work that is suspended has what will wake it  *)
(* up: a stack that waits for data has a listener, and if all the work of  *)
(* a root is suspended each lane has one, or a commit is coming, or, where *)
(* the host delays commits, another lane that is suspended has one; unless *)
(* the host delays commits of programs with idle updates.                  *)
THEOREM WorkLoopSuspendedWorkWakesUp ==
  ASSUME NoIdleUpdates
  PROVE  Spec => []SuspendedWorkWakesUp
<1>. DEFINE Inv == TypeInv /\ NestInv /\ WakeInvs
<1>1. Init => Inv
  BY InitTypes, InitScreen, InitWakes DEF ScreenInvs
<1>2. Inv /\ [Next]_vars => Inv'
  BY TypeStep, NestStep, PingStep, DataInvStep, WakeStep, NoIdleStep, AliveStep
  DEF WakeInvs
<1>3. Inv => SuspendedWorkWakesUp
  BY SuspendedWakesUp
<1>. QED  BY <1>1, <1>2, <1>3, PTL DEF Spec
=============================================================================
