----------------------------- MODULE FizzTasks -----------------------------
(***************************************************************************)
(* A request of Fizz, the streaming server renderer (ReactFizzServer.js):  *)
(* its tasks, segments and Suspense boundaries, the queues of what is      *)
(* ready to be sent, and the flush to a destination that may refuse more.  *)
(*                                                                         *)
(* A task renders into one segment and is named after it; its segment's    *)
(* record has the task's fields too.  Segments and boundaries are numbers, *)
(* 0 is null, the root's boundary, and request.abortableTasks among the    *)
(* abort sets.  IDs are given to what the client will be told of: to a     *)
(* segment its own number, to a boundary that of its root segment, plus    *)
(* MaxSegments if it is given another one; 0 is -1.                        *)
(*                                                                         *)
(* JavaScript runs to completion: loop is 0 when the stack is empty, else  *)
(* performWork is to retry the loop-th pinged task, and stack holds the    *)
(* segments being rendered, the task's first.  The request is one record,  *)
(* and the functions of the code are functions on it: they call each other *)
(* recursively, and the program's callbacks call them again.               *)
(***************************************************************************)
EXTENDS Naturals, Sequences, FiniteSets, SequencesExt

CONSTANTS
  MaxHoles, MaxBoundaries,      \* bounds: what a program renders
  MayAbort,                     \* whether it may abort the request
  PipesIn,                      \* where it may call pipe()
  Rooms,                        \* what a destination may take at once
  MaxCalls                      \* bound: calls that are made in one step

ASSUME BoundsAssumption ==
  MaxHoles \in Nat /\ MaxBoundaries \in Nat /\ MaxCalls \in Nat

ASSUME RoomsAssumption == Rooms \subseteq Nat

VARIABLES
  request,
  stack, loop,
  workScheduled,
  suspended,            \* tasks that wait for data
  pipesIn,              \* where the program calls pipe()
  aborted               \* bound: abort() is called once

vars == <<request, stack, loop, workScheduled, suspended, pipesIn, aborted>>

(* The root's segment, and two for each boundary.                          *)
MaxSegments == 1 + MaxHoles + 2 * MaxBoundaries

-----------------------------------------------------------------------------
PendingSegment(boundary, blockedBoundary, abortSet) ==
  [status |-> "PENDING", id |-> 0, parentFlushed |-> FALSE, children |-> <<>>,
   empty |-> FALSE, boundary |-> boundary,
   blockedBoundary |-> blockedBoundary, abortSet |-> abortSet]

(* parent and inFallbackOf are for the properties: the boundary that has   *)
(* this one in its content, and the one that has it in its fallback.       *)
SuspenseBoundary(segment) ==
  [status |-> "PENDING", rootSegmentID |-> 0, parentFlushed |-> FALSE,
   pendingTasks |-> 0, completedSegments |-> <<>>,
   fallbackAbortableTasks |-> {},
   parent |-> segment.blockedBoundary, inFallbackOf |-> segment.abortSet]

(* What the client has received, as IDs: placeholders, hidden segments,    *)
(* those that have been moved to their placeholders, boundaries marked as  *)
(* loading and those that an instruction has settled.  misplaced has the   *)
(* boundaries of instructions that came twice or too early.                *)
NoDocument ==
  [holes |-> {}, hidden |-> {}, filled |-> {}, loading |-> {}, settled |-> {},
   misplaced |-> {}]

Tasks(r, set) ==
  IF set = 0 THEN r.abortableTasks
             ELSE r.boundaries[set].fallbackAbortableTasks

SetTasks(r, set, tasks) ==
  IF set = 0 THEN [r EXCEPT !.abortableTasks = tasks]
             ELSE [r EXCEPT !.boundaries[set].fallbackAbortableTasks = tasks]

CreateRenderTask(r, s) ==
  LET b == r.segments[s].blockedBoundary
      set == r.segments[s].abortSet
      counted == [r EXCEPT !.allPendingTasks = @ + 1]
  IN  SetTasks(IF b = 0
               THEN [counted EXCEPT !.pendingRootTasks = @ + 1]
               ELSE [counted EXCEPT !.boundaries[b].pendingTasks = @ + 1],
               set, Tasks(r, set) \cup {s})

-----------------------------------------------------------------------------
(* A call that is to be made, op for boundary b and, if it takes one,      *)
(* segment s; 0 is none.                                                   *)
Call(op, s, b) == [op |-> op, s |-> s, b |-> b]

(* These calls are made next, then those that were to be made before.      *)
Calling(r, calls) == [r EXCEPT !.calls = calls \o @]

(* An internal error: calls are skipped up to one that catches it.         *)
Throw(r, error, b) ==
  [r EXCEPT !.thrown = TRUE,
            !.failures = @ \cup {[error |-> error, boundary |-> b]}]

(* Boundary b has its ID, or its part of that ID, added to the document,   *)
(* unless the destination is closed.                                       *)
Write(r, set, id, b, fits) ==
  IF r.ended # "no" THEN r
  ELSE [r EXCEPT !.document[set] = @ \cup {id},
                 !.document.misplaced =
                    IF id \in r.document[set] \/ ~fits THEN @ \cup {b} ELSE @]

RootID(r, b) == r.boundaries[b].rootSegmentID

Hole(r, id, b) == Write(r, "holes", id, b, TRUE)
Hide(r, id, b) == Write(r, "hidden", id, b, TRUE)
Fill(r, id, b) ==
  Write(r, "filled", id, b, id \in r.document.holes \cap r.document.hidden)
Loading(r, b) == Write(r, "loading", RootID(r, b), b, TRUE)
Reveal(r, b) ==
  Write(r, "settled", RootID(r, b), b,
        RootID(r, b) \in r.document.loading \cap r.document.hidden)
ClientRender(r, b) ==
  Write(r, "settled", RootID(r, b), b, RootID(r, b) \in r.document.loading)

(* A write of the last part of an item: the destination may want no more.  *)
Offer(r) ==
  IF r.room = 0 THEN [r EXCEPT !.destination = FALSE]
                ELSE [r EXCEPT !.room = @ - 1]

(* b is the boundary whose content or segment is being flushed.            *)
FlushSubtree(r, s, b) ==
  LET seen == [r EXCEPT !.segments[s].parentFlushed = TRUE]
      children == r.segments[s].children
  IN  CASE r.segments[s].status = "PENDING" ->
             Hole([seen EXCEPT !.segments[s].id = s], s, b)
        [] r.segments[s].status = "COMPLETED" ->
             Calling([seen EXCEPT !.segments[s].status = "FLUSHED"],
                     [i \in DOMAIN children |->
                        Call("flushSegment", children[i], b)])
        [] OTHER -> Throw(seen, "flushed again", b)

(* A boundary's segment has its fallback; its root segment's number is its *)
(* name, a new one each time that it is flushed while the boundary is      *)
(* pending.  A completed boundary is inlined: byteSize is never counted.   *)
FlushSegment(r, s, b) ==
  LET c == r.segments[s].boundary
      boundary == r.boundaries[c]
      seen == [r EXCEPT !.boundaries[c].parentFlushed = TRUE]
      named == [seen EXCEPT !.boundaries[c].rootSegmentID =
                              IF @ = 0 THEN s + 1 ELSE @ + MaxSegments]
      queued == IF boundary.completedSegments = <<>> THEN named
                ELSE [named EXCEPT !.partialBoundaries = Append(@, c)]
  IN  IF c = 0 THEN FlushSubtree(r, s, b)
      ELSE CASE boundary.status = "CLIENT_RENDERED" -> FlushSubtree(seen, s, b)
             [] boundary.status = "PENDING" ->
                  FlushSubtree(Loading(queued, c), s, b)
             [] boundary.status = "COMPLETED" ->
                  IF Len(boundary.completedSegments) # 1
                  THEN Throw(seen, "not one root segment", c)
                  ELSE Calling(seen, <<Call("flushSegment",
                                       boundary.completedSegments[1], c)>>)

(* What follows the segment: the instruction that fills its placeholder.   *)
FlushSegmentContainer(r, s, b, id) ==
  Calling(Hide([r EXCEPT !.segments[s].id = id], id, b),
          IF id = RootID(r, b) THEN <<Call("flushSegment", s, b)>>
          ELSE <<Call("flushSegment", s, b), Call("fill", id, b)>>)

(* Mutant: a segment that has been flushed is flushed again.               *)
FlushSegmentAgain(r, s, b) ==
  FlushSegmentContainer(r, s, b,
    IF r.segments[s].id = 0 THEN RootID(r, b) ELSE r.segments[s].id)

(* A segment without an ID is the root segment of its boundary.            *)
FlushPartiallyCompletedSegment(r, s, b) ==
  LET id == IF r.segments[s].id = 0 THEN RootID(r, b) ELSE r.segments[s].id
  IN  CASE r.segments[s].status = "FLUSHED" -> r
        [] r.segments[s].status # "FLUSHED" /\ id = 0 ->
             Throw(r, "no root segment ID", b)
        [] OTHER -> FlushSegmentContainer(r, s, b, id)

FlushCompletedBoundary(r, b) ==
  LET segments == r.boundaries[b].completedSegments
  IN  Calling(r, [i \in DOMAIN segments |->
                    Call("flushPartiallyCompletedSegment", segments[i], b)]
                 \o <<Call("reveal", 0, b)>>)

RevealBoundary(r, b) ==
  Offer(Reveal([r EXCEPT !.boundaries[b].completedSegments = <<>>], b))

(* One segment and, if the destination wants more, the next.               *)
FlushPartialBoundary(r, b) ==
  LET segments == r.boundaries[b].completedSegments
      s == Head(segments)
  IN  IF ~r.destination \/ segments = <<>> THEN r
      ELSE Calling([r EXCEPT !.boundaries[b].completedSegments = Tail(@)],
             <<Call("flushPartiallyCompletedSegment", s, b)>>
             \o (IF r.segments[s].status = "FLUSHED" THEN <<>>
                 ELSE <<Call("offer", 0, 0)>>)
             \o <<Call("flushPartialBoundary", 0, b)>>)

FlushItem(r, queue, b) ==
  CASE queue = "clientRenderedBoundaries" -> Offer(ClientRender(r, b))
    [] queue = "completedBoundaries" -> FlushCompletedBoundary(r, b)
    [] queue = "partialBoundaries" -> FlushPartialBoundary(r, b)

(* Until the destination wants no more; the queue may grow meanwhile.  The *)
(* boundary sent, if one was, is taken from the queue.                     *)
FlushQueue(r, queue, sent) ==
  LET rest == IF sent = 0 THEN r
              ELSE [r EXCEPT ![queue] = SubSeq(@, 2, Len(@))]
      next == Head(rest[queue])
  IN  IF ~r.destination \/ rest[queue] = <<>> THEN rest
      ELSE FlushItem(Calling(rest, <<Call(queue, 0, next)>>), queue, next)

End(r, how) == [r EXCEPT !.ended = IF @ = "no" THEN how ELSE @]

FlushRoot(r) ==
  IF r.completedRootSegment = 0 THEN r
  ELSE Calling(r, <<Call("flushSegment", r.completedRootSegment, 0),
                    Call("rootFlushed", 0, 0)>>)

(* Mutant: the queues are flushed while the root's tasks are pending.      *)
FlushQueuesEarly(r) ==
  FlushRoot(Calling(r, <<Call("clientRenderedBoundaries", 0, 0),
                         Call("completedBoundaries", 0, 0)>>))

FlushQueues(r) ==
  IF r.pendingRootTasks > 0 THEN r
  ELSE FlushRoot(Calling(r, <<Call("clientRenderedBoundaries", 0, 0),
                              Call("completedBoundaries", 0, 0),
                              Call("partialBoundaries", 0, 0),
                              Call("completedBoundaries", 0, 0)>>))

(* Mutant: what waits for the destination does not keep the stream open.   *)
DoneWithoutTasks(r) == r.allPendingTasks = 0 /\ r.pingedTasks = <<>>

(* What is left in partialBoundaries is not looked at.                     *)
Done(r) ==
  /\ r.allPendingTasks = 0
  /\ r.pingedTasks = <<>>
  /\ r.clientRenderedBoundaries = <<>>
  /\ r.completedBoundaries = <<>>

CloseIfDone(r) ==
  IF Done(r) THEN [End(r, "closed") EXCEPT !.destination = FALSE] ELSE r

FlushCompletedQueues(r) ==
  FlushQueues(Calling(r, <<Call("closeIfDone", 0, 0)>>))

FatalError(r) ==
  IF r.destination THEN [End(r, "error") EXCEPT !.status = "CLOSED"]
                   ELSE [r EXCEPT !.status = "CLOSING"]

(* Mutant: the callers do not catch what is thrown.                        *)
TryNothing(r) == FlushCompletedQueues(r)

(* What is thrown is caught by the callers.                                *)
Caught(r) == IF r.thrown THEN FatalError([r EXCEPT !.thrown = FALSE]) ELSE r

TryToFlush(r) == FlushCompletedQueues(Calling(r, <<Call("catch", 0, 0)>>))

FlushIfFlowing(r) == IF r.destination THEN TryToFlush(r) ELSE r

StartFlowing(r) ==
  IF r.status = "CLOSING" THEN [End(r, "error") EXCEPT !.status = "CLOSED"]
  ELSE IF r.status = "CLOSED" \/ r.destination THEN r
  ELSE TryToFlush([r EXCEPT !.destination = TRUE])

(* The program's callbacks; pipe() may be called once.                     *)
Pipe(r) == IF r.piped THEN r ELSE StartFlowing([r EXCEPT !.piped = TRUE])

CompleteShell(r) ==
  LET told == [r EXCEPT !.shellReady = @ + 1]
  IN  IF pipesIn = "onShellReady" THEN Pipe(told) ELSE told

CompleteAll(r) ==
  LET told == [r EXCEPT !.allReady = @ + 1]
  IN  IF pipesIn = "onAllReady" THEN Pipe(told) ELSE told

OneTaskLess(r) ==
  LET less == [r EXCEPT !.allPendingTasks = @ - 1]
  IN  IF less.allPendingTasks = 0 THEN CompleteAll(less) ELSE less

-----------------------------------------------------------------------------
(* An empty segment gives its ID to its only child.                        *)
QueueCompletedSegment(r, s, b) ==
  LET segment == r.segments[s]
      child == segment.children[1]
      transferred == [r EXCEPT !.segments[child].id = segment.id,
                               !.segments[child].parentFlushed = TRUE]
  IN  IF /\ segment.empty /\ Len(segment.children) = 1
         /\ r.segments[child].boundary = 0 /\ r.segments[child].id = 0
      THEN IF r.segments[child].status = "COMPLETED"
           THEN Calling(transferred, <<Call("queueCompletedSegment", child, b)>>)
           ELSE transferred
      ELSE [r EXCEPT !.boundaries[b].completedSegments = Append(@, s)]

(* The parent has been flushed: the segment is to be sent by itself.       *)
ToBeQueued(r, s) ==
  r.segments[s].parentFlushed /\ r.segments[s].status = "COMPLETED"

(* Mutant: a boundary that the client does not know of is queued too.      *)
QueueAnyBoundary(r, queue, b) == [r EXCEPT ![queue] = Append(@, b)]

QueueBoundary(r, queue, b) ==
  IF r.boundaries[b].parentFlushed
  THEN [r EXCEPT ![queue] = Append(@, b)] ELSE r

FinishRootTask(r, s) ==
  LET rooted == IF ~r.segments[s].parentFlushed THEN r
                ELSE IF r.completedRootSegment # 0
                THEN Throw(r, "two root segments", 0)
                ELSE [r EXCEPT !.completedRootSegment = s]
      less == [rooted EXCEPT !.pendingRootTasks = @ - 1]
  IN  IF less.pendingRootTasks = 0 THEN CompleteShell(less) ELSE less

(* The boundary stays incomplete; the first segment since the last flush.  *)
FinishPartially(r, s, b) ==
  IF ~ToBeQueued(r, s) THEN r
  ELSE Calling(r, <<Call("queueCompletedSegment", s, b),
                    Call("partiallyCompleted", 0, b)>>)

PartiallyCompleted(r, b) ==
  IF Len(r.boundaries[b].completedSegments) = 1
  THEN QueueBoundary(r, "partialBoundaries", b) ELSE r

(* The last task of a boundary.                                            *)
FinishBoundary(r, s, b) ==
  Calling([r EXCEPT !.boundaries[b].status = "COMPLETED"],
          IF ToBeQueued(r, s)
          THEN <<Call("queueCompletedSegment", s, b), Call("completed", 0, b)>>
          ELSE <<Call("completed", 0, b)>>)

(* Mutant: the tasks of the fallback are forgotten instead of stopped.     *)
ForgetFallback(r, b) ==
  [QueueBoundary(r, "completedBoundaries", b) EXCEPT
     !.boundaries[b].fallbackAbortableTasks = {}]

(* Its fallback is not needed any more.                                    *)
BoundaryCompleted(r, b) ==
  Calling(QueueBoundary(r, "completedBoundaries", b),
          <<Call("abortTasksSoft", 1, b)>>)

FinishedTask(r, s) ==
  LET b == r.segments[s].blockedBoundary
      counted == Calling(r, <<Call("oneTaskLess", 0, 0)>>)
      less == [counted EXCEPT !.boundaries[b].pendingTasks = @ - 1]
  IN  IF b = 0 THEN FinishRootTask(counted, s)
      ELSE CASE less.boundaries[b].status = "CLIENT_RENDERED" -> less
             [] less.boundaries[b].status # "CLIENT_RENDERED"
                  /\ less.boundaries[b].pendingTasks = 0 ->
                  FinishBoundary(less, s, b)
             [] OTHER -> FinishPartially(less, s, b)

(* The task is not needed any more; its boundary goes on without it.       *)
AbortTaskSoft(r, s) ==
  FinishedTask([r EXCEPT !.segments[s].status = "ABORTED"], s)

(* The boundary will be rendered by the client.                            *)
GiveUp(r, b) ==
  IF r.boundaries[b].status = "CLIENT_RENDERED" THEN r
  ELSE QueueBoundary([r EXCEPT !.boundaries[b].status = "CLIENT_RENDERED"],
                     "clientRenderedBoundaries", b)

ErroredTask(r, s) ==
  LET b == r.segments[s].blockedBoundary
      failed == Calling([r EXCEPT !.segments[s].status = "ERRORED"],
                        <<Call("oneTaskLess", 0, 0)>>)
  IN  IF b = 0 THEN FatalError(failed)
      ELSE GiveUp([failed EXCEPT !.boundaries[b].pendingTasks = @ - 1], b)

(* A root task is not counted off, before a fatal error or after it.       *)
AbortTask(r, s) ==
  LET b == r.segments[s].blockedBoundary
      stopped == [r EXCEPT !.segments[s].status = "ABORTED"]
      counted == Calling(stopped, <<Call("oneTaskLess", 0, 0)>>)
      failed ==
        GiveUp([counted EXCEPT !.boundaries[b].pendingTasks = @ - 1], b)
  IN  CASE b = 0 /\ r.status = "OPEN" -> FatalError(stopped)
        [] b = 0 /\ r.status # "OPEN" -> counted
        [] OTHER -> Calling(failed, <<Call("abortTasks", 1, b)>>)

(* forEach of a Set, from task s on, and clear: its tasks were added in    *)
(* the order of their numbers.                                             *)
Left(r, s, set) == {t \in Tasks(r, set) : t >= s}

AbortTasks(r, s, set) ==
  LET t == Min(Left(r, s, set))
  IN  IF Left(r, s, set) = {} THEN SetTasks(r, set, {})
      ELSE AbortTask(Calling(r, <<Call("abortTasks", t + 1, set)>>), t)

AbortTasksSoft(r, s, set) ==
  LET t == Min(Left(r, s, set))
  IN  IF Left(r, s, set) = {} THEN SetTasks(r, set, {})
      ELSE AbortTaskSoft(Calling(r, <<Call("abortTasksSoft", t + 1, set)>>), t)

Abort(r) ==
  Calling(r, <<Call("abortTasks", 1, 0), Call("flushIfFlowing", 0, 0)>>)

-----------------------------------------------------------------------------
(* The fallback's task is not begun before the rest is rendered.           *)
PingFallback(r, s) ==
  [CreateRenderTask(r, s) EXCEPT !.pingedTasks = Append(@, s)]

(* The content is in its place; the segment before it is the fallback's.   *)
ContentQueued(r, s, b) ==
  IF r.boundaries[b].pendingTasks = 0
  THEN [r EXCEPT !.boundaries[b].status = "COMPLETED"]
  ELSE PingFallback(r, s - 1)

Make(r, call) ==
  CASE call.op = "flushSegment" -> FlushSegment(r, call.s, call.b)
    [] call.op = "fill" -> Fill(r, call.s, call.b)
    [] call.op = "flushPartiallyCompletedSegment" ->
         FlushPartiallyCompletedSegment(r, call.s, call.b)
    [] call.op = "reveal" -> RevealBoundary(r, call.b)
    [] call.op = "offer" -> Offer(r)
    [] call.op = "flushPartialBoundary" -> FlushPartialBoundary(r, call.b)
    [] call.op \in {"clientRenderedBoundaries", "completedBoundaries",
                    "partialBoundaries"} -> FlushQueue(r, call.op, call.b)
    [] call.op = "rootFlushed" -> [r EXCEPT !.completedRootSegment = 0]
    [] call.op = "closeIfDone" -> CloseIfDone(r)
    [] call.op = "catch" -> Caught(r)
    [] call.op = "flushIfFlowing" -> FlushIfFlowing(r)
    [] call.op = "oneTaskLess" -> OneTaskLess(r)
    [] call.op = "queueCompletedSegment" ->
         QueueCompletedSegment(r, call.s, call.b)
    [] call.op = "partiallyCompleted" -> PartiallyCompleted(r, call.b)
    [] call.op = "completed" -> BoundaryCompleted(r, call.b)
    [] call.op = "contentQueued" -> ContentQueued(r, call.s, call.b)
    [] call.op = "abortTasks" -> AbortTasks(r, call.s, call.b)
    [] call.op = "abortTasksSoft" -> AbortTasksSoft(r, call.s, call.b)

MakeNext(r) ==
  LET call == Head(r.calls)
      rest == [r EXCEPT !.calls = Tail(@)]
  IN  IF r.calls = <<>> THEN r
      ELSE IF r.thrown /\ call.op \notin {"closeIfDone", "catch"} THEN rest
      ELSE Make(rest, call)

-----------------------------------------------------------------------------
(* What the destination takes before it refuses is chosen for each step.   *)
WithRoom(room) == [request EXCEPT !.room = room]

(* A step of the program is all the calls that are made until none is left.*)
Becomes(r) ==
  LET after[n \in 0..MaxCalls] ==
        IF n = 0 THEN r ELSE MakeNext(after[n - 1])
      last == after[MaxCalls]
  IN  last.calls = <<>> /\ request' = [last EXCEPT !.room = 0]

hostVars == <<workScheduled, suspended, pipesIn, aborted>>

(* performWork; a callback of scheduleWork.                                *)
PerformWork ==
  /\ loop = 0 /\ workScheduled
  /\ workScheduled' = FALSE
  /\ loop' = IF request.status = "CLOSED" THEN 0 ELSE 1
  /\ UNCHANGED <<request, stack, suspended, pipesIn, aborted>>

Retrying == loop \in 1..Len(request.pingedTasks) /\ stack = <<>>

(* retryTask; a task may be done by other means.                           *)
RetryTask ==
  /\ Retrying
  /\ LET s == request.pingedTasks[loop]
     IN  stack' = IF request.segments[s].status = "PENDING" THEN <<s>>
                                                           ELSE <<>>
  /\ loop' = loop + 1
  /\ UNCHANGED <<request, hostVars>>

(* Mutant: the tasks that have been retried stay in pingedTasks.           *)
FinishWithoutSplice ==
  /\ loop > Len(request.pingedTasks) /\ stack = <<>>
  /\ \E room \in Rooms :
       Becomes(FlushIfFlowing(WithRoom(room)))
  /\ loop' = 0
  /\ UNCHANGED <<stack, hostVars>>

(* The end of performWork.                                                 *)
FinishWork ==
  /\ loop > Len(request.pingedTasks) /\ stack = <<>>
  /\ \E room \in Rooms :
       Becomes(FlushIfFlowing([WithRoom(room) EXCEPT !.pingedTasks = <<>>]))
  /\ loop' = 0
  /\ UNCHANGED <<stack, hostVars>>

-----------------------------------------------------------------------------
Rendered == Last(stack)
TheTask == Head(stack)
Fresh == Len(request.segments) + 1
Holes == Len(request.segments) - 1 - 2 * Len(request.boundaries)

Child(r, s, segments) ==
  LET parent == [r EXCEPT !.segments[s].children = Append(@, Fresh)]
  IN  [parent EXCEPT !.segments = @ \o segments]

(* spawnNewSuspendedRenderTask: the rest is rendered around a hole.        *)
SpawnSuspendedTask ==
  /\ stack # <<>> /\ Holes < MaxHoles
  /\ LET new == PendingSegment(0, request.segments[Rendered].blockedBoundary,
                               request.segments[TheTask].abortSet)
     IN  request' = CreateRenderTask(Child(request, Rendered, <<new>>), Fresh)
  /\ suspended' = suspended \cup {Fresh}
  /\ UNCHANGED <<stack, loop, workScheduled, pipesIn, aborted>>

(* renderSuspenseBoundary, up to the content.                              *)
EnterBoundary ==
  /\ stack # <<>> /\ Len(request.boundaries) < MaxBoundaries
  /\ LET b == Len(request.boundaries) + 1
         outer == request.segments[Rendered].blockedBoundary
         fallback == PendingSegment(b, outer, b)
         content == [PendingSegment(0, b, request.segments[TheTask].abortSet)
                       EXCEPT !.parentFlushed = TRUE]
     IN  request' =
           [Child(request, Rendered, <<fallback, content>>) EXCEPT
              !.boundaries = Append(@,
                 SuspenseBoundary([blockedBoundary |-> outer,
                                   abortSet |-> content.abortSet]))]
  /\ stack' = Append(stack, Fresh + 1)
  /\ UNCHANGED <<loop, hostVars>>

Completed(s, empty) ==
  [request EXCEPT !.segments[s].status = "COMPLETED",
                  !.segments[s].empty = empty]

(* The chunks of a segment with one child may be empty.                    *)
Emptiness(s) ==
  IF Len(request.segments[s].children) = 1 THEN BOOLEAN ELSE {FALSE}

(* The content has been rendered, holes excepted.                          *)
FinishContent ==
  /\ Len(stack) > 1
  /\ \E empty \in Emptiness(Rendered) :
       LET b == request.segments[Rendered].blockedBoundary
       IN  Becomes(Calling(Completed(Rendered, empty),
                           <<Call("queueCompletedSegment", Rendered, b),
                             Call("contentQueued", Rendered, b)>>))
  /\ stack' = Front(stack)
  /\ UNCHANGED <<loop, hostVars>>

(* The tasks that the content has spawned go on.                           *)
ContentThrows ==
  /\ Len(stack) > 1
  /\ LET b == request.segments[Rendered].blockedBoundary
     IN  request' = PingFallback(
           [request EXCEPT !.segments[Rendered].status = "ERRORED",
                           !.boundaries[b].status = "CLIENT_RENDERED"],
           Rendered - 1)
  /\ stack' = Front(stack)
  /\ UNCHANGED <<loop, hostVars>>

-----------------------------------------------------------------------------
WithoutTask(r, s) ==
  LET set == r.segments[s].abortSet IN SetTasks(r, set, Tasks(r, set) \ {s})

CompleteTask ==
  /\ Len(stack) = 1
  /\ \E empty \in Emptiness(TheTask), room \in Rooms :
       Becomes(FinishedTask(
         [WithoutTask(Completed(TheTask, empty), TheTask) EXCEPT
            !.room = room], TheTask))
  /\ stack' = <<>>
  /\ UNCHANGED <<loop, hostVars>>

TaskThrows ==
  /\ Len(stack) = 1
  /\ \E room \in Rooms :
       Becomes(ErroredTask(
         [WithoutTask(WithRoom(room), TheTask) EXCEPT
            !.segments[TheTask].children = <<>>], TheTask))
  /\ stack' = <<>>
  /\ UNCHANGED <<loop, hostVars>>

(* A component that the task begins with suspends again.                   *)
TaskSuspends ==
  /\ Len(stack) = 1 /\ request.segments[TheTask].children = <<>>
  /\ suspended' = suspended \cup {TheTask}
  /\ stack' = <<>>
  /\ UNCHANGED <<request, loop, workScheduled, pipesIn, aborted>>

-----------------------------------------------------------------------------
CanPing(s) == loop = 0 /\ s \in suspended
CanPipe == loop = 0 /\ pipesIn = "elsewhere" /\ ~request.piped
CanDrain == /\ loop = 0 /\ request.piped
            /\ ~request.destination /\ request.ended = "no"

(* pingTask, when data has settled.                                        *)
Ping(s) ==
  /\ CanPing(s)
  /\ suspended' = suspended \ {s}
  /\ request' = [request EXCEPT !.pingedTasks = Append(@, s)]
  /\ workScheduled' = (workScheduled \/ request.pingedTasks = <<>>)
  /\ UNCHANGED <<stack, loop, pipesIn, aborted>>

(* The program calls pipe() outside the callbacks.                         *)
PipeElsewhere ==
  /\ CanPipe
  /\ \E room \in Rooms : Becomes(Pipe(WithRoom(room)))
  /\ UNCHANGED <<stack, loop, hostVars>>

(* A destination that has refused wants more.                              *)
Drain ==
  /\ CanDrain
  /\ \E room \in Rooms : Becomes(StartFlowing(WithRoom(room)))
  /\ UNCHANGED <<stack, loop, hostVars>>

(* abort() by the program, and, the destination gone, by the cancel        *)
(* handler of pipe().                                                      *)
ProgramAborts ==
  /\ MayAbort /\ loop = 0 /\ ~aborted
  /\ \E room \in Rooms : Becomes(Abort(WithRoom(room)))
  /\ aborted' = TRUE
  /\ UNCHANGED <<stack, loop, workScheduled, suspended, pipesIn>>

DestinationCloses ==
  /\ MayAbort /\ loop = 0 /\ request.piped /\ request.ended = "no" /\ ~aborted
  /\ Becomes(Abort([End(request, "gone") EXCEPT !.destination = FALSE]))
  /\ aborted' = TRUE
  /\ UNCHANGED <<stack, loop, workScheduled, suspended, pipesIn>>

-----------------------------------------------------------------------------
RootSegment == [PendingSegment(0, 0, 0) EXCEPT !.parentFlushed = TRUE]

EmptyRequest ==
  [status |-> "OPEN", segments |-> <<RootSegment>>, boundaries |-> <<>>,
   allPendingTasks |-> 0, pendingRootTasks |-> 0, pingedTasks |-> <<1>>,
   abortableTasks |-> {}, completedRootSegment |-> 0,
   clientRenderedBoundaries |-> <<>>, completedBoundaries |-> <<>>,
   partialBoundaries |-> <<>>, destination |-> FALSE, piped |-> FALSE,
   room |-> 0, ended |-> "no", calls |-> <<>>, thrown |-> FALSE, failures |-> {},
   shellReady |-> 0, allReady |-> 0, document |-> NoDocument]

Init ==
  /\ request = CreateRenderTask(EmptyRequest, 1)
  /\ stack = <<>> /\ loop = 0 /\ workScheduled = TRUE
  /\ suspended = {} /\ aborted = FALSE
  /\ pipesIn \in PipesIn

Render ==
  \/ SpawnSuspendedTask \/ EnterBoundary \/ FinishContent \/ ContentThrows
  \/ CompleteTask \/ TaskThrows \/ TaskSuspends

Work == PerformWork \/ RetryTask \/ FinishWork

Next ==
  \/ Work \/ Render \/ PipeElsewhere \/ Drain
  \/ ProgramAborts \/ DestinationCloses
  \/ \E s \in suspended : Ping(s)

Spec == Init /\ [][Next]_vars

(* Code on the stack runs, scheduled work too, data settles, a component   *)
(* does not suspend for ever, the program pipes, and a destination that    *)
(* has refused drains.                                                     *)
Running == loop > 0 \/ workScheduled

(* Weak and strong fairness, with the guards in the place of ENABLED: to   *)
(* find that an action is enabled costs TLC many evaluations of it.        *)
Fairness ==
  /\ []<>~Running \/ []<><<Work \/ Render>>_vars
  /\ <>[](Len(stack) # 1) \/ []<><<CompleteTask \/ TaskThrows>>_vars
  /\ <>[](loop # 0 \/ suspended = {})
       \/ []<><<\E s \in suspended : Ping(s)>>_vars
  /\ <>[]~(CanPipe \/ CanDrain) \/ []<><<PipeElsewhere \/ Drain>>_vars

FairSpec == Spec /\ Fairness

-----------------------------------------------------------------------------
SegmentIds == 1..Len(request.segments)
BoundaryIds == 1..Len(request.boundaries)

TypeOK ==
  /\ request.status \in {"OPEN", "CLOSING", "CLOSED"}
  /\ request.ended \in {"no", "closed", "error", "gone"}
  /\ request.calls = <<>> /\ ~request.thrown /\ request.room = 0
  /\ \A s \in SegmentIds :
       LET segment == request.segments[s]
       IN  /\ segment.status \in
                {"PENDING", "COMPLETED", "FLUSHED", "ABORTED", "ERRORED"}
           /\ segment.id \in Nat
           /\ segment.boundary \in {0} \cup BoundaryIds
           /\ ToSet(segment.children) \subseteq SegmentIds
  /\ \A b \in BoundaryIds :
       LET boundary == request.boundaries[b]
       IN  /\ boundary.status \in {"PENDING", "COMPLETED", "CLIENT_RENDERED"}
           /\ boundary.pendingTasks \in Nat
           /\ ToSet(boundary.completedSegments) \subseteq SegmentIds
  /\ suspended \cup ToSet(stack) \subseteq SegmentIds
  /\ stack # <<>> => loop > 0

(* A task is live as long as it is in its abort set and its segment is     *)
(* pending: it can be aborted until it is done.                            *)
LiveTasks ==
  {s \in SegmentIds : /\ request.segments[s].status = "PENDING"
                      /\ s \in Tasks(request, request.segments[s].abortSet)}

LiveTasksOf(b) == {s \in LiveTasks : request.segments[s].blockedBoundary = b}

(* The three counters of tasks agree with the abort sets, however a task   *)
(* has ended: finished, failed, aborted or stopped with its fallback.      *)
TasksAreCounted ==
  request.status = "OPEN" =>
    /\ request.allPendingTasks = Cardinality(LiveTasks)
    /\ request.pendingRootTasks = Cardinality(LiveTasksOf(0))
    /\ \A b \in BoundaryIds :
         request.boundaries[b].pendingTasks = Cardinality(LiveTasksOf(b))

(* The program is told once that the shell is ready, before any of it is   *)
(* sent, and once that all is ready, when no task is left.                 *)
AnnouncedOnce ==
  /\ request.shellReady <= 1 /\ request.allReady <= 1
  /\ request.document # NoDocument => request.shellReady = 1
  /\ request.allReady = 1 /\ request.status = "OPEN" => LiveTasks = {}

(* Boundaries flushed twice: a placeholder has been sent for their         *)
(* segment, which has their fallback, and that segment has been sent then. *)
FlushedTwice ==
  {request.segments[s].boundary : s \in
     {f \in SegmentIds : request.segments[f].id \in request.document.hidden}}
  \ {0}

(* What lies in the content of a boundary that has been given up, or in    *)
(* the fallback of a complete one, is not shown.                           *)
DiscardedWith(discarded, content, fallback) ==
  \/ /\ content # 0
     /\ \/ request.boundaries[content].status = "CLIENT_RENDERED"
        \/ discarded[content]
  \/ /\ fallback # 0
     /\ \/ request.boundaries[fallback].status = "COMPLETED"
        \/ discarded[fallback]

Discarded(content, fallback) ==
  LET discarded[b \in BoundaryIds] ==
        DiscardedWith(discarded, request.boundaries[b].parent,
                      request.boundaries[b].inFallbackOf)
  IN  DiscardedWith(discarded, content, fallback)

BoundaryDiscarded(b) ==
  Discarded(request.boundaries[b].parent, request.boundaries[b].inFallbackOf)

SegmentDiscarded(s) ==
  Discarded(request.segments[s].blockedBoundary, request.segments[s].abortSet)

(* The client gets no instruction twice, and none before what it is about: *)
(* a segment fills a placeholder that has been sent, a boundary that is    *)
(* revealed or given up has been marked, and its content has been sent:    *)
(* "We always expect both nodes to exist here" (completeSegment).  But for *)
(* boundaries that have been flushed twice, and for what is not shown.     *)
ShownInstructionsFit ==
  \A b \in request.document.misplaced \ FlushedTwice : BoundaryDiscarded(b)

(* "We don't need to check any partially completed segments because either *)
(* they have pending task or they're complete" (flushCompletedQueues): of  *)
(* what is shown nothing is missing when the stream is closed.             *)
CompleteWhenClosed ==
  request.ended = "closed" =>
    /\ \A b \in BoundaryIds \ FlushedTwice :
         RootID(request, b) \in
           request.document.loading \ request.document.settled
           => BoundaryDiscarded(b)
    /\ \A s \in request.document.holes \ request.document.filled :
         \/ SegmentDiscarded(s)
         \/ request.segments[s].blockedBoundary \in FlushedTwice

(* "Aborted, errored or already flushed boundaries should not be flushed   *)
(* again.  This is a bug in React" (flushSubtree), and the other internal  *)
(* errors: none of them ends the stream.                                   *)
NoInternalError == request.failures = {}

(* The only internal errors are that one, for content that is not shown,   *)
(* and the one about the root segment of a boundary, if flushed twice.     *)
OnlyKnownErrors ==
  \A f \in request.failures :
    \/ /\ f.error = "flushed again" /\ f.boundary # 0
       /\ \/ request.boundaries[f.boundary].status = "CLIENT_RENDERED"
          \/ BoundaryDiscarded(f.boundary)
    \/ f.error = "not one root segment" /\ f.boundary \in FlushedTwice

(* A request comes to its end: everything has been sent, or it has failed. *)
Finishes == <>(request.ended # "no" \/ request.status # "OPEN")
=============================================================================
