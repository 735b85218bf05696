----------------------------- MODULE FizzProofs -----------------------------
(***************************************************************************)
(* The tasks of a request of Fizz are counted, and the program is told     *)
(* once of what is ready: whatever is rendered, suspends, fails, is        *)
(* aborted, and is flushed meanwhile, for every number of boundaries and   *)
(* of holes, and every length of a step.                                   *)
(*                                                                         *)
(* A step of the program is a sequence of calls, and what is proved is     *)
(* that each call keeps an invariant, QInv, of the request and of the      *)
(* calls that remain.                                                      *)
(*                                                                         *)
(* The parts, in this order: the types and the invariant; what a call that *)
(* is put first has to be; the calls of a flush (Sends), of the callbacks, *)
(* those that queue (Alters); the ways in which a task ends (Ended) and    *)
(* the loops over abort sets (PassStep); any call (MakeNextKeeps) and all  *)
(* the calls of a step (BecomesIn); the program between two steps (IInv);  *)
(* the actions, one lemma for each; the theorems.                          *)
(***************************************************************************)
EXTENDS FizzTasks, Integers, FiniteSetTheorems, FunctionTheorems,
        SequenceTheorems, WellFoundedInduction, TLAPS

-----------------------------------------------------------------------------
(* The types.  A counter is a number, which the invariant bounds.          *)
SegmentRecord ==
  [status : {"PENDING", "COMPLETED", "FLUSHED", "ABORTED", "ERRORED"},
   id : Nat, parentFlushed : BOOLEAN, children : Seq(Nat), empty : BOOLEAN,
   boundary : Nat, blockedBoundary : Nat, abortSet : Nat]

BoundaryRecord ==
  [status : {"PENDING", "COMPLETED", "CLIENT_RENDERED"}, rootSegmentID : Nat,
   parentFlushed : BOOLEAN, pendingTasks : Int, completedSegments : Seq(Nat),
   fallbackAbortableTasks : SUBSET Nat, parent : Nat, inFallbackOf : Nat]

Document ==
  [holes : SUBSET Nat, hidden : SUBSET Nat, filled : SUBSET Nat,
   loading : SUBSET Nat, settled : SUBSET Nat, misplaced : SUBSET Nat]

(* The calls of a flush, those that may be made after the shell is ready.  *)
SendingOps ==
  {"flushSegment", "fill", "flushPartiallyCompletedSegment", "reveal", "offer",
   "flushPartialBoundary", "clientRenderedBoundaries", "completedBoundaries",
   "partialBoundaries", "rootFlushed"}
FlushOps == SendingOps \cup {"closeIfDone"}
AbortOps == {"abortTasks", "abortTasksSoft"}
Ops == FlushOps \cup AbortOps
         \cup {"catch", "flushIfFlowing", "oneTaskLess",
               "queueCompletedSegment", "partiallyCompleted", "completed"}

CallRecord == [op : Ops \cup {"contentQueued"}, s : Nat, b : Nat]

Failure ==
  [error : {"flushed again", "not one root segment", "no root segment ID",
            "two root segments"},
   boundary : Nat]

RequestRecord ==
  [status : {"OPEN", "CLOSING", "CLOSED"}, segments : Seq(SegmentRecord),
   boundaries : Seq(BoundaryRecord),
   allPendingTasks : Int, pendingRootTasks : Int,
   pingedTasks : Seq(Nat), abortableTasks : SUBSET Nat,
   completedRootSegment : Nat,
   clientRenderedBoundaries : Seq(Nat), completedBoundaries : Seq(Nat),
   partialBoundaries : Seq(Nat), destination : BOOLEAN, piped : BOOLEAN,
   room : Int, ended : {"no", "closed", "error", "gone"},
   calls : Seq(CallRecord), thrown : BOOLEAN, failures : SUBSET Failure,
   shellReady : Int, allReady : Int, document : Document]

Segs(q) == DOMAIN q.segments
Bounds(q) == DOMAIN q.boundaries
Sets(q) == {0} \cup Bounds(q)

(* What is numbered exists; a segment's children are in the content of its *)
(* boundary.                                                               *)
Pointers(q) ==
  /\ \A s \in Segs(q) :
       LET segment == q.segments[s]
       IN  /\ segment.boundary \in Sets(q)
           /\ segment.blockedBoundary \in Sets(q)
           /\ segment.abortSet \in Sets(q)
           /\ \A i \in DOMAIN segment.children :
                LET c == segment.children[i]
                IN  /\ c \in Segs(q)
                    /\ q.segments[c].blockedBoundary = segment.blockedBoundary
  /\ \A b \in Bounds(q) : \A i \in DOMAIN q.boundaries[b].completedSegments :
       q.boundaries[b].completedSegments[i] \in Segs(q)
  /\ \A i \in DOMAIN q.clientRenderedBoundaries :
       q.clientRenderedBoundaries[i] \in Bounds(q)
  /\ \A i \in DOMAIN q.completedBoundaries :
       q.completedBoundaries[i] \in Bounds(q)
  /\ \A i \in DOMAIN q.partialBoundaries :
       q.partialBoundaries[i] \in Bounds(q)
  /\ q.completedRootSegment \in {0} \cup Segs(q)

Sound(q) == q \in RequestRecord /\ Pointers(q)

CallOK(q, c) ==
  /\ c \in CallRecord /\ c.op \in Ops
  /\ c.op = "flushSegment" => c.s \in Segs(q) /\ c.b \in Sets(q)
  /\ c.op = "flushPartiallyCompletedSegment" =>
       c.s \in Segs(q) /\ c.b \in Bounds(q)
  /\ c.op = "queueCompletedSegment" =>
       /\ c.s \in Segs(q) /\ c.b \in Bounds(q)
       /\ q.segments[c.s].blockedBoundary = c.b
  /\ c.op \in {"fill", "reveal", "flushPartialBoundary", "partiallyCompleted",
               "completed", "abortTasksSoft"} => c.b \in Bounds(q)
  /\ c.op = "abortTasks" => c.b \in Sets(q)

CallsOK(q, calls) == \A i \in DOMAIN calls : CallOK(q, calls[i])

(* The boundary in whose content a task lies was entered after that whose  *)
(* fallback it is part of, or before: its rank tells that it is aborted    *)
(* first.  The sets that are being gone through are of ever lower ranks.   *)
Ranked(q, rank) ==
  /\ rank \in [Sets(q) -> Nat] /\ rank[0] = 0
  /\ \A b \in Bounds(q) : rank[b] > 0
  /\ \A s \in Segs(q) :
       LET segment == q.segments[s]
       IN  segment.blockedBoundary # 0 =>
             rank[segment.abortSet] < rank[segment.blockedBoundary]

Iterates(c) == c.op \in AbortOps \cup {"completed"}

Nested(calls, rank) ==
  \A i, j \in DOMAIN calls :
    i < j /\ Iterates(calls[i]) /\ Iterates(calls[j])
      => rank[calls[j].b] < rank[calls[i].b]

(* A task is in its own abort set only.                                    *)
Homes(q) ==
  \A set \in Sets(q) : \A t \in Tasks(q, set) :
    t \in Segs(q) /\ q.segments[t].abortSet = set

(* The tasks of a set are pending, but for those that have been aborted    *)
(* by the call that is going through the set: they come first.             *)
Passes(c, set) == c.op \in AbortOps /\ c.b = set

Cursors(q, calls) ==
  \A set \in Sets(q) : \A t \in Tasks(q, set) :
    /\ \/ q.segments[t].status = "PENDING"
       \/ \E i \in DOMAIN calls : Passes(calls[i], set) /\ calls[i].s > t
    /\ \A i \in DOMAIN calls :
         Passes(calls[i], set) /\ calls[i].s > t
           => q.segments[t].status # "PENDING"

(* A flush is caught, and what is thrown is caught by the flush's caller.  *)
Caughts(thrown, calls) ==
  /\ \A i \in DOMAIN calls : calls[i].op \in FlushOps =>
       /\ i + 1 \in DOMAIN calls
       /\ calls[i + 1].op \in FlushOps \cup {"catch"}
  /\ thrown => calls # <<>> /\ calls[1].op \in FlushOps \cup {"catch"}

Live(q) ==
  {s \in Segs(q) : /\ q.segments[s].status = "PENDING"
                   /\ s \in Tasks(q, q.segments[s].abortSet)}
LiveOf(q, b) == {s \in Live(q) : q.segments[s].blockedBoundary = b}

(* Tasks that are done and not yet counted off.                            *)
LessCalls(calls) ==
  Cardinality({i \in DOMAIN calls : calls[i].op = "oneTaskLess"})

(* extra is one for the boundary of a task that is done and still counted, *)
(* and zero for all others.                                                *)
Counts(q, calls, extra, b0) ==
  LET of(b) == Cardinality(LiveOf(q, b)) + (IF b = b0 THEN extra ELSE 0)
      all == Cardinality(Live(q)) + LessCalls(calls) + extra
  IN  /\ \A b \in Bounds(q) : q.boundaries[b].pendingTasks = of(b)
      /\ q.allPendingTasks >= all
      /\ q.pendingRootTasks >= of(0)
      /\ q.status = "OPEN" =>
           q.allPendingTasks = all /\ q.pendingRootTasks = of(0)

(* As long as tasks of the root are pending, nothing has been sent, and    *)
(* only the root's first segment may become that of the request.           *)
Roots(q, calls) ==
  /\ 1 \in Segs(q)
  /\ q.pendingRootTasks > 0 =>
       /\ \A s \in Segs(q) :
            q.segments[s].blockedBoundary = 0 /\ q.segments[s].parentFlushed
              => s = 1
       /\ q.completedRootSegment # 0 => q.segments[1].status # "PENDING"
       /\ q.document = NoDocument
       /\ \A i \in DOMAIN calls : calls[i].op \notin SendingOps

Told(q) ==
  /\ q.allReady = IF q.allPendingTasks = 0 THEN 1 ELSE 0
  /\ q.shellReady = IF q.pendingRootTasks = 0 THEN 1 ELSE 0

(* All that does not count.                                                *)
Shape(q, calls, rank) ==
  /\ Sound(q) /\ Ranked(q, rank) /\ Homes(q)
  /\ CallsOK(q, calls) /\ Nested(calls, rank) /\ Cursors(q, calls)
  /\ Caughts(q.thrown, calls) /\ Roots(q, calls)

KInv(q, calls, rank) ==
  Shape(q, calls, rank) /\ Counts(q, calls, 0, 0) /\ Told(q)

QInv(q, rank) == KInv(q, q.calls, rank)

-----------------------------------------------------------------------------
(* A function of the code that changes what is sent and no task.           *)
Kept(q, p) ==
  /\ Segs(p) = Segs(q) /\ Bounds(p) = Bounds(q)
  /\ \A s \in Segs(q) :
       /\ p.segments[s].boundary = q.segments[s].boundary
       /\ p.segments[s].blockedBoundary = q.segments[s].blockedBoundary
       /\ p.segments[s].abortSet = q.segments[s].abortSet
       /\ p.segments[s].children = q.segments[s].children
       /\ p.segments[s].status = "PENDING" <=> q.segments[s].status = "PENDING"
       /\ q.pendingRootTasks > 0 /\ q.segments[s].blockedBoundary = 0
            => p.segments[s].parentFlushed = q.segments[s].parentFlushed
  /\ \A b \in Bounds(q) :
       /\ p.boundaries[b].fallbackAbortableTasks
            = q.boundaries[b].fallbackAbortableTasks
       /\ p.boundaries[b].pendingTasks = q.boundaries[b].pendingTasks
  /\ p.status = q.status \/ p.status # "OPEN"
  /\ p.abortableTasks = q.abortableTasks
  /\ p.allPendingTasks = q.allPendingTasks
  /\ p.pendingRootTasks = q.pendingRootTasks
  /\ p.pingedTasks = q.pingedTasks
  /\ p.shellReady = q.shellReady /\ p.allReady = q.allReady
  /\ q.pendingRootTasks > 0 =>
       p.completedRootSegment = q.completedRootSegment /\ p.document = q.document

LEMMA KeptRefl == ASSUME NEW q PROVE Kept(q, q)
  BY DEF Kept

LEMMA KeptTrans ==
  ASSUME NEW q, NEW p, NEW o, Kept(q, p), Kept(p, o) PROVE Kept(q, o)
  BY DEF Kept

LEMMA KeptTasks ==
  ASSUME NEW q, NEW p, Kept(q, p)
  PROVE  /\ Sets(p) = Sets(q)
         /\ \A set \in Sets(q) : Tasks(p, set) = Tasks(q, set)
  BY DEF Kept, Sets, Tasks, Bounds

LEMMA KeptLive ==
  ASSUME NEW q, NEW p, Sound(q), Kept(q, p)
  PROVE  Live(p) = Live(q) /\ \A b : LiveOf(p, b) = LiveOf(q, b)
<1>1. Live(p) = Live(q)
  BY KeptTasks DEF Kept, Live, Sound, Pointers
<1>2. ASSUME NEW b PROVE LiveOf(p, b) = LiveOf(q, b)
  BY <1>1 DEF Kept, LiveOf, Live
<1>. QED  BY <1>1, <1>2

LEMMA KeptCallOK ==
  ASSUME NEW q, NEW p, Kept(q, p), NEW c, CallOK(q, c) PROVE CallOK(p, c)
  BY DEF CallOK, Kept, Sets

LEMMA KeptKInv ==
  ASSUME NEW q, NEW p, NEW calls, NEW rank, KInv(q, calls, rank), Kept(q, p),
         Sound(p), Caughts(p.thrown, calls)
  PROVE  KInv(p, calls, rank)
<1>0. Sound(q) /\ Sets(p) = Sets(q) /\ Segs(p) = Segs(q) /\ Bounds(p) = Bounds(q)
      /\ \A set \in Sets(q) : Tasks(p, set) = Tasks(q, set)
  BY KeptTasks DEF KInv, Shape, Kept
<1>1. Ranked(p, rank)
  BY <1>0 DEF KInv, Shape, Ranked, Kept
<1>2. Homes(p)
  BY <1>0 DEF KInv, Shape, Homes, Kept
<1>3. CallsOK(p, calls)
  BY KeptCallOK DEF KInv, Shape, CallsOK
<1>4. Cursors(p, calls)
  <2>. SUFFICES ASSUME NEW set \in Sets(p), NEW t \in Tasks(p, set)
                PROVE  /\ \/ p.segments[t].status = "PENDING"
                          \/ \E i \in DOMAIN calls : Passes(calls[i], set) /\ calls[i].s > t
                       /\ \A i \in DOMAIN calls :
                            Passes(calls[i], set) /\ calls[i].s > t
                              => p.segments[t].status # "PENDING"
    BY DEF Cursors
  <2>1. set \in Sets(q) /\ t \in Tasks(q, set)
    BY <1>0
  <2>2. t \in Segs(q)
    BY <2>1 DEF KInv, Shape, Homes
  <2>. QED  BY <2>1, <2>2 DEF KInv, Shape, Cursors, Kept
<1>5. Roots(p, calls)
  BY <1>0 DEF KInv, Shape, Roots, Kept
<1>6. Counts(p, calls, 0, 0)
  BY <1>0, KeptLive DEF KInv, Counts, Kept
<1>7. Told(p)
  BY DEF KInv, Told, Kept
<1>. QED  BY <1>1, <1>2, <1>3, <1>4, <1>5, <1>6, <1>7 DEF KInv, Shape

-----------------------------------------------------------------------------
(* The calls that remain, one of them first.                               *)
Flushing(calls) ==
  calls # <<>> /\ calls[1].op \in FlushOps \cup {"catch"}

LEMMA FirstCall ==
  ASSUME NEW c \in CallRecord, NEW calls \in Seq(CallRecord)
  PROVE  /\ <<c>> \o calls \in Seq(CallRecord)
         /\ Len(calls) \in Nat /\ Len(<<c>> \o calls) = Len(calls) + 1
         /\ DOMAIN calls = 1..Len(calls) /\ DOMAIN (<<c>> \o calls) = 1..(Len(calls) + 1)
         /\ (<<c>> \o calls)[1] = c
         /\ \A i \in 1..Len(calls) :
              i + 1 \in 1..(Len(calls) + 1) /\ (<<c>> \o calls)[i + 1] = calls[i]
         /\ \A i \in 1..(Len(calls) + 1) : i # 1 =>
              i - 1 \in 1..Len(calls) /\ (<<c>> \o calls)[i] = calls[i - 1]
  OBVIOUS

LEMMA CallsOKCons ==
  ASSUME NEW c \in CallRecord, NEW calls \in Seq(CallRecord), NEW q
  PROVE  CallsOK(q, <<c>> \o calls) <=> CallOK(q, c) /\ CallsOK(q, calls)
<1>. DEFINE more == <<c>> \o calls
<1>. HIDE DEF more
<1>1. /\ DOMAIN calls = 1..Len(calls) /\ DOMAIN more = 1..(Len(calls) + 1)
      /\ more[1] = c /\ 1 \in DOMAIN more
      /\ \A i \in DOMAIN calls : i + 1 \in DOMAIN more /\ more[i + 1] = calls[i]
      /\ \A i \in DOMAIN more : i # 1 =>
           i - 1 \in DOMAIN calls /\ more[i] = calls[i - 1]
  BY FirstCall DEF more
<1>2. CallsOK(q, more) <=> CallOK(q, c) /\ CallsOK(q, calls)
  BY <1>1 DEF CallsOK
<1>. QED  BY <1>2 DEF more

LEMMA NestedCons ==
  ASSUME NEW c \in CallRecord, NEW calls \in Seq(CallRecord), NEW rank
  PROVE  Nested(<<c>> \o calls, rank) <=>
           /\ Nested(calls, rank)
           /\ Iterates(c) => \A j \in DOMAIN calls : Iterates(calls[j]) =>
                               rank[calls[j].b] < rank[c.b]
<1>. DEFINE more == <<c>> \o calls
<1>. HIDE DEF more
<1>1. /\ Len(calls) \in Nat /\ Len(more) = Len(calls) + 1
      /\ DOMAIN calls = 1..Len(calls) /\ DOMAIN more = 1..(Len(calls) + 1)
      /\ more[1] = c
      /\ \A i \in 1..Len(calls) :
           i + 1 \in 1..(Len(calls) + 1) /\ more[i + 1] = calls[i]
      /\ \A i \in 1..(Len(calls) + 1) : i # 1 =>
           i - 1 \in 1..Len(calls) /\ more[i] = calls[i - 1]
  BY FirstCall DEF more
<1>2. ASSUME Nested(more, rank)
      PROVE  /\ Nested(calls, rank)
             /\ Iterates(c) => \A j \in DOMAIN calls : Iterates(calls[j]) =>
                                 rank[calls[j].b] < rank[c.b]
  <2>1. ASSUME NEW i \in DOMAIN calls, NEW j \in DOMAIN calls, i < j,
               Iterates(calls[i]), Iterates(calls[j])
        PROVE  rank[calls[j].b] < rank[calls[i].b]
    <3>1. i + 1 \in DOMAIN more /\ j + 1 \in DOMAIN more /\ i + 1 < j + 1
          /\ more[i + 1] = calls[i] /\ more[j + 1] = calls[j]
      BY <1>1, <2>1
    <3>. QED  BY <1>2, <2>1, <3>1 DEF Nested
  <2>2. ASSUME Iterates(c), NEW j \in DOMAIN calls, Iterates(calls[j])
        PROVE  rank[calls[j].b] < rank[c.b]
    <3>1. 1 \in DOMAIN more /\ j + 1 \in DOMAIN more /\ 1 < j + 1
      BY <1>1
    <3>. QED  BY <1>1, <1>2, <2>2, <3>1 DEF Nested
  <2>. QED  BY <2>1, <2>2 DEF Nested
<1>3. ASSUME Nested(calls, rank),
             Iterates(c) => \A j \in DOMAIN calls : Iterates(calls[j]) =>
                              rank[calls[j].b] < rank[c.b]
      PROVE  Nested(more, rank)
  <2>. SUFFICES ASSUME NEW i \in DOMAIN more, NEW j \in DOMAIN more, i < j,
                       Iterates(more[i]), Iterates(more[j])
                PROVE  rank[more[j].b] < rank[more[i].b]
    BY DEF Nested
  <2>1. j # 1 /\ j - 1 \in DOMAIN calls /\ more[j] = calls[j - 1]
    BY <1>1
  <2>2. CASE i = 1
    BY <1>1, <1>3, <2>1, <2>2
  <2>3. CASE i # 1
    <3>1. i - 1 \in DOMAIN calls /\ more[i] = calls[i - 1] /\ i - 1 < j - 1
      BY <1>1, <2>1, <2>3
    <3>. QED  BY <1>3, <2>1, <3>1 DEF Nested
  <2>. QED  BY <2>2, <2>3
<1>. QED  BY <1>2, <1>3 DEF more

LEMMA CursorsCons ==
  ASSUME NEW c \in CallRecord, NEW calls \in Seq(CallRecord), NEW q,
         c.op \notin AbortOps
  PROVE  Cursors(q, <<c>> \o calls) <=> Cursors(q, calls)
<1>. DEFINE more == <<c>> \o calls
<1>. HIDE DEF more
<1>1. /\ Len(calls) \in Nat
      /\ DOMAIN calls = 1..Len(calls) /\ DOMAIN more = 1..(Len(calls) + 1)
      /\ more[1] = c
      /\ \A i \in 1..Len(calls) :
           i + 1 \in 1..(Len(calls) + 1) /\ more[i + 1] = calls[i]
      /\ \A i \in 1..(Len(calls) + 1) : i # 1 =>
           i - 1 \in 1..Len(calls) /\ more[i] = calls[i - 1]
  BY FirstCall DEF more
<1>2. \A set : \A i \in DOMAIN more : Passes(more[i], set) =>
        i - 1 \in DOMAIN calls /\ calls[i - 1] = more[i]
  BY <1>1 DEF Passes
<1>3. \A i \in DOMAIN calls : i + 1 \in DOMAIN more /\ more[i + 1] = calls[i]
  BY <1>1
<1>4. Cursors(q, more) <=> Cursors(q, calls)
  <2>1. ASSUME NEW set, NEW t
        PROVE  /\ (\E i \in DOMAIN more : Passes(more[i], set) /\ more[i].s > t)
                    <=> (\E i \in DOMAIN calls : Passes(calls[i], set) /\ calls[i].s > t)
    BY <1>2, <1>3
  <2>. QED  BY <2>1 DEF Cursors
<1>. QED  BY <1>4 DEF more

(* A call that is not one of a flush.                                      *)
LEMMA CaughtsCons ==
  ASSUME NEW c \in CallRecord, NEW calls \in Seq(CallRecord),
         c.op \notin FlushOps
  PROVE  Caughts(FALSE, <<c>> \o calls) <=> Caughts(FALSE, calls)
<1>. DEFINE more == <<c>> \o calls
<1>. HIDE DEF more
<1>1. /\ Len(calls) \in Nat
      /\ DOMAIN calls = 1..Len(calls) /\ DOMAIN more = 1..(Len(calls) + 1)
      /\ more[1] = c
      /\ \A i \in 1..Len(calls) :
           i + 1 \in 1..(Len(calls) + 1) /\ more[i + 1] = calls[i]
      /\ \A i \in 1..(Len(calls) + 1) : i # 1 =>
           i - 1 \in 1..Len(calls) /\ more[i] = calls[i - 1]
  BY FirstCall DEF more
<1>2. ASSUME Caughts(FALSE, more) PROVE Caughts(FALSE, calls)
  <2>. SUFFICES ASSUME NEW i \in DOMAIN calls, calls[i].op \in FlushOps
                PROVE  /\ i + 1 \in DOMAIN calls
                       /\ calls[i + 1].op \in FlushOps \cup {"catch"}
    BY DEF Caughts
  <2>1. i + 1 \in DOMAIN more /\ more[i + 1].op \in FlushOps
    BY <1>1
  <2>2. (i + 1) + 1 \in DOMAIN more /\ more[(i + 1) + 1].op \in FlushOps \cup {"catch"}
    BY <1>2, <2>1 DEF Caughts
  <2>. QED  BY <1>1, <2>2
<1>3. ASSUME Caughts(FALSE, calls) PROVE Caughts(FALSE, more)
  <2>. SUFFICES ASSUME NEW i \in DOMAIN more, more[i].op \in FlushOps
                PROVE  /\ i + 1 \in DOMAIN more
                       /\ more[i + 1].op \in FlushOps \cup {"catch"}
    BY DEF Caughts
  <2>1. i - 1 \in DOMAIN calls /\ calls[i - 1].op \in FlushOps
    BY <1>1
  <2>2. (i - 1) + 1 \in DOMAIN calls /\ calls[(i - 1) + 1].op \in FlushOps \cup {"catch"}
    BY <1>3, <2>1 DEF Caughts
  <2>. QED  BY <1>1, <2>2
<1>. QED  BY <1>2, <1>3 DEF more

(* A call of a flush, whatever has been thrown.                            *)
LEMMA CaughtsFlush ==
  ASSUME NEW c \in CallRecord, NEW calls \in Seq(CallRecord), NEW thrown \in BOOLEAN, NEW t,
         c.op \in FlushOps, Caughts(thrown, <<c>> \o calls)
  PROVE  Caughts(t, calls) /\ Flushing(calls)
<1>. DEFINE more == <<c>> \o calls
<1>. HIDE DEF more
<1>1. /\ Len(calls) \in Nat
      /\ DOMAIN calls = 1..Len(calls) /\ DOMAIN more = 1..(Len(calls) + 1)
      /\ more[1] = c
      /\ \A i \in 1..Len(calls) :
           i + 1 \in 1..(Len(calls) + 1) /\ more[i + 1] = calls[i]
      /\ \A i \in 1..(Len(calls) + 1) : i # 1 =>
           i - 1 \in 1..Len(calls) /\ more[i] = calls[i - 1]
  BY FirstCall DEF more
<1>2. Caughts(thrown, more)
  BY DEF more
<1>3. 1 + 1 \in DOMAIN more /\ more[1 + 1].op \in FlushOps \cup {"catch"}
  <2>1. 1 \in DOMAIN more /\ more[1].op \in FlushOps
    BY <1>1
  <2>2. \A i \in DOMAIN more : more[i].op \in FlushOps =>
          i + 1 \in DOMAIN more /\ more[i + 1].op \in FlushOps \cup {"catch"}
    BY <1>2 DEF Caughts
  <2>. QED  BY <2>1, <2>2
<1>4. Flushing(calls)
  BY <1>1, <1>3 DEF Flushing
<1>5. ASSUME NEW i \in DOMAIN calls, calls[i].op \in FlushOps
      PROVE  /\ i + 1 \in DOMAIN calls
             /\ calls[i + 1].op \in FlushOps \cup {"catch"}
  <2>1. i + 1 \in DOMAIN more /\ more[i + 1].op \in FlushOps
    BY <1>1, <1>5
  <2>2. (i + 1) + 1 \in DOMAIN more /\ more[(i + 1) + 1].op \in FlushOps \cup {"catch"}
    BY <1>2, <2>1 DEF Caughts
  <2>. QED  BY <1>1, <2>2
<1>. QED  BY <1>4, <1>5 DEF Caughts, Flushing

LEMMA LessCallsNat ==
  ASSUME NEW calls \in Seq(CallRecord)
  PROVE  /\ IsFiniteSet({i \in DOMAIN calls : calls[i].op = "oneTaskLess"})
         /\ LessCalls(calls) \in Nat
<1>1. {i \in DOMAIN calls : calls[i].op = "oneTaskLess"} \subseteq 1..Len(calls)
  OBVIOUS
<1>2. IsFiniteSet(1..Len(calls))
  BY FS_Interval
<1>3. IsFiniteSet({i \in DOMAIN calls : calls[i].op = "oneTaskLess"})
  BY <1>1, <1>2, FS_Subset
<1>. QED  BY <1>3, FS_CardinalityType DEF LessCalls

(* Calls before others, of which none is to count a task off.              *)
LEMMA LessCallsShift ==
  ASSUME NEW calls \in Seq(CallRecord), NEW more \in Seq(CallRecord), NEW k \in Nat,
         Len(more) = Len(calls) + k,
         \A i \in 1..Len(calls) : more[i + k] = calls[i],
         \A i \in 1..k : more[i].op # "oneTaskLess"
  PROVE  LessCalls(more) = LessCalls(calls)
<1>. DEFINE S == {i \in DOMAIN calls : calls[i].op = "oneTaskLess"}
            T == {i \in DOMAIN more : more[i].op = "oneTaskLess"}
            f == [i \in S |-> i + k]
<1>1. /\ Len(calls) \in Nat /\ DOMAIN calls = 1..Len(calls)
      /\ DOMAIN more = 1..(Len(calls) + k)
  OBVIOUS
<1>2. f \in Bijection(S, T)
  <2>1. f \in [S -> T]
    BY <1>1
  <2>2. \A i, j \in S : f[i] = f[j] => i = j
    BY <1>1
  <2>3. \A t \in T : \E i \in S : f[i] = t
    <3>. SUFFICES ASSUME NEW t \in T PROVE t - k \in S /\ (t - k) + k = t
      OBVIOUS
    <3>1. t \in 1..(Len(calls) + k) /\ t \notin 1..k
      BY <1>1
    <3>2. t - k \in 1..Len(calls) /\ (t - k) + k = t
      BY <1>1, <3>1
    <3>. QED  BY <1>1, <3>2
  <2>. QED  BY <2>1, <2>2, <2>3, Fun_IsBij
<1>3. IsFiniteSet(S)
  BY LessCallsNat
<1>. HIDE DEF f, S, T
<1>4. Cardinality(S) = Cardinality(T)
  BY <1>2, <1>3, FS_Bijection DEF ExistsBijection
<1>. QED  BY <1>4 DEF LessCalls, S, T

LEMMA LessCallsCons ==
  ASSUME NEW c \in CallRecord, NEW calls \in Seq(CallRecord)
  PROVE  /\ LessCalls(calls) \in Nat
         /\ LessCalls(<<c>> \o calls)
              = LessCalls(calls) + (IF c.op = "oneTaskLess" THEN 1 ELSE 0)
<1>. DEFINE more == <<c>> \o calls
            rest == [i \in 1..Len(more) |->
                       IF i = 1 THEN Call("catch", 0, 0) ELSE more[i]]
<1>1. /\ Len(calls) \in Nat /\ Len(more) = Len(calls) + 1 /\ more \in Seq(CallRecord)
      /\ DOMAIN calls = 1..Len(calls) /\ DOMAIN more = 1..(Len(calls) + 1)
      /\ more[1] = c
      /\ \A i \in 1..Len(calls) :
           i + 1 \in 1..(Len(calls) + 1) /\ more[i + 1] = calls[i]
      /\ \A i \in 1..(Len(calls) + 1) : i # 1 =>
           i - 1 \in 1..Len(calls) /\ more[i] = calls[i - 1]
  BY FirstCall
<1>. HIDE DEF more
<1>2. LessCalls(calls) \in Nat
  BY LessCallsNat
<1>3. CASE c.op # "oneTaskLess"
  <2>1. LessCalls(more) = LessCalls(calls)
    BY <1>1, <1>3, LessCallsShift
  <2>. QED  BY <1>2, <1>3, <2>1 DEF more
<1>4. CASE c.op = "oneTaskLess"
  <2>1. /\ rest \in Seq(CallRecord) /\ Len(rest) = Len(calls) + 1
        /\ rest[1].op # "oneTaskLess" /\ \A i \in 1..Len(calls) : rest[i + 1] = calls[i]
    <3>1. Call("catch", 0, 0) \in CallRecord /\ Call("catch", 0, 0).op = "catch"
      BY DEF CallRecord, Call, Ops
    <3>2. \A i \in 1..Len(more) : rest[i] \in CallRecord
      BY <1>1, <3>1
    <3>. QED  BY <1>1, <3>1, <3>2
  <2>. HIDE DEF rest
  <2>10. /\ rest \in Seq(CallRecord) /\ Len(rest) = Len(calls) + 1
         /\ rest[1].op # "oneTaskLess"
         /\ \A i \in 1..Len(calls) : rest[i + 1] = calls[i]
    BY <2>1
  <2>11. calls \in Seq(CallRecord)
    OBVIOUS
  <2>2. LessCalls(rest) = LessCalls(calls)
    BY ONLY <2>10, <2>11, LessCallsShift
  <2>. DEFINE S == {i \in DOMAIN rest : rest[i].op = "oneTaskLess"}
              T == {i \in DOMAIN more : more[i].op = "oneTaskLess"}
  <2>3. T = S \cup {1} /\ 1 \notin S
    BY <1>1, <1>4, <2>1 DEF rest
  <2>4. IsFiniteSet(S)
    BY <2>1, LessCallsNat
  <2>. HIDE DEF S, T
  <2>5. Cardinality(T) = Cardinality(S) + 1
    BY <2>3, <2>4, FS_AddElement
  <2>. QED  BY <1>2, <1>4, <2>2, <2>5 DEF LessCalls, S, T, more
<1>. QED  BY <1>3, <1>4

LEMMA RootsCons ==
  ASSUME NEW c \in CallRecord, NEW calls \in Seq(CallRecord), NEW q,
         c.op \notin SendingOps
  PROVE  Roots(q, <<c>> \o calls) <=> Roots(q, calls)
<1>. DEFINE more == <<c>> \o calls
<1>. HIDE DEF more
<1>1. /\ Len(calls) \in Nat
      /\ DOMAIN calls = 1..Len(calls) /\ DOMAIN more = 1..(Len(calls) + 1)
      /\ more[1] = c
      /\ \A i \in 1..Len(calls) :
           i + 1 \in 1..(Len(calls) + 1) /\ more[i + 1] = calls[i]
      /\ \A i \in 1..(Len(calls) + 1) : i # 1 =>
           i - 1 \in 1..Len(calls) /\ more[i] = calls[i - 1]
  BY FirstCall DEF more
<1>2. (\A i \in DOMAIN more : more[i].op \notin SendingOps)
        <=> (\A i \in DOMAIN calls : calls[i].op \notin SendingOps)
  BY <1>1
<1>. QED  BY <1>2 DEF Roots, more

Plain == {"catch", "flushIfFlowing", "queueCompletedSegment", "partiallyCompleted"}

(* A call that is not one of a flush, goes through no set, and counts no   *)
(* task off.                                                               *)
LEMMA PlainCons ==
  ASSUME NEW c \in CallRecord, NEW calls \in Seq(CallRecord), NEW q, NEW rank,
         c.op \in Plain, q.thrown = FALSE
  PROVE  KInv(q, <<c>> \o calls, rank) <=> CallOK(q, c) /\ KInv(q, calls, rank)
<1>1. c.op \notin FlushOps /\ c.op \notin AbortOps /\ c.op # "oneTaskLess"
      /\ ~Iterates(c) /\ c.op \notin SendingOps
  BY DEF Plain, FlushOps, SendingOps, AbortOps, Iterates
<1>2. /\ CallsOK(q, <<c>> \o calls) <=> CallOK(q, c) /\ CallsOK(q, calls)
      /\ Nested(<<c>> \o calls, rank) <=> Nested(calls, rank)
      /\ Cursors(q, <<c>> \o calls) <=> Cursors(q, calls)
      /\ Caughts(q.thrown, <<c>> \o calls) <=> Caughts(q.thrown, calls)
      /\ Roots(q, <<c>> \o calls) <=> Roots(q, calls)
  BY <1>1, CallsOKCons, NestedCons, CursorsCons, CaughtsCons, RootsCons
<1>3. LessCalls(<<c>> \o calls) = LessCalls(calls)
  BY <1>1, LessCallsCons
<1>4. Counts(q, <<c>> \o calls, 0, 0) <=> Counts(q, calls, 0, 0)
  BY <1>3 DEF Counts
<1>. QED  BY <1>2, <1>4 DEF KInv, Shape

(* The first call of a flush has been made.                                *)
LEMMA FlushMade ==
  ASSUME NEW c \in CallRecord, NEW calls \in Seq(CallRecord), NEW q, NEW rank,
         c.op \in FlushOps, KInv(q, <<c>> \o calls, rank)
  PROVE  /\ KInv(q, calls, rank) /\ Flushing(calls) /\ CallOK(q, c)
         /\ c.op \in SendingOps => ~(q.pendingRootTasks > 0)
<1>1. c.op \notin AbortOps /\ c.op # "oneTaskLess" /\ ~Iterates(c)
  BY DEF FlushOps, SendingOps, AbortOps, Iterates
<1>2. /\ CallsOK(q, <<c>> \o calls) <=> CallOK(q, c) /\ CallsOK(q, calls)
      /\ Nested(<<c>> \o calls, rank) <=> Nested(calls, rank)
      /\ Cursors(q, <<c>> \o calls) <=> Cursors(q, calls)
  BY <1>1, CallsOKCons, NestedCons, CursorsCons
<1>3. Caughts(q.thrown, calls) /\ Flushing(calls)
  <2>1. q.thrown \in BOOLEAN
    BY DEF KInv, Shape, Sound, RequestRecord
  <2>. QED  BY <2>1, CaughtsFlush DEF KInv, Shape
<1>4. Counts(q, calls, 0, 0)
  BY <1>1, LessCallsCons DEF Counts, KInv
<1>5. CASE c.op \in SendingOps
  <2>1. ~(q.pendingRootTasks > 0)
    <3>1. (<<c>> \o calls)[1] = c /\ 1 \in DOMAIN (<<c>> \o calls)
      BY FirstCall
    <3>. QED  BY <1>5, <3>1 DEF KInv, Shape, Roots
  <2>2. Roots(q, calls)
    BY <2>1 DEF KInv, Shape, Roots
  <2>. QED  BY <1>2, <1>3, <1>4, <2>1, <2>2 DEF KInv, Shape
<1>6. CASE c.op \notin SendingOps
  <2>1. Roots(q, calls)
    BY <1>6, RootsCons DEF KInv, Shape
  <2>. QED  BY <1>2, <1>3, <1>4, <1>6, <2>1 DEF KInv, Shape
<1>. QED  BY <1>5, <1>6

(* Calls of a flush that it makes next.                                    *)
FlushCalls(q, new) ==
  \A i \in DOMAIN new :
    /\ CallOK(q, new[i]) /\ new[i].op \in FlushOps
    /\ q.pendingRootTasks > 0 => new[i].op \notin SendingOps

LEMMA CallsBefore ==
  ASSUME NEW new \in Seq(CallRecord), NEW calls \in Seq(CallRecord)
  PROVE  /\ new \o calls \in Seq(CallRecord)
         /\ Len(new) \in Nat /\ Len(calls) \in Nat
         /\ Len(new \o calls) = Len(new) + Len(calls)
         /\ DOMAIN calls = 1..Len(calls) /\ DOMAIN new = 1..Len(new)
         /\ DOMAIN (new \o calls) = 1..(Len(new) + Len(calls))
         /\ \A i \in 1..Len(new) : (new \o calls)[i] = new[i]
         /\ \A i \in 1..Len(calls) : (new \o calls)[i + Len(new)] = calls[i]
         /\ \A i \in 1..(Len(new) + Len(calls)) : i \notin 1..Len(new) =>
              i - Len(new) \in 1..Len(calls) /\ (new \o calls)[i] = calls[i - Len(new)]
  OBVIOUS

LEMMA CallsAssociative ==
  ASSUME NEW s \in Seq(CallRecord), NEW t \in Seq(CallRecord), NEW u \in Seq(CallRecord)
  PROVE  (s \o t) \o u = s \o (t \o u)
  BY ConcatAssociative

LEMMA PushFlush ==
  ASSUME NEW new \in Seq(CallRecord), NEW calls \in Seq(CallRecord), NEW q, NEW rank,
         KInv(q, calls, rank), Flushing(calls), FlushCalls(q, new)
  PROVE  /\ new \o calls \in Seq(CallRecord)
         /\ KInv(q, new \o calls, rank) /\ Flushing(new \o calls)
<1>. DEFINE more == <<>> \o (new \o calls)
            n == Len(new)
<1>1. /\ more \in Seq(CallRecord) /\ more = new \o calls
      /\ n \in Nat /\ Len(calls) \in Nat /\ Len(more) = Len(calls) + n
      /\ DOMAIN calls = 1..Len(calls) /\ DOMAIN new = 1..n
      /\ DOMAIN more = 1..(n + Len(calls))
      /\ \A i \in 1..n : more[i] = new[i]
      /\ \A i \in 1..Len(calls) : more[i + n] = calls[i]
      /\ \A i \in 1..(n + Len(calls)) : i \notin 1..n =>
           i - n \in 1..Len(calls) /\ more[i] = calls[i - n]
  BY CallsBefore
<1>. HIDE DEF more, n
<1>2. \A i \in 1..n : /\ CallOK(q, more[i]) /\ more[i].op \in FlushOps
                      /\ q.pendingRootTasks > 0 => more[i].op \notin SendingOps
                      /\ more[i].op \notin AbortOps /\ ~Iterates(more[i])
                      /\ more[i].op # "oneTaskLess"
                      /\ \A set : ~Passes(more[i], set)
  BY <1>1 DEF FlushCalls, Iterates, Passes, FlushOps, SendingOps, AbortOps
<1>3. CallsOK(q, more)
  BY <1>1, <1>2 DEF CallsOK, KInv, Shape
<1>4. Nested(more, rank)
  <2>. SUFFICES ASSUME NEW i \in DOMAIN more, NEW j \in DOMAIN more, i < j,
                       Iterates(more[i]), Iterates(more[j])
                PROVE  rank[more[j].b] < rank[more[i].b]
    BY DEF Nested
  <2>1. i \notin 1..n /\ j \notin 1..n
    BY <1>2
  <2>2. /\ i - n \in DOMAIN calls /\ j - n \in DOMAIN calls /\ i - n < j - n
        /\ more[i] = calls[i - n] /\ more[j] = calls[j - n]
    BY <1>1, <2>1
  <2>. QED  BY <2>2 DEF KInv, Shape, Nested
<1>5. Cursors(q, more)
  <2>1. ASSUME NEW set, NEW t
        PROVE  /\ (\E i \in DOMAIN more : Passes(more[i], set) /\ more[i].s > t)
                    <=> (\E i \in DOMAIN calls : Passes(calls[i], set) /\ calls[i].s > t)
    <3>1. ASSUME NEW i \in DOMAIN more, Passes(more[i], set)
          PROVE  i - n \in DOMAIN calls /\ more[i] = calls[i - n]
      BY <1>1, <1>2, <3>1
    <3>2. ASSUME NEW i \in DOMAIN calls
          PROVE  i + n \in DOMAIN more /\ more[i + n] = calls[i]
      BY <1>1
    <3>. QED  BY <3>1, <3>2
  <2>2. Cursors(q, calls)
    BY DEF KInv, Shape
  <2>. QED  BY <2>1, <2>2 DEF Cursors
<1>6. Flushing(more)
  <2>1. CASE n = 0
    BY <1>1, <2>1 DEF Flushing
  <2>2. CASE n # 0
    <3>1. 1 \in 1..n /\ 1 \in DOMAIN more
      BY <1>1, <2>2
    <3>. QED  BY <1>2, <3>1 DEF Flushing
  <2>. QED  BY <2>1, <2>2
<1>7. Caughts(q.thrown, more)
  <2>1. ASSUME NEW i \in DOMAIN more, more[i].op \in FlushOps
        PROVE  /\ i + 1 \in DOMAIN more
               /\ more[i + 1].op \in FlushOps \cup {"catch"}
    <3>1. CASE i \in 1..n /\ i + 1 \in 1..n
      BY <1>1, <1>2, <3>1
    <3>2. CASE i \in 1..n /\ i + 1 \notin 1..n
      <4>1. i = n /\ 1 \in 1..Len(calls) /\ n + 1 \in DOMAIN more
        BY <1>1, <3>2 DEF Flushing
      <4>2. more[i + 1] = calls[1]
        BY <1>1, <4>1
      <4>. QED  BY <4>1, <4>2 DEF Flushing
    <3>3. CASE i \notin 1..n
      <4>1. i - n \in DOMAIN calls /\ more[i] = calls[i - n]
        BY <1>1, <3>3
      <4>2. /\ (i - n) + 1 \in DOMAIN calls
            /\ calls[(i - n) + 1].op \in FlushOps \cup {"catch"}
        BY <2>1, <4>1 DEF KInv, Shape, Caughts
      <4>3. i + 1 \in DOMAIN more /\ more[i + 1] = calls[(i - n) + 1]
        BY <1>1, <3>3, <4>1, <4>2
      <4>. QED  BY <4>2, <4>3
    <3>. QED  BY <3>1, <3>2, <3>3
  <2>. QED  BY <1>6, <2>1 DEF Caughts, Flushing
<1>8. Roots(q, more)
  <2>1. ASSUME q.pendingRootTasks > 0, NEW i \in DOMAIN more
        PROVE  more[i].op \notin SendingOps
    <3>1. CASE i \in 1..n
      BY <1>2, <2>1, <3>1
    <3>2. CASE i \notin 1..n
      BY <1>1, <2>1, <3>2 DEF KInv, Shape, Roots
    <3>. QED  BY <3>1, <3>2
  <2>. QED  BY <2>1 DEF KInv, Shape, Roots
<1>9. LessCalls(more) = LessCalls(calls)
  BY <1>1, <1>2, LessCallsShift
<1>10. Counts(q, more, 0, 0)
  BY <1>9 DEF Counts, KInv
<1>11. KInv(q, more, rank)
  BY <1>3, <1>4, <1>5, <1>7, <1>8, <1>10 DEF KInv, Shape
<1>. QED  BY <1>1, <1>6, <1>11

-----------------------------------------------------------------------------
(* The calls of a flush: nothing changes but what is sent, and the calls   *)
(* that it makes next.                                                     *)
Sends(q, p) ==
  /\ Sound(p) /\ Kept(q, p)
  /\ \E new \in Seq(CallRecord) :
       FlushCalls(q, new) /\ p.calls = new \o q.calls

LEMMA SendingStep ==
  ASSUME NEW q, NEW p, NEW c \in CallRecord, NEW rank, c.op \in FlushOps,
         Sound(q), KInv(q, <<c>> \o q.calls, rank), Sends(q, p)
  PROVE  QInv(p, rank)
<1>1. q.calls \in Seq(CallRecord) /\ p.calls \in Seq(CallRecord)
  BY DEF Sound, RequestRecord, Sends
<1>2. KInv(q, q.calls, rank) /\ Flushing(q.calls)
  BY <1>1, FlushMade
<1>3. PICK new \in Seq(CallRecord) : FlushCalls(q, new) /\ p.calls = new \o q.calls
  BY DEF Sends
<1>4. Caughts(p.thrown, q.calls)
  BY <1>2 DEF KInv, Shape, Caughts, Flushing
<1>5. KInv(p, q.calls, rank)
  BY <1>2, <1>4, KeptKInv DEF Sends
<1>6. FlushCalls(p, new)
  BY <1>3, KeptCallOK DEF FlushCalls, Sends, Kept
<1>. QED  BY <1>1, <1>2, <1>3, <1>5, <1>6, PushFlush DEF QInv

LEMMA SendsRefl ==
  ASSUME NEW q, Sound(q) PROVE Sends(q, q)
<1>1. q.calls \in Seq(CallRecord)
  BY DEF Sound, RequestRecord
<1>2. <<>> \in Seq(CallRecord) /\ q.calls = <<>> \o q.calls
  BY <1>1
<1>3. FlushCalls(q, <<>>)
  BY DEF FlushCalls
<1>. QED  BY <1>2, <1>3, KeptRefl DEF Sends

LEMMA SendsNone ==
  ASSUME NEW q, NEW p, Sound(p), Kept(q, p), p.calls = q.calls PROVE Sends(q, p)
<1>1. q.calls \in Seq(CallRecord)
  BY DEF Sound, RequestRecord
<1>2. <<>> \in Seq(CallRecord) /\ p.calls = <<>> \o q.calls
  BY <1>1
<1>3. FlushCalls(q, <<>>)
  BY DEF FlushCalls
<1>. QED  BY <1>2, <1>3 DEF Sends

LEMMA SendsTrans ==
  ASSUME NEW q, NEW p, NEW o, Sound(q), Sends(q, p), Sends(p, o)
  PROVE  Sends(q, o)
<1>1. PICK new \in Seq(CallRecord) : FlushCalls(q, new) /\ p.calls = new \o q.calls
  BY DEF Sends
<1>2. PICK more \in Seq(CallRecord) : FlushCalls(p, more) /\ o.calls = more \o p.calls
  BY DEF Sends
<1>3. Kept(q, o) /\ Sound(o)
  BY KeptTrans DEF Sends
<1>4. q.calls \in Seq(CallRecord)
  BY DEF Sound, RequestRecord
<1>5. more \o new \in Seq(CallRecord) /\ o.calls = (more \o new) \o q.calls
  <2>1. more \o new \in Seq(CallRecord)
    OBVIOUS
  <2>2. more \o (new \o q.calls) = (more \o new) \o q.calls
    BY <1>4, CallsAssociative
  <2>. QED  BY <1>1, <1>2, <2>1, <2>2
<1>6. FlushCalls(q, more)
  <2>. SUFFICES ASSUME NEW i \in DOMAIN more
                PROVE  /\ CallOK(q, more[i]) /\ more[i].op \in FlushOps
                       /\ q.pendingRootTasks > 0 => more[i].op \notin SendingOps
    BY DEF FlushCalls
  <2>1. CallOK(p, more[i]) /\ more[i].op \in FlushOps
        /\ (p.pendingRootTasks > 0 => more[i].op \notin SendingOps)
    BY <1>2 DEF FlushCalls
  <2>2. Segs(p) = Segs(q) /\ Bounds(p) = Bounds(q) /\ Sets(p) = Sets(q)
        /\ p.pendingRootTasks = q.pendingRootTasks
        /\ \A s \in Segs(q) : p.segments[s].blockedBoundary = q.segments[s].blockedBoundary
    BY DEF Sends, Kept, Sets
  <2>. QED  BY <2>1, <2>2 DEF CallOK
<1>7. FlushCalls(q, more \o new)
  <2>. DEFINE all == more \o new
  <2>1. /\ DOMAIN all = 1..(Len(more) + Len(new))
        /\ DOMAIN more = 1..Len(more) /\ DOMAIN new = 1..Len(new)
        /\ \A i \in 1..Len(more) : all[i] = more[i]
        /\ \A i \in 1..(Len(more) + Len(new)) : i \notin 1..Len(more) =>
             i - Len(more) \in 1..Len(new) /\ all[i] = new[i - Len(more)]
    BY CallsBefore
  <2>. HIDE DEF all
  <2>2. FlushCalls(q, all)
    BY <1>1, <1>6, <2>1 DEF FlushCalls
  <2>. QED  BY <2>2 DEF all
<1>. QED  BY <1>3, <1>5, <1>7 DEF Sends

LEMMA SendsCalling ==
  ASSUME NEW q, NEW new \in Seq(CallRecord), Sound(q), FlushCalls(q, new)
  PROVE  Sends(q, Calling(q, new))
<1>. DEFINE p == Calling(q, new)
<1>1. q.calls \in Seq(CallRecord)
  BY DEF Sound, RequestRecord
<1>2. new \o q.calls \in Seq(CallRecord)
  BY <1>1
<1>3. p = [q EXCEPT !.calls = new \o q.calls]
  BY DEF Calling
<1>. HIDE DEF p
<1>4. p \in RequestRecord /\ p.calls = new \o q.calls
  BY <1>2, <1>3 DEF Sound, RequestRecord
<1>5. Sound(p)
  <2>1. /\ p.segments = q.segments /\ p.boundaries = q.boundaries
        /\ p.clientRenderedBoundaries = q.clientRenderedBoundaries
        /\ p.completedBoundaries = q.completedBoundaries
        /\ p.partialBoundaries = q.partialBoundaries
        /\ p.completedRootSegment = q.completedRootSegment
    BY <1>3 DEF Sound, RequestRecord
  <2>. QED  BY <1>4, <2>1 DEF Sound, Pointers, Segs, Bounds, Sets
<1>6. Kept(q, p)
  BY <1>2, <1>3, <1>4 DEF Kept, Sound, RequestRecord, Segs, Bounds
<1>7. Sends(q, p)
  BY <1>4, <1>5, <1>6 DEF Sends
<1>. QED  BY <1>7 DEF p

(* A segment's record, but for what places it among the tasks.             *)
LEMMA SegmentChange ==
  ASSUME NEW q, NEW s \in Segs(q), NEW segment \in SegmentRecord, NEW p, Sound(q),
         p = [q EXCEPT !.segments[s] = segment],
         segment.boundary = q.segments[s].boundary,
         segment.blockedBoundary = q.segments[s].blockedBoundary,
         segment.abortSet = q.segments[s].abortSet,
         segment.children = q.segments[s].children,
         segment.status = "PENDING" <=> q.segments[s].status = "PENDING",
         q.pendingRootTasks > 0 /\ segment.blockedBoundary = 0
           => segment.parentFlushed = q.segments[s].parentFlushed
  PROVE  Sends(q, p) /\ p.calls = q.calls /\ p.thrown = q.thrown
<1>1. [q.segments EXCEPT ![s] = segment] \in Seq(SegmentRecord)
      /\ DOMAIN [q.segments EXCEPT ![s] = segment] = DOMAIN q.segments
  BY DEF Sound, RequestRecord, Segs
<1>2. p \in RequestRecord
  BY <1>1 DEF Sound, RequestRecord
<1>3. p.segments = [q.segments EXCEPT ![s] = segment] /\ Segs(p) = Segs(q)
      /\ p.boundaries = q.boundaries /\ Bounds(p) = Bounds(q) /\ Sets(p) = Sets(q)
      /\ p.calls = q.calls
  BY <1>1 DEF Sound, RequestRecord, Segs, Bounds, Sets
<1>4. ASSUME NEW t \in Segs(q)
      PROVE  /\ p.segments[t].boundary = q.segments[t].boundary
             /\ p.segments[t].blockedBoundary = q.segments[t].blockedBoundary
             /\ p.segments[t].abortSet = q.segments[t].abortSet
             /\ p.segments[t].children = q.segments[t].children
             /\ p.segments[t].status = "PENDING" <=> q.segments[t].status = "PENDING"
             /\ q.pendingRootTasks > 0 /\ q.segments[t].blockedBoundary = 0
                  => p.segments[t].parentFlushed = q.segments[t].parentFlushed
  <2>1. p.segments[t] = IF t = s THEN segment ELSE q.segments[t]
    BY <1>1, <1>3 DEF Segs
  <2>. QED  BY <2>1
<1>5. Kept(q, p)
  BY <1>2, <1>3, <1>4 DEF Kept, Sound, RequestRecord
<1>6. Pointers(p)
  <2>1. /\ p.clientRenderedBoundaries = q.clientRenderedBoundaries
        /\ p.completedBoundaries = q.completedBoundaries
        /\ p.partialBoundaries = q.partialBoundaries
        /\ p.completedRootSegment = q.completedRootSegment
    BY <1>2 DEF Sound, RequestRecord
  <2>. QED  BY <1>3, <1>4, <2>1 DEF Pointers, Sound
<1>7. p.thrown = q.thrown
  BY DEF Sound, RequestRecord
<1>. QED  BY <1>2, <1>3, <1>5, <1>6, <1>7, SendsNone DEF Sound

(* A boundary's record, but for its tasks.                                 *)
LEMMA BoundaryChange ==
  ASSUME NEW q, NEW b \in Bounds(q), NEW boundary \in BoundaryRecord, NEW p, Sound(q),
         p = [q EXCEPT !.boundaries[b] = boundary],
         boundary.pendingTasks = q.boundaries[b].pendingTasks,
         boundary.fallbackAbortableTasks = q.boundaries[b].fallbackAbortableTasks,
         \A i \in DOMAIN boundary.completedSegments :
           boundary.completedSegments[i] \in Segs(q)
  PROVE  Sends(q, p) /\ p.calls = q.calls /\ p.thrown = q.thrown
<1>1. [q.boundaries EXCEPT ![b] = boundary] \in Seq(BoundaryRecord)
      /\ DOMAIN [q.boundaries EXCEPT ![b] = boundary] = DOMAIN q.boundaries
  BY DEF Sound, RequestRecord, Bounds
<1>2. p \in RequestRecord
  BY <1>1 DEF Sound, RequestRecord
<1>3. p.boundaries = [q.boundaries EXCEPT ![b] = boundary] /\ Segs(p) = Segs(q)
      /\ p.segments = q.segments /\ Bounds(p) = Bounds(q) /\ Sets(p) = Sets(q)
      /\ p.calls = q.calls /\ p.thrown = q.thrown
  BY <1>1 DEF Sound, RequestRecord, Segs, Bounds, Sets
<1>4. ASSUME NEW c \in Bounds(q)
      PROVE  /\ p.boundaries[c].pendingTasks = q.boundaries[c].pendingTasks
             /\ p.boundaries[c].fallbackAbortableTasks
                  = q.boundaries[c].fallbackAbortableTasks
             /\ \A i \in DOMAIN p.boundaries[c].completedSegments :
                  p.boundaries[c].completedSegments[i] \in Segs(q)
  <2>1. p.boundaries[c] = IF c = b THEN boundary ELSE q.boundaries[c]
    BY <1>1, <1>3 DEF Bounds
  <2>. QED  BY <2>1 DEF Sound, Pointers
<1>5. Kept(q, p)
  BY <1>2, <1>3, <1>4 DEF Kept, Sound, RequestRecord
<1>6. Pointers(p)
  <2>1. /\ p.clientRenderedBoundaries = q.clientRenderedBoundaries
        /\ p.completedBoundaries = q.completedBoundaries
        /\ p.partialBoundaries = q.partialBoundaries
        /\ p.completedRootSegment = q.completedRootSegment
    BY <1>2 DEF Sound, RequestRecord
  <2>. QED  BY <1>3, <1>4, <2>1 DEF Pointers, Sound
<1>. QED  BY <1>2, <1>3, <1>5, <1>6, SendsNone DEF Sound

(* Fields that have nothing to do with segments, boundaries or tasks.      *)
LEMMA OtherChange ==
  ASSUME NEW q, NEW p \in RequestRecord, Sound(q),
         p.segments = q.segments, p.boundaries = q.boundaries,
         p.status = q.status \/ p.status # "OPEN", p.abortableTasks = q.abortableTasks,
         p.allPendingTasks = q.allPendingTasks,
         p.pendingRootTasks = q.pendingRootTasks,
         p.pingedTasks = q.pingedTasks, p.shellReady = q.shellReady,
         p.allReady = q.allReady, p.calls = q.calls,
         \A i \in DOMAIN p.clientRenderedBoundaries :
           p.clientRenderedBoundaries[i] \in Bounds(q),
         \A i \in DOMAIN p.completedBoundaries :
           p.completedBoundaries[i] \in Bounds(q),
         \A i \in DOMAIN p.partialBoundaries : p.partialBoundaries[i] \in Bounds(q),
         p.completedRootSegment \in {0, q.completedRootSegment},
         q.pendingRootTasks > 0 => /\ p.completedRootSegment = q.completedRootSegment
                                   /\ p.document = q.document
  PROVE  Sends(q, p)
<1>1. Kept(q, p)
  BY DEF Kept, Segs, Bounds
<1>2. Pointers(p)
  BY DEF Pointers, Sound, Segs, Bounds, Sets
<1>. QED  BY <1>1, <1>2, SendsNone DEF Sound

LEMMA Records ==
  ASSUME NEW q, Sound(q)
  PROVE  /\ \A s \in Segs(q) : q.segments[s] \in SegmentRecord /\ s \in Nat \ {0}
         /\ \A b \in Bounds(q) : q.boundaries[b] \in BoundaryRecord /\ b \in Nat \ {0}
         /\ \A b \in Sets(q) : b \in Nat
         /\ q.calls \in Seq(CallRecord)
<1>1. /\ q.segments \in Seq(SegmentRecord) /\ q.boundaries \in Seq(BoundaryRecord)
      /\ q.calls \in Seq(CallRecord)
  BY DEF Sound, RequestRecord
<1>2. /\ Segs(q) = 1..Len(q.segments) /\ Len(q.segments) \in Nat
      /\ Bounds(q) = 1..Len(q.boundaries) /\ Len(q.boundaries) \in Nat
  BY <1>1, LenProperties DEF Segs, Bounds
<1>3. \A s \in Segs(q) : q.segments[s] \in SegmentRecord
  BY <1>1, <1>2, ElementOfSeq
<1>4. \A b \in Bounds(q) : q.boundaries[b] \in BoundaryRecord
  BY <1>1, <1>2, ElementOfSeq
<1>. QED  BY <1>1, <1>2, <1>3, <1>4 DEF Sets

LEMMA OpNames ==
  /\ SendingOps \subseteq FlushOps /\ FlushOps \subseteq Ops
  /\ {"flushSegment", "fill", "flushPartiallyCompletedSegment", "reveal", "offer",
      "flushPartialBoundary", "clientRenderedBoundaries", "completedBoundaries",
      "partialBoundaries", "rootFlushed"} \subseteq SendingOps
  /\ {"closeIfDone", "catch", "flushIfFlowing", "oneTaskLess",
      "queueCompletedSegment", "partiallyCompleted", "completed", "abortTasks",
      "abortTasksSoft"} \subseteq Ops
  BY DEF Ops, FlushOps, SendingOps, AbortOps

LEMMA CallType ==
  ASSUME NEW op \in Ops, NEW s \in Nat, NEW b \in Nat
  PROVE  /\ Call(op, s, b) \in CallRecord
         /\ Call(op, s, b).op = op /\ Call(op, s, b).s = s /\ Call(op, s, b).b = b
  BY DEF Call, CallRecord

LEMMA CallsType ==
  ASSUME NEW op \in Ops, NEW ids \in Seq(Nat), NEW b \in Nat, NEW new,
         new = [i \in DOMAIN ids |-> Call(op, ids[i], b)]
  PROVE  /\ new \in Seq(CallRecord)
         /\ \A i \in DOMAIN ids : /\ new[i].op = op /\ new[i].s = ids[i]
                                 /\ new[i].b = b /\ new[i] \in CallRecord
<1>1. DOMAIN ids = 1..Len(ids) /\ Len(ids) \in Nat
  OBVIOUS
<1>2. ASSUME NEW i \in DOMAIN ids
      PROVE  /\ new[i].op = op /\ new[i].s = ids[i]
             /\ new[i].b = b /\ new[i] \in CallRecord
  <2>1. ids[i] \in Nat /\ new[i] = Call(op, ids[i], b)
    BY <1>1
  <2>. QED  BY <2>1, CallType
<1>. QED  BY <1>1, <1>2

LEMMA SendsWrite ==
  ASSUME NEW q, NEW set \in {"holes", "hidden", "filled", "loading", "settled"},
         NEW id \in Nat, NEW b \in Nat, NEW fits \in BOOLEAN,
         Sound(q), ~(q.pendingRootTasks > 0)
  PROVE  Sends(q, Write(q, set, id, b, fits))
<1>1. q \in RequestRecord /\ q.document \in Document
  BY DEF Sound, RequestRecord
<1>2. CASE q.ended # "no"
  BY <1>2, SendsRefl DEF Write
<1>3. CASE q.ended = "no"
  <2>. DEFINE d == [[q.document EXCEPT ![set] = @ \cup {id}] EXCEPT !.misplaced =
                      IF id \in q.document[set] \/ ~fits THEN @ \cup {b} ELSE @]
              p == [q EXCEPT !.document = d]
  <2>1. d \in Document
    BY <1>1 DEF Document
  <2>2. Write(q, set, id, b, fits) = p
    BY <1>1, <1>3 DEF Write, Document, RequestRecord
  <2>. HIDE DEF d
  <2>3. p \in RequestRecord
    BY <1>1, <2>1 DEF RequestRecord
  <2>4. /\ p.segments = q.segments /\ p.boundaries = q.boundaries
        /\ p.status = q.status /\ p.abortableTasks = q.abortableTasks
        /\ p.allPendingTasks = q.allPendingTasks
        /\ p.pendingRootTasks = q.pendingRootTasks
        /\ p.pingedTasks = q.pingedTasks /\ p.shellReady = q.shellReady
        /\ p.allReady = q.allReady /\ p.calls = q.calls
        /\ p.clientRenderedBoundaries = q.clientRenderedBoundaries
        /\ p.completedBoundaries = q.completedBoundaries
        /\ p.partialBoundaries = q.partialBoundaries
        /\ p.completedRootSegment = q.completedRootSegment
    BY <1>1 DEF RequestRecord
  <2>. HIDE DEF p
  <2>5. Sends(q, p)
    BY <2>3, <2>4, OtherChange DEF Sound, Pointers
  <2>. QED  BY <2>2, <2>5
<1>. QED  BY <1>2, <1>3

LEMMA SendsWrites ==
  ASSUME NEW q, NEW id \in Nat, NEW b \in Nat, Sound(q), ~(q.pendingRootTasks > 0)
  PROVE  /\ Sends(q, Hole(q, id, b)) /\ Sends(q, Hide(q, id, b))
         /\ Sends(q, Fill(q, id, b))
         /\ b \in Bounds(q) => /\ Sends(q, Loading(q, b)) /\ Sends(q, Reveal(q, b))
                               /\ Sends(q, ClientRender(q, b))
<1>1. /\ Sends(q, Hole(q, id, b)) /\ Sends(q, Hide(q, id, b))
  BY SendsWrite DEF Hole, Hide
<1>2. Sends(q, Fill(q, id, b))
  <2>1. (id \in q.document.holes \cap q.document.hidden) \in BOOLEAN
    OBVIOUS
  <2>. QED  BY <2>1, SendsWrite DEF Fill
<1>3. ASSUME b \in Bounds(q)
      PROVE  /\ Sends(q, Loading(q, b)) /\ Sends(q, Reveal(q, b))
             /\ Sends(q, ClientRender(q, b))
  <2>1. RootID(q, b) \in Nat
    BY <1>3, Records DEF RootID, BoundaryRecord
  <2>2. Sends(q, Loading(q, b))
    BY <2>1, SendsWrite DEF Loading
  <2>3. Sends(q, Reveal(q, b))
    <3>1. (RootID(q, b) \in q.document.loading \cap q.document.hidden) \in BOOLEAN
      OBVIOUS
    <3>. QED  BY <2>1, <3>1, SendsWrite DEF Reveal
  <2>4. Sends(q, ClientRender(q, b))
    <3>1. (RootID(q, b) \in q.document.loading) \in BOOLEAN
      OBVIOUS
    <3>. QED  BY <2>1, <3>1, SendsWrite DEF ClientRender
  <2>. QED  BY <2>2, <2>3, <2>4
<1>. QED  BY <1>1, <1>2, <1>3

LEMMA SendsOffer ==
  ASSUME NEW q, Sound(q) PROVE Sends(q, Offer(q))
<1>. DEFINE p == Offer(q)
<1>1. p \in RequestRecord
  <2>1. [q EXCEPT !.destination = FALSE] \in RequestRecord
    BY DEF Sound, RequestRecord
  <2>2. [q EXCEPT !.room = @ - 1] \in RequestRecord
    <3>1. q.room - 1 \in Int
      BY DEF Sound, RequestRecord
    <3>. QED  BY <3>1 DEF Sound, RequestRecord
  <2>. QED  BY <2>1, <2>2 DEF Offer
<1>2. /\ p.segments = q.segments /\ p.boundaries = q.boundaries
      /\ p.status = q.status /\ p.abortableTasks = q.abortableTasks
      /\ p.allPendingTasks = q.allPendingTasks
      /\ p.pendingRootTasks = q.pendingRootTasks
      /\ p.pingedTasks = q.pingedTasks /\ p.shellReady = q.shellReady
      /\ p.allReady = q.allReady /\ p.calls = q.calls
      /\ p.clientRenderedBoundaries = q.clientRenderedBoundaries
      /\ p.completedBoundaries = q.completedBoundaries
      /\ p.partialBoundaries = q.partialBoundaries
      /\ p.completedRootSegment = q.completedRootSegment
      /\ p.document = q.document
  BY DEF Offer, Sound, RequestRecord
<1>. HIDE DEF p
<1>3. Sends(q, p)
  BY <1>1, <1>2, OtherChange DEF Sound, Pointers
<1>. QED  BY <1>3 DEF p

LEMMA SendsThrow ==
  ASSUME NEW q, Sound(q), NEW b \in Nat,
         NEW error \in {"flushed again", "not one root segment",
                        "no root segment ID", "two root segments"}
  PROVE  Sends(q, Throw(q, error, b))
<1>. DEFINE p == Throw(q, error, b)
<1>0. [error |-> error, boundary |-> b] \in Failure
  BY DEF Failure
<1>1. p \in RequestRecord
  BY <1>0 DEF Throw, Sound, RequestRecord
<1>2. /\ p.segments = q.segments /\ p.boundaries = q.boundaries
      /\ p.status = q.status /\ p.abortableTasks = q.abortableTasks
      /\ p.allPendingTasks = q.allPendingTasks
      /\ p.pendingRootTasks = q.pendingRootTasks
      /\ p.pingedTasks = q.pingedTasks /\ p.shellReady = q.shellReady
      /\ p.allReady = q.allReady /\ p.calls = q.calls
      /\ p.clientRenderedBoundaries = q.clientRenderedBoundaries
      /\ p.completedBoundaries = q.completedBoundaries
      /\ p.partialBoundaries = q.partialBoundaries
      /\ p.completedRootSegment = q.completedRootSegment
      /\ p.document = q.document
  BY DEF Throw, Sound, RequestRecord
<1>. HIDE DEF p
<1>3. Sends(q, p)
  BY <1>1, <1>2, OtherChange DEF Sound, Pointers
<1>. QED  BY <1>3 DEF p

(* The record of a segment that is being flushed.                          *)
LEMMA SendsSegment ==
  ASSUME NEW q, NEW s \in Segs(q), NEW id \in Nat, Sound(q), ~(q.pendingRootTasks > 0)
  PROVE  /\ Sends(q, [q EXCEPT !.segments[s].parentFlushed = TRUE])
         /\ Sends(q, [q EXCEPT !.segments[s].id = id])
         /\ q.segments[s].status # "PENDING" =>
              Sends(q, [q EXCEPT !.segments[s].status = "FLUSHED"])
<1>1. q.segments[s] \in SegmentRecord
  BY Records
<1>2. Sends(q, [q EXCEPT !.segments[s].parentFlushed = TRUE])
  <2>. DEFINE segment == [q.segments[s] EXCEPT !.parentFlushed = TRUE]
  <2>1. /\ segment \in SegmentRecord /\ segment.boundary = q.segments[s].boundary
        /\ segment.blockedBoundary = q.segments[s].blockedBoundary
        /\ segment.abortSet = q.segments[s].abortSet
        /\ segment.children = q.segments[s].children
        /\ segment.status = q.segments[s].status
    BY <1>1 DEF SegmentRecord
  <2>. HIDE DEF segment
  <2>2. Sends(q, [q EXCEPT !.segments[s] = segment])
    BY <2>1, SegmentChange
  <2>. QED  BY <2>2 DEF segment
<1>3. Sends(q, [q EXCEPT !.segments[s].id = id])
  <2>. DEFINE segment == [q.segments[s] EXCEPT !.id = id]
  <2>1. /\ segment \in SegmentRecord /\ segment.boundary = q.segments[s].boundary
        /\ segment.blockedBoundary = q.segments[s].blockedBoundary
        /\ segment.abortSet = q.segments[s].abortSet
        /\ segment.children = q.segments[s].children
        /\ segment.status = q.segments[s].status
    BY <1>1 DEF SegmentRecord
  <2>. HIDE DEF segment
  <2>2. Sends(q, [q EXCEPT !.segments[s] = segment])
    BY <2>1, SegmentChange
  <2>. QED  BY <2>2 DEF segment
<1>4. ASSUME q.segments[s].status # "PENDING"
      PROVE  Sends(q, [q EXCEPT !.segments[s].status = "FLUSHED"])
  <2>. DEFINE segment == [q.segments[s] EXCEPT !.status = "FLUSHED"]
  <2>1. /\ segment \in SegmentRecord /\ segment.boundary = q.segments[s].boundary
        /\ segment.blockedBoundary = q.segments[s].blockedBoundary
        /\ segment.abortSet = q.segments[s].abortSet
        /\ segment.children = q.segments[s].children
        /\ segment.status # "PENDING"
    BY <1>1 DEF SegmentRecord
  <2>. HIDE DEF segment
  <2>2. Sends(q, [q EXCEPT !.segments[s] = segment])
    BY <1>4, <2>1, SegmentChange
  <2>. QED  BY <2>2 DEF segment
<1>. QED  BY <1>2, <1>3, <1>4

LEMMA SendsSound ==
  ASSUME NEW q, NEW p, Sends(q, p)
  PROVE  /\ Sound(p) /\ Segs(p) = Segs(q) /\ Bounds(p) = Bounds(q)
         /\ Sets(p) = Sets(q) /\ p.pendingRootTasks = q.pendingRootTasks
         /\ \A s \in Segs(q) : /\ p.segments[s].children = q.segments[s].children
                               /\ p.segments[s].status = "PENDING"
                                    <=> q.segments[s].status = "PENDING"
  BY DEF Sends, Kept, Sets

LEMMA SendsSubtree ==
  ASSUME NEW q, NEW s \in Segs(q), NEW b \in Sets(q), Sound(q),
         ~(q.pendingRootTasks > 0)
  PROVE  Sends(q, FlushSubtree(q, s, b))
<1>. DEFINE seen == [q EXCEPT !.segments[s].parentFlushed = TRUE]
            children == q.segments[s].children
            new == [i \in DOMAIN children |-> Call("flushSegment", children[i], b)]
            named == [seen EXCEPT !.segments[s].id = s]
            sent == [seen EXCEPT !.segments[s].status = "FLUSHED"]
<1>1. s \in Nat /\ b \in Nat /\ children \in Seq(Nat)
  BY Records DEF SegmentRecord
<1>2. Sends(q, seen)
  BY <1>1, SendsSegment
<1>. HIDE DEF seen
<1>3. /\ Sound(seen) /\ s \in Segs(seen) /\ ~(seen.pendingRootTasks > 0)
      /\ seen.segments[s].status = "PENDING" <=> q.segments[s].status = "PENDING"
  BY <1>2, SendsSound
<1>4. CASE q.segments[s].status = "PENDING"
  <2>1. Sends(seen, named)
    BY <1>1, <1>3, SendsSegment
  <2>. HIDE DEF named
  <2>2. Sends(q, named) /\ Sound(named) /\ ~(named.pendingRootTasks > 0)
    BY <1>2, <1>3, <2>1, SendsSound, SendsTrans
  <2>3. Sends(q, Hole(named, s, b))
    BY <1>1, <2>2, SendsWrites, SendsTrans
  <2>. QED  BY <1>4, <2>3 DEF FlushSubtree, named, seen
<1>5. CASE q.segments[s].status = "COMPLETED"
  <2>1. Sends(seen, sent)
    BY <1>1, <1>3, <1>5, SendsSegment
  <2>. HIDE DEF sent
  <2>2. Sends(q, sent) /\ Sound(sent) /\ Segs(sent) = Segs(q) /\ Sets(sent) = Sets(q)
        /\ ~(sent.pendingRootTasks > 0)
    BY <1>2, <1>3, <2>1, SendsSound, SendsTrans
  <2>3. \A i \in DOMAIN children : children[i] \in Segs(q) /\ children[i] \in Nat
    BY <1>1 DEF Sound, Pointers
  <2>4. /\ new \in Seq(CallRecord) /\ DOMAIN new = DOMAIN children
        /\ \A i \in DOMAIN children :
             new[i].op = "flushSegment" /\ new[i].s = children[i] /\ new[i].b = b
             /\ new[i] \in CallRecord
    <3>1. "flushSegment" \in Ops
      BY OpNames
    <3>. HIDE DEF children
    <3>2. DOMAIN new = DOMAIN children
      OBVIOUS
    <3>. QED  BY <1>1, <3>1, <3>2, CallsType
  <2>. HIDE DEF new
  <2>5. FlushCalls(sent, new)
    BY <2>2, <2>3, <2>4 DEF FlushCalls, CallOK, Ops, FlushOps, SendingOps, AbortOps
  <2>6. Sends(sent, Calling(sent, new))
    BY <2>2, <2>4, <2>5, SendsCalling
  <2>7. Sends(q, Calling(sent, new))
    BY <2>2, <2>6, SendsTrans
  <2>. QED  BY <1>5, <2>7 DEF FlushSubtree, sent, seen, new
<1>6. CASE q.segments[s].status \notin {"PENDING", "COMPLETED"}
  <2>1. Sends(q, Throw(seen, "flushed again", b))
    BY <1>1, <1>2, <1>3, SendsThrow, SendsTrans
  <2>. QED  BY <1>6, <2>1 DEF FlushSubtree, seen
<1>. QED  BY <1>4, <1>5, <1>6

FlushCall(q, c) ==
  /\ CallOK(q, c) /\ c.op \in FlushOps
  /\ q.pendingRootTasks > 0 => c.op \notin SendingOps

LEMMA FlushCallsFew ==
  ASSUME NEW q
  PROVE  /\ \A c \in CallRecord : FlushCall(q, c) =>
              <<c>> \in Seq(CallRecord) /\ FlushCalls(q, <<c>>)
         /\ \A c, d \in CallRecord : FlushCall(q, c) /\ FlushCall(q, d) =>
              <<c, d>> \in Seq(CallRecord) /\ FlushCalls(q, <<c, d>>)
         /\ \A c, d, e, f \in CallRecord :
              FlushCall(q, c) /\ FlushCall(q, d) /\ FlushCall(q, e) /\ FlushCall(q, f) =>
              <<c, d, e, f>> \in Seq(CallRecord) /\ FlushCalls(q, <<c, d, e, f>>)
  BY DEF FlushCalls, FlushCall

LEMMA FlushCallsConcat ==
  ASSUME NEW q, NEW new \in Seq(CallRecord), NEW more \in Seq(CallRecord),
         FlushCalls(q, new), FlushCalls(q, more)
  PROVE  new \o more \in Seq(CallRecord) /\ FlushCalls(q, new \o more)
<1>. DEFINE all == new \o more
<1>1. /\ DOMAIN all = 1..(Len(new) + Len(more)) /\ all \in Seq(CallRecord)
      /\ DOMAIN new = 1..Len(new) /\ DOMAIN more = 1..Len(more)
      /\ \A i \in 1..Len(new) : all[i] = new[i]
      /\ \A i \in 1..(Len(new) + Len(more)) : i \notin 1..Len(new) =>
           i - Len(new) \in 1..Len(more) /\ all[i] = more[i - Len(new)]
  BY CallsBefore
<1>. HIDE DEF all
<1>2. FlushCalls(q, all)
  BY <1>1 DEF FlushCalls
<1>. QED  BY <1>1, <1>2 DEF all

LEMMA SendsFew ==
  ASSUME NEW q, Sound(q)
  PROVE  /\ \A c \in CallRecord : FlushCall(q, c) => Sends(q, Calling(q, <<c>>))
         /\ \A c, d \in CallRecord : FlushCall(q, c) /\ FlushCall(q, d) =>
              Sends(q, Calling(q, <<c, d>>))
         /\ \A c, d, e, f \in CallRecord :
              FlushCall(q, c) /\ FlushCall(q, d) /\ FlushCall(q, e) /\ FlushCall(q, f) =>
              Sends(q, Calling(q, <<c, d, e, f>>))
  BY FlushCallsFew, SendsCalling

(* The calls that a flush makes.                                           *)
LEMMA SendingCalls ==
  ASSUME NEW q, Sound(q), ~(q.pendingRootTasks > 0)
  PROVE  /\ \A s \in Segs(q), b \in Sets(q) :
              LET c == Call("flushSegment", s, b)
              IN  c \in CallRecord /\ FlushCall(q, c)
         /\ \A s \in Segs(q), b \in Bounds(q) :
              LET c == Call("flushPartiallyCompletedSegment", s, b)
              IN  c \in CallRecord /\ FlushCall(q, c)
         /\ \A id \in Nat, b \in Bounds(q) :
              LET c == Call("fill", id, b)
              IN  c \in CallRecord /\ FlushCall(q, c)
         /\ \A op \in {"reveal", "flushPartialBoundary"}, b \in Bounds(q) :
              LET c == Call(op, 0, b)
              IN  c \in CallRecord /\ FlushCall(q, c)
         /\ \A op \in {"offer", "rootFlushed"} :
              LET c == Call(op, 0, 0)
              IN  c \in CallRecord /\ FlushCall(q, c)
         /\ \A op \in {"clientRenderedBoundaries", "completedBoundaries",
                       "partialBoundaries"}, b \in Sets(q) :
              LET c == Call(op, 0, b)
              IN  c \in CallRecord /\ FlushCall(q, c)
<1>1. /\ \A s \in Segs(q) : s \in Nat
      /\ \A b \in Sets(q) : b \in Nat
      /\ Bounds(q) \subseteq Sets(q)
  BY Records DEF Sets
<1>2. ASSUME NEW op \in SendingOps, NEW s \in Nat, NEW b \in Nat
      PROVE  /\ Call(op, s, b) \in CallRecord
             /\ Call(op, s, b).op = op /\ Call(op, s, b).s = s /\ Call(op, s, b).b = b
             /\ op \in Ops /\ op \in FlushOps /\ op \notin AbortOps
             /\ op \notin {"queueCompletedSegment", "partiallyCompleted", "completed"}
  BY CallType, OpNames DEF AbortOps, SendingOps
<1>3. ASSUME NEW s \in Segs(q), NEW b \in Sets(q)
      PROVE  Call("flushSegment", s, b) \in CallRecord
             /\ FlushCall(q, Call("flushSegment", s, b))
  <2>1. "flushSegment" \in SendingOps /\ s \in Nat /\ b \in Nat
    BY <1>1, OpNames
  <2>. QED  BY <1>2, <2>1 DEF FlushCall, CallOK, AbortOps
<1>4. ASSUME NEW s \in Segs(q), NEW b \in Bounds(q)
      PROVE  Call("flushPartiallyCompletedSegment", s, b) \in CallRecord
             /\ FlushCall(q, Call("flushPartiallyCompletedSegment", s, b))
  <2>1. "flushPartiallyCompletedSegment" \in SendingOps /\ s \in Nat /\ b \in Nat
    BY <1>1, OpNames
  <2>. QED  BY <1>2, <2>1 DEF FlushCall, CallOK, AbortOps
<1>5. ASSUME NEW id \in Nat, NEW b \in Bounds(q)
      PROVE  Call("fill", id, b) \in CallRecord /\ FlushCall(q, Call("fill", id, b))
  <2>1. "fill" \in SendingOps /\ b \in Nat
    BY <1>1, OpNames
  <2>. QED  BY <1>2, <2>1 DEF FlushCall, CallOK, AbortOps
<1>6. ASSUME NEW op \in {"reveal", "flushPartialBoundary"}, NEW b \in Bounds(q)
      PROVE  Call(op, 0, b) \in CallRecord /\ FlushCall(q, Call(op, 0, b))
  <2>1. op \in SendingOps /\ b \in Nat
    BY <1>1, OpNames
  <2>. QED  BY <1>2, <2>1 DEF FlushCall, CallOK, AbortOps
<1>7. ASSUME NEW op \in {"offer", "rootFlushed"}
      PROVE  Call(op, 0, 0) \in CallRecord /\ FlushCall(q, Call(op, 0, 0))
  <2>1. op \in SendingOps
    BY OpNames
  <2>. QED  BY <1>2, <2>1 DEF FlushCall, CallOK, AbortOps
<1>8. ASSUME NEW op \in {"clientRenderedBoundaries", "completedBoundaries",
                         "partialBoundaries"}, NEW b \in Sets(q)
      PROVE  Call(op, 0, b) \in CallRecord /\ FlushCall(q, Call(op, 0, b))
  <2>1. op \in SendingOps /\ b \in Nat
    BY <1>1, OpNames
  <2>. QED  BY <1>2, <2>1 DEF FlushCall, CallOK, AbortOps
<1>. QED  BY <1>3, <1>4, <1>5, <1>6, <1>7, <1>8

LEMMA SendsBoundary ==
  ASSUME NEW q, NEW b \in Bounds(q), Sound(q)
  PROVE  /\ Sends(q, [q EXCEPT !.boundaries[b].parentFlushed = TRUE])
         /\ \A id \in Nat : Sends(q, [q EXCEPT !.boundaries[b].rootSegmentID = id])
         /\ \A segments \in Seq(Segs(q)) :
              Sends(q, [q EXCEPT !.boundaries[b].completedSegments = segments])
<1>1. /\ q.boundaries[b] \in BoundaryRecord
      /\ \A i \in DOMAIN q.boundaries[b].completedSegments :
           q.boundaries[b].completedSegments[i] \in Segs(q)
  BY Records DEF Sound, Pointers
<1>2. Sends(q, [q EXCEPT !.boundaries[b].parentFlushed = TRUE])
  <2>. DEFINE boundary == [q.boundaries[b] EXCEPT !.parentFlushed = TRUE]
  <2>1. /\ boundary \in BoundaryRecord
        /\ boundary.pendingTasks = q.boundaries[b].pendingTasks
        /\ boundary.fallbackAbortableTasks = q.boundaries[b].fallbackAbortableTasks
        /\ boundary.completedSegments = q.boundaries[b].completedSegments
    BY <1>1 DEF BoundaryRecord
  <2>. HIDE DEF boundary
  <2>2. Sends(q, [q EXCEPT !.boundaries[b] = boundary])
    BY <1>1, <2>1, BoundaryChange
  <2>. QED  BY <2>2 DEF boundary
<1>3. ASSUME NEW id \in Nat
      PROVE  Sends(q, [q EXCEPT !.boundaries[b].rootSegmentID = id])
  <2>. DEFINE boundary == [q.boundaries[b] EXCEPT !.rootSegmentID = id]
  <2>1. /\ boundary \in BoundaryRecord
        /\ boundary.pendingTasks = q.boundaries[b].pendingTasks
        /\ boundary.fallbackAbortableTasks = q.boundaries[b].fallbackAbortableTasks
        /\ boundary.completedSegments = q.boundaries[b].completedSegments
    BY <1>1 DEF BoundaryRecord
  <2>. HIDE DEF boundary
  <2>2. Sends(q, [q EXCEPT !.boundaries[b] = boundary])
    BY <1>1, <2>1, BoundaryChange
  <2>. QED  BY <2>2 DEF boundary
<1>4. ASSUME NEW segments \in Seq(Segs(q))
      PROVE  Sends(q, [q EXCEPT !.boundaries[b].completedSegments = segments])
  <2>. DEFINE boundary == [q.boundaries[b] EXCEPT !.completedSegments = segments]
  <2>0. segments \in Seq(Nat) /\ \A i \in DOMAIN segments : segments[i] \in Segs(q)
    BY Records
  <2>1. /\ boundary \in BoundaryRecord
        /\ boundary.pendingTasks = q.boundaries[b].pendingTasks
        /\ boundary.fallbackAbortableTasks = q.boundaries[b].fallbackAbortableTasks
        /\ boundary.completedSegments = segments
    BY <1>1, <2>0 DEF BoundaryRecord
  <2>. HIDE DEF boundary
  <2>2. Sends(q, [q EXCEPT !.boundaries[b] = boundary])
    BY <2>0, <2>1, BoundaryChange
  <2>. QED  BY <2>2 DEF boundary
<1>. QED  BY <1>2, <1>3, <1>4

Queues == {"clientRenderedBoundaries", "completedBoundaries", "partialBoundaries"}

LEMMA SendsQueue ==
  ASSUME NEW q, NEW queue \in Queues, NEW boundaries \in Seq(Bounds(q)), NEW p, Sound(q),
         p = [q EXCEPT ![queue] = boundaries]
  PROVE  Sends(q, p) /\ p.calls = q.calls /\ p.thrown = q.thrown
<1>0. /\ boundaries \in Seq(Nat)
      /\ \A i \in DOMAIN boundaries : boundaries[i] \in Bounds(q)
  BY Records
<1>1. q \in RequestRecord
  BY DEF Sound
<1>2. p \in RequestRecord
  <2>1. CASE queue = "clientRenderedBoundaries"
    BY <1>0, <1>1, <2>1 DEF RequestRecord
  <2>2. CASE queue = "completedBoundaries"
    BY <1>0, <1>1, <2>2 DEF RequestRecord
  <2>3. CASE queue = "partialBoundaries"
    BY <1>0, <1>1, <2>3 DEF RequestRecord
  <2>. QED  BY <2>1, <2>2, <2>3 DEF Queues
<1>3. /\ p.segments = q.segments /\ p.boundaries = q.boundaries
      /\ p.status = q.status /\ p.abortableTasks = q.abortableTasks
      /\ p.allPendingTasks = q.allPendingTasks
      /\ p.pendingRootTasks = q.pendingRootTasks
      /\ p.pingedTasks = q.pingedTasks /\ p.shellReady = q.shellReady
      /\ p.allReady = q.allReady /\ p.calls = q.calls
      /\ p.clientRenderedBoundaries =
           IF queue = "clientRenderedBoundaries" THEN boundaries
                                                 ELSE q.clientRenderedBoundaries
      /\ p.completedBoundaries =
           IF queue = "completedBoundaries" THEN boundaries ELSE q.completedBoundaries
      /\ p.partialBoundaries =
           IF queue = "partialBoundaries" THEN boundaries ELSE q.partialBoundaries
      /\ p.completedRootSegment = q.completedRootSegment
      /\ p.document = q.document /\ p.thrown = q.thrown
  BY <1>1 DEF RequestRecord, Queues
<1>4. /\ \A i \in DOMAIN p.clientRenderedBoundaries :
           p.clientRenderedBoundaries[i] \in Bounds(q)
      /\ \A i \in DOMAIN p.completedBoundaries :
           p.completedBoundaries[i] \in Bounds(q)
      /\ \A i \in DOMAIN p.partialBoundaries : p.partialBoundaries[i] \in Bounds(q)
  BY <1>0, <1>3 DEF Sound, Pointers
<1>. QED  BY <1>2, <1>3, <1>4, OtherChange

LEMMA QueueType ==
  ASSUME NEW q, NEW queue \in Queues, Sound(q)
  PROVE  q[queue] \in Seq(Bounds(q))
<1>1. /\ q[queue] \in Seq(Nat)
      /\ \A i \in DOMAIN q[queue] : q[queue][i] \in Bounds(q)
  BY DEF Sound, RequestRecord, Pointers, Queues
<1>. QED  BY <1>1

LEMMA SegmentsType ==
  ASSUME NEW q, NEW b \in Bounds(q), Sound(q)
  PROVE  q.boundaries[b].completedSegments \in Seq(Segs(q))
<1>1. /\ q.boundaries[b].completedSegments \in Seq(Nat)
      /\ \A i \in DOMAIN q.boundaries[b].completedSegments :
           q.boundaries[b].completedSegments[i] \in Segs(q)
  BY Records DEF Sound, Pointers, BoundaryRecord
<1>. QED  BY <1>1

LEMMA SendsFlushSegment ==
  ASSUME NEW q, NEW s \in Segs(q), NEW b \in Sets(q), Sound(q),
         ~(q.pendingRootTasks > 0)
  PROVE  Sends(q, FlushSegment(q, s, b))
<1>. DEFINE c == q.segments[s].boundary
            boundary == q.boundaries[c]
            seen == [q EXCEPT !.boundaries[c].parentFlushed = TRUE]
            id == IF seen.boundaries[c].rootSegmentID = 0 THEN s + 1
                  ELSE seen.boundaries[c].rootSegmentID + MaxSegments
            named == [seen EXCEPT !.boundaries[c].rootSegmentID = id]
            queued == IF boundary.completedSegments = <<>> THEN named
                      ELSE [named EXCEPT !.partialBoundaries = Append(@, c)]
<1>1. CASE c = 0
  BY <1>1, SendsSubtree DEF FlushSegment
<1>2. CASE c # 0
  <2>1. c \in Bounds(q) /\ c \in Sets(q) /\ s \in Nat /\ b \in Nat /\ c \in Nat
    BY <1>2, Records DEF Sound, Pointers, Sets
  <2>2. Sends(q, seen)
    BY <2>1, SendsBoundary
  <2>3. /\ Sound(seen) /\ s \in Segs(seen) /\ b \in Sets(seen) /\ c \in Bounds(seen)
        /\ c \in Sets(seen) /\ ~(seen.pendingRootTasks > 0)
    BY <2>1, <2>2, SendsSound
  <2>4. boundary.status \in {"PENDING", "COMPLETED", "CLIENT_RENDERED"}
    BY <2>1, Records DEF BoundaryRecord
  <2>5. CASE boundary.status = "CLIENT_RENDERED"
    <3>. HIDE DEF seen
    <3>1. Sends(seen, FlushSubtree(seen, s, b))
      BY <2>3, SendsSubtree
    <3>2. Sends(q, FlushSubtree(seen, s, b))
      BY <2>2, <3>1, SendsTrans
    <3>. QED  BY <1>2, <2>5, <3>2 DEF FlushSegment, seen
  <2>6. CASE boundary.status = "PENDING"
    <3>. HIDE DEF seen
    <3>1. id \in Nat
      <4>1. seen.boundaries[c].rootSegmentID \in Nat
        BY <2>3, Records DEF BoundaryRecord
      <4>2. MaxSegments \in Nat
        BY BoundsAssumption DEF MaxSegments
      <4>. QED  BY <2>1, <4>1, <4>2
    <3>. HIDE DEF id
    <3>2. Sends(seen, named)
      BY <2>3, <3>1, SendsBoundary
    <3>. HIDE DEF named
    <3>3. /\ Sends(q, named) /\ Sound(named) /\ c \in Bounds(named) /\ s \in Segs(named)
          /\ b \in Sets(named) /\ ~(named.pendingRootTasks > 0)
      BY <2>2, <2>3, <3>2, SendsSound, SendsTrans
    <3>4. Sends(named, queued)
      <4>1. CASE boundary.completedSegments = <<>>
        BY <3>3, <4>1, SendsRefl
      <4>2. CASE boundary.completedSegments # <<>>
        <5>1. named.partialBoundaries \in Seq(Bounds(named))
          BY <3>3, QueueType DEF Queues
        <5>2. Append(named.partialBoundaries, c) \in Seq(Bounds(named))
          BY <3>3, <5>1
        <5>3. Sends(named, [named EXCEPT !.partialBoundaries
                                           = Append(named.partialBoundaries, c)])
          BY <3>3, <5>2, SendsQueue DEF Queues
        <5>. QED  BY <4>2, <5>3
      <4>. QED  BY <4>1, <4>2
    <3>. HIDE DEF queued
    <3>5. /\ Sends(q, queued) /\ Sound(queued) /\ c \in Bounds(queued)
          /\ s \in Segs(queued) /\ b \in Sets(queued) /\ ~(queued.pendingRootTasks > 0)
      BY <3>3, <3>4, SendsSound, SendsTrans
    <3>. DEFINE loading == Loading(queued, c)
    <3>6. Sends(queued, loading)
      BY <2>1, <3>5, SendsWrites
    <3>. HIDE DEF loading
    <3>7. /\ Sends(q, loading) /\ Sound(loading)
          /\ s \in Segs(loading) /\ b \in Sets(loading) /\ ~(loading.pendingRootTasks > 0)
      BY <3>5, <3>6, SendsSound, SendsTrans
    <3>8. Sends(q, FlushSubtree(loading, s, b))
      BY <3>7, SendsSubtree, SendsTrans
    <3>. QED  BY <1>2, <2>6, <3>8, Zenon DEF FlushSegment, loading, queued, named, id, seen
  <2>7. CASE boundary.status = "COMPLETED" /\ Len(boundary.completedSegments) # 1
    <3>. HIDE DEF seen
    <3>1. Sends(q, Throw(seen, "not one root segment", c))
      BY <2>1, <2>2, <2>3, SendsThrow, SendsTrans
    <3>. QED  BY <1>2, <2>7, <3>1 DEF FlushSegment, seen
  <2>8. CASE boundary.status = "COMPLETED" /\ Len(boundary.completedSegments) = 1
    <3>1. boundary.completedSegments[1] \in Segs(q)
      BY <2>1, <2>8, SegmentsType
    <3>. HIDE DEF seen
    <3>2. boundary.completedSegments[1] \in Segs(seen)
      BY <2>2, <3>1, SendsSound
    <3>3. Sends(q, Calling(seen, <<Call("flushSegment",
                                        boundary.completedSegments[1], c)>>))
      BY <2>2, <2>3, <3>2, SendingCalls, SendsFew, SendsTrans
    <3>. QED  BY <1>2, <2>8, <3>3 DEF FlushSegment, seen
  <2>. QED  BY <2>4, <2>5, <2>6, <2>7, <2>8
<1>. QED  BY <1>1, <1>2

LEMMA SendsContainer ==
  ASSUME NEW q, NEW s \in Segs(q), NEW b \in Bounds(q), NEW id \in Nat, Sound(q),
         ~(q.pendingRootTasks > 0)
  PROVE  Sends(q, FlushSegmentContainer(q, s, b, id))
<1>. DEFINE named == [q EXCEPT !.segments[s].id = id]
            hidden == Hide(named, id, b)
            calls == IF id = RootID(q, b) THEN <<Call("flushSegment", s, b)>>
                     ELSE <<Call("flushSegment", s, b), Call("fill", id, b)>>
<1>1. Sends(q, named)
  BY SendsSegment
<1>. HIDE DEF named
<1>2. /\ Sound(named) /\ ~(named.pendingRootTasks > 0) /\ b \in Nat
  BY <1>1, SendsSound, Records
<1>3. Sends(named, hidden)
  BY <1>2, SendsWrites
<1>. HIDE DEF hidden
<1>4. /\ Sends(q, hidden) /\ Sound(hidden) /\ ~(hidden.pendingRootTasks > 0)
      /\ s \in Segs(hidden) /\ b \in Bounds(hidden) /\ b \in Sets(hidden)
  BY <1>1, <1>2, <1>3, SendsSound, SendsTrans DEF Sets
<1>5. Sends(hidden, Calling(hidden, calls))
  <2>1. /\ Call("flushSegment", s, b) \in CallRecord
        /\ FlushCall(hidden, Call("flushSegment", s, b))
        /\ Call("fill", id, b) \in CallRecord /\ FlushCall(hidden, Call("fill", id, b))
    BY <1>4, SendingCalls
  <2>. QED  BY <1>4, <2>1, SendsFew
<1>6. Sends(q, Calling(hidden, calls))
  BY <1>4, <1>5, SendsTrans
<1>. QED  BY <1>6 DEF FlushSegmentContainer, hidden, named

LEMMA SendsPartially ==
  ASSUME NEW q, NEW s \in Segs(q), NEW b \in Bounds(q), Sound(q),
         ~(q.pendingRootTasks > 0)
  PROVE  Sends(q, FlushPartiallyCompletedSegment(q, s, b))
<1>. DEFINE id == IF q.segments[s].id = 0 THEN RootID(q, b) ELSE q.segments[s].id
<1>1. id \in Nat /\ b \in Nat
  BY Records DEF RootID, SegmentRecord, BoundaryRecord
<1>. HIDE DEF id
<1>2. Sends(q, FlushSegmentContainer(q, s, b, id))
  BY <1>1, SendsContainer
<1>3. Sends(q, Throw(q, "no root segment ID", b)) /\ Sends(q, q)
  BY <1>1, SendsThrow, SendsRefl
<1>. QED  BY <1>2, <1>3 DEF FlushPartiallyCompletedSegment, id

LEMMA SendsCompletedBoundary ==
  ASSUME NEW q, NEW b \in Bounds(q), Sound(q), ~(q.pendingRootTasks > 0)
  PROVE  Sends(q, FlushCompletedBoundary(q, b))
<1>. DEFINE segments == q.boundaries[b].completedSegments
            new == [i \in DOMAIN segments |->
                      Call("flushPartiallyCompletedSegment", segments[i], b)]
<1>1. segments \in Seq(Segs(q)) /\ segments \in Seq(Nat)
      /\ (\A i \in DOMAIN segments : segments[i] \in Segs(q)) /\ b \in Nat
  BY SegmentsType, Records
<1>2. "flushPartiallyCompletedSegment" \in Ops
  BY OpNames
<1>. HIDE DEF segments
<1>3. DOMAIN new = DOMAIN segments
  OBVIOUS
<1>4. /\ new \in Seq(CallRecord)
      /\ \A i \in DOMAIN segments : new[i] = Call("flushPartiallyCompletedSegment",
                                                  segments[i], b)
  BY <1>1, <1>2, CallsType
<1>. HIDE DEF new
<1>5. FlushCalls(q, new)
  BY <1>1, <1>3, <1>4, SendingCalls DEF FlushCalls, FlushCall
<1>6. /\ <<Call("reveal", 0, b)>> \in Seq(CallRecord)
      /\ FlushCalls(q, <<Call("reveal", 0, b)>>)
  BY SendingCalls, FlushCallsFew
<1>7. Sends(q, Calling(q, new \o <<Call("reveal", 0, b)>>))
  BY <1>4, <1>5, <1>6, FlushCallsConcat, SendsCalling
<1>. QED  BY <1>7 DEF FlushCompletedBoundary, new, segments

LEMMA SendsReveal ==
  ASSUME NEW q, NEW b \in Bounds(q), Sound(q), ~(q.pendingRootTasks > 0)
  PROVE  Sends(q, RevealBoundary(q, b))
<1>. DEFINE empty == [q EXCEPT !.boundaries[b].completedSegments = <<>>]
            told == Reveal(empty, b)
<1>1. Sends(q, empty)
  <2>1. <<>> \in Seq(Segs(q))
    OBVIOUS
  <2>. QED  BY <2>1, SendsBoundary
<1>. HIDE DEF empty
<1>2. Sound(empty) /\ b \in Bounds(empty) /\ b \in Nat /\ ~(empty.pendingRootTasks > 0)
  BY <1>1, SendsSound, Records
<1>3. Sends(empty, told)
  BY <1>2, SendsWrites
<1>. HIDE DEF told
<1>4. Sends(q, told) /\ Sound(told)
  BY <1>1, <1>3, SendsSound, SendsTrans
<1>5. Sends(q, Offer(told))
  BY <1>4, SendsOffer, SendsTrans
<1>. QED  BY <1>5 DEF RevealBoundary, told, empty

LEMMA SendsPartialBoundary ==
  ASSUME NEW q, NEW b \in Bounds(q), Sound(q), ~(q.pendingRootTasks > 0)
  PROVE  Sends(q, FlushPartialBoundary(q, b))
<1>. DEFINE segments == q.boundaries[b].completedSegments
            s == Head(segments)
            taken == [q EXCEPT !.boundaries[b].completedSegments = Tail(segments)]
            first == <<Call("flushPartiallyCompletedSegment", s, b)>>
            offer == IF q.segments[s].status = "FLUSHED" THEN <<>>
                     ELSE <<Call("offer", 0, 0)>>
            next == <<Call("flushPartialBoundary", 0, b)>>
<1>1. CASE ~q.destination \/ segments = <<>>
  BY <1>1, SendsRefl DEF FlushPartialBoundary
<1>2. CASE ~(~q.destination \/ segments = <<>>)
  <2>1. s \in Segs(q) /\ Tail(segments) \in Seq(Segs(q))
    BY <1>2, SegmentsType
  <2>2. Sends(q, taken)
    BY <2>1, SendsBoundary, Zenon
  <2>. HIDE DEF taken
  <2>3. /\ Sound(taken) /\ b \in Bounds(taken) /\ s \in Segs(taken)
        /\ ~(taken.pendingRootTasks > 0)
    BY <2>1, <2>2, SendsSound
  <2>4. /\ first \in Seq(CallRecord) /\ FlushCalls(taken, first)
        /\ offer \in Seq(CallRecord) /\ FlushCalls(taken, offer)
        /\ next \in Seq(CallRecord) /\ FlushCalls(taken, next)
    <3>1. first \in Seq(CallRecord) /\ FlushCalls(taken, first)
      BY <2>3, SendingCalls, FlushCallsFew
    <3>2. offer \in Seq(CallRecord) /\ FlushCalls(taken, offer)
      <4>1. <<>> \in Seq(CallRecord) /\ FlushCalls(taken, <<>>)
        BY DEF FlushCalls
      <4>2. /\ <<Call("offer", 0, 0)>> \in Seq(CallRecord)
            /\ FlushCalls(taken, <<Call("offer", 0, 0)>>)
        BY <2>3, SendingCalls, FlushCallsFew
      <4>. QED  BY <4>1, <4>2
    <3>3. next \in Seq(CallRecord) /\ FlushCalls(taken, next)
      BY <2>3, SendingCalls, FlushCallsFew
    <3>. QED  BY <3>1, <3>2, <3>3, Zenon
  <2>. HIDE DEF first, offer, next
  <2>5. Sends(taken, Calling(taken, (first \o offer) \o next))
    <3>1. first \o offer \in Seq(CallRecord) /\ FlushCalls(taken, first \o offer)
      BY <2>4, FlushCallsConcat
    <3>. QED  BY <2>3, <2>4, <3>1, FlushCallsConcat, SendsCalling
  <2>6. Sends(q, Calling(taken, (first \o offer) \o next))
    BY <2>2, <2>5, SendsTrans
  <2>. QED  BY <1>2, <2>6 DEF FlushPartialBoundary, first, offer, next, taken
<1>. QED  BY <1>1, <1>2

LEMMA SendsItem ==
  ASSUME NEW q, NEW queue \in Queues, NEW b \in Bounds(q), Sound(q),
         ~(q.pendingRootTasks > 0)
  PROVE  Sends(q, FlushItem(q, queue, b))
<1>1. CASE queue = "clientRenderedBoundaries"
  <2>1. Sends(q, ClientRender(q, b))
    BY Records, SendsWrites
  <2>2. Sends(q, Offer(ClientRender(q, b)))
    BY <2>1, SendsOffer, SendsTrans, SendsSound
  <2>. QED  BY <1>1, <2>2 DEF FlushItem
<1>2. CASE queue = "completedBoundaries"
  BY <1>2, SendsCompletedBoundary DEF FlushItem
<1>3. CASE queue = "partialBoundaries"
  BY <1>3, SendsPartialBoundary DEF FlushItem
<1>. QED  BY <1>1, <1>2, <1>3 DEF Queues

LEMMA SendsFlushQueue ==
  ASSUME NEW q, NEW queue \in Queues, NEW sent, Sound(q), ~(q.pendingRootTasks > 0)
  PROVE  Sends(q, FlushQueue(q, queue, sent))
<1>. DEFINE rest == IF sent = 0 THEN q
                    ELSE [q EXCEPT ![queue] = SubSeq(q[queue], 2, Len(q[queue]))]
            next == Head(rest[queue])
            called == Calling(rest, <<Call(queue, 0, next)>>)
<1>1. Sends(q, rest)
  <2>1. q[queue] \in Seq(Bounds(q))
    BY QueueType
  <2>2. SubSeq(q[queue], 2, Len(q[queue])) \in Seq(Bounds(q))
    <3>1. \A i \in 2..Len(q[queue]) : i \in DOMAIN q[queue]
      BY <2>1
    <3>. QED  BY <2>1, <3>1
  <2>3. Sends(q, [q EXCEPT ![queue] = SubSeq(q[queue], 2, Len(q[queue]))])
    BY <2>2, SendsQueue
  <2>. QED  BY <2>3, SendsRefl
<1>2. q[queue] = q[queue] /\ FlushQueue(q, queue, sent) =
        IF ~q.destination \/ rest[queue] = <<>> THEN rest
        ELSE FlushItem(called, queue, next)
  BY DEF FlushQueue
<1>. HIDE DEF rest
<1>3. /\ Sound(rest) /\ ~(rest.pendingRootTasks > 0)
  BY <1>1, SendsSound
<1>4. CASE ~q.destination \/ rest[queue] = <<>>
  BY <1>1, <1>2, <1>4
<1>5. CASE ~(~q.destination \/ rest[queue] = <<>>)
  <2>1. next \in Bounds(rest) /\ next \in Sets(rest)
    BY <1>3, <1>5, QueueType DEF Sets
  <2>. HIDE DEF next
  <2>2. Sends(rest, called)
    BY <1>3, <2>1, SendingCalls, SendsFew DEF Queues
  <2>. HIDE DEF called
  <2>3. Sends(q, called) /\ Sound(called) /\ ~(called.pendingRootTasks > 0)
        /\ next \in Bounds(called)
    BY <1>1, <1>3, <2>1, <2>2, SendsSound, SendsTrans
  <2>4. Sends(q, FlushItem(called, queue, next))
    BY <2>3, SendsItem, SendsTrans
  <2>. QED  BY <1>2, <1>5, <2>4
<1>. QED  BY <1>4, <1>5

LEMMA SendsRootFlushed ==
  ASSUME NEW q, Sound(q), ~(q.pendingRootTasks > 0)
  PROVE  Sends(q, [q EXCEPT !.completedRootSegment = 0])
<1>. DEFINE p == [q EXCEPT !.completedRootSegment = 0]
<1>1. p \in RequestRecord
  BY DEF Sound, RequestRecord
<1>2. /\ p.segments = q.segments /\ p.boundaries = q.boundaries
      /\ p.status = q.status /\ p.abortableTasks = q.abortableTasks
      /\ p.allPendingTasks = q.allPendingTasks
      /\ p.pendingRootTasks = q.pendingRootTasks
      /\ p.pingedTasks = q.pingedTasks /\ p.shellReady = q.shellReady
      /\ p.allReady = q.allReady /\ p.calls = q.calls
      /\ p.clientRenderedBoundaries = q.clientRenderedBoundaries
      /\ p.completedBoundaries = q.completedBoundaries
      /\ p.partialBoundaries = q.partialBoundaries
      /\ p.completedRootSegment = 0
  BY DEF Sound, RequestRecord
<1>. HIDE DEF p
<1>3. Sends(q, p)
  BY <1>1, <1>2, OtherChange DEF Sound, Pointers
<1>. QED  BY <1>3 DEF p

LEMMA SendsClose ==
  ASSUME NEW q, Sound(q) PROVE Sends(q, CloseIfDone(q))
<1>. DEFINE p == [End(q, "closed") EXCEPT !.destination = FALSE]
<1>1. p \in RequestRecord
  BY DEF End, Sound, RequestRecord
<1>2. /\ p.segments = q.segments /\ p.boundaries = q.boundaries
      /\ p.status = q.status /\ p.abortableTasks = q.abortableTasks
      /\ p.allPendingTasks = q.allPendingTasks
      /\ p.pendingRootTasks = q.pendingRootTasks
      /\ p.pingedTasks = q.pingedTasks /\ p.shellReady = q.shellReady
      /\ p.allReady = q.allReady /\ p.calls = q.calls
      /\ p.clientRenderedBoundaries = q.clientRenderedBoundaries
      /\ p.completedBoundaries = q.completedBoundaries
      /\ p.partialBoundaries = q.partialBoundaries
      /\ p.completedRootSegment = q.completedRootSegment
      /\ p.document = q.document
  BY DEF End, Sound, RequestRecord
<1>. HIDE DEF p
<1>3. Sends(q, p)
  BY <1>1, <1>2, OtherChange DEF Sound, Pointers
<1>. QED  BY <1>3, SendsRefl DEF p, CloseIfDone

LEMMA SendsRoot ==
  ASSUME NEW q, Sound(q), ~(q.pendingRootTasks > 0)
  PROVE  Sends(q, FlushRoot(q))
<1>. DEFINE s == q.completedRootSegment
<1>1. CASE s = 0
  BY <1>1, SendsRefl DEF FlushRoot
<1>2. CASE s # 0
  <2>1. s \in Segs(q) /\ 0 \in Sets(q)
    BY <1>2 DEF Sound, Pointers, Sets
  <2>2. Sends(q, Calling(q, <<Call("flushSegment", s, 0), Call("rootFlushed", 0, 0)>>))
    BY <2>1, SendingCalls, SendsFew
  <2>. QED  BY <1>2, <2>2 DEF FlushRoot
<1>. QED  BY <1>1, <1>2

LEMMA SendsQueues ==
  ASSUME NEW q, Sound(q) PROVE Sends(q, FlushCompletedQueues(q))
<1>. DEFINE closing == Calling(q, <<Call("closeIfDone", 0, 0)>>)
            called == Calling(closing, <<Call("clientRenderedBoundaries", 0, 0),
                                         Call("completedBoundaries", 0, 0),
                                         Call("partialBoundaries", 0, 0),
                                         Call("completedBoundaries", 0, 0)>>)
<1>1. Sends(q, closing)
  <2>1. /\ Call("closeIfDone", 0, 0) \in CallRecord
        /\ Call("closeIfDone", 0, 0).op = "closeIfDone"
    BY CallType, OpNames
  <2>2. FlushCall(q, Call("closeIfDone", 0, 0))
    BY <2>1 DEF FlushCall, CallOK, Ops, FlushOps, SendingOps
  <2>. QED  BY <2>1, <2>2, SendsFew
<1>. HIDE DEF closing
<1>2. CASE q.pendingRootTasks > 0
  <2>1. FlushQueues(closing) = closing
    BY <1>1, <1>2, SendsSound DEF FlushQueues
  <2>2. FlushCompletedQueues(q) = FlushQueues(closing)
    BY DEF FlushCompletedQueues, closing
  <2>. QED  BY <1>1, <2>1, <2>2
<1>3. CASE ~(q.pendingRootTasks > 0)
  <2>1. /\ Sound(closing) /\ ~(closing.pendingRootTasks > 0) /\ 0 \in Sets(closing)
    BY <1>1, <1>3, SendsSound DEF Sets
  <2>2. Sends(closing, called)
    <3>1. \A op \in {"clientRenderedBoundaries", "completedBoundaries",
                     "partialBoundaries"} :
            Call(op, 0, 0) \in CallRecord /\ FlushCall(closing, Call(op, 0, 0))
      BY <2>1, SendingCalls
    <3>. QED  BY <2>1, <3>1, SendsFew
  <2>. HIDE DEF called
  <2>3. Sends(q, called) /\ Sound(called) /\ ~(called.pendingRootTasks > 0)
    BY <1>1, <2>1, <2>2, SendsSound, SendsTrans
  <2>4. Sends(q, FlushRoot(called))
    BY <2>3, SendsRoot, SendsTrans
  <2>5. FlushCompletedQueues(q) = FlushRoot(called)
    BY <2>1 DEF FlushCompletedQueues, FlushQueues, called, closing
  <2>. QED  BY <2>4, <2>5
<1>. QED  BY <1>2, <1>3

-----------------------------------------------------------------------------
(* A request that goes on with its calls.                                  *)
LEMMA KInvCalls ==
  ASSUME NEW q, NEW more \in Seq(CallRecord), NEW p, Sound(q),
         p = [q EXCEPT !.calls = more]
  PROVE  /\ Sound(p) /\ p.calls = more /\ p.thrown = q.thrown
         /\ \A calls, rank : KInv(p, calls, rank) <=> KInv(q, calls, rank)
         /\ \A calls, rank : Shape(p, calls, rank) <=> Shape(q, calls, rank)
         /\ Told(p) <=> Told(q)
         /\ \A calls, extra, b :
              Counts(p, calls, extra, b) <=> Counts(q, calls, extra, b)
<1>1. /\ p \in RequestRecord /\ p.calls = more
  BY DEF Sound, RequestRecord
<1>2. /\ p.segments = q.segments /\ p.boundaries = q.boundaries
      /\ p.status = q.status /\ p.abortableTasks = q.abortableTasks
      /\ p.allPendingTasks = q.allPendingTasks
      /\ p.pendingRootTasks = q.pendingRootTasks
      /\ p.shellReady = q.shellReady
      /\ p.allReady = q.allReady /\ p.thrown = q.thrown
      /\ p.clientRenderedBoundaries = q.clientRenderedBoundaries
      /\ p.completedBoundaries = q.completedBoundaries
      /\ p.partialBoundaries = q.partialBoundaries
      /\ p.completedRootSegment = q.completedRootSegment
      /\ p.document = q.document
  BY DEF Sound, RequestRecord
<1>3. /\ Segs(p) = Segs(q) /\ Bounds(p) = Bounds(q) /\ Sets(p) = Sets(q)
      /\ \A set : Tasks(p, set) = Tasks(q, set)
  BY <1>2 DEF Segs, Bounds, Sets, Tasks
<1>4. Pointers(p) <=> Pointers(q)
  BY <1>2, <1>3 DEF Pointers
<1>5. Sound(p)
  BY <1>1, <1>4 DEF Sound
<1>6. ASSUME NEW calls, NEW rank
      PROVE  /\ Ranked(p, rank) <=> Ranked(q, rank)
             /\ Homes(p) <=> Homes(q)
             /\ Cursors(p, calls) <=> Cursors(q, calls)
             /\ Roots(p, calls) <=> Roots(q, calls)
  BY <1>2, <1>3 DEF Ranked, Homes, Cursors, Roots
<1>7. \A calls : CallsOK(p, calls) <=> CallsOK(q, calls)
  BY <1>2, <1>3 DEF CallsOK, CallOK
<1>8. Live(p) = Live(q) /\ \A b : LiveOf(p, b) = LiveOf(q, b)
  BY <1>2, <1>3 DEF Live, LiveOf
<1>9. Told(p) <=> Told(q)
  BY <1>2 DEF Told
<1>10. \A calls, extra, b : Counts(p, calls, extra, b) <=> Counts(q, calls, extra, b)
  BY <1>2, <1>3, <1>8 DEF Counts
<1>11. \A calls, rank : Shape(p, calls, rank) <=> Shape(q, calls, rank)
  BY <1>2, <1>5, <1>6, <1>7 DEF Shape
<1>. QED  BY <1>1, <1>2, <1>5, <1>9, <1>10, <1>11 DEF KInv

LEMMA SendsQInv ==
  ASSUME NEW q, NEW p, NEW rank, QInv(q, rank), Flushing(q.calls), Sends(q, p)
  PROVE  QInv(p, rank)
<1>1. q.calls \in Seq(CallRecord) /\ p.calls \in Seq(CallRecord)
  BY DEF QInv, KInv, Shape, Sound, RequestRecord, Sends
<1>3. PICK new \in Seq(CallRecord) : FlushCalls(q, new) /\ p.calls = new \o q.calls
  BY DEF Sends
<1>4. Caughts(p.thrown, q.calls)
  BY DEF QInv, KInv, Shape, Caughts, Flushing
<1>5. KInv(p, q.calls, rank)
  BY <1>4, KeptKInv DEF Sends, QInv
<1>6. FlushCalls(p, new)
  BY <1>3, KeptCallOK DEF FlushCalls, Sends, Kept
<1>. QED  BY <1>1, <1>3, <1>5, <1>6, PushFlush DEF QInv

(* A change outside a flush, without calls.                                *)
LEMMA SendsNoCalls ==
  ASSUME NEW q, NEW p, NEW rank, NEW calls, KInv(q, calls, rank), Sends(q, p),
         p.thrown = q.thrown
  PROVE  KInv(p, calls, rank)
<1>1. Caughts(p.thrown, calls)
  BY DEF KInv, Shape
<1>. QED  BY <1>1, KeptKInv DEF Sends

LEMMA TryToFlushKeeps ==
  ASSUME NEW q, NEW rank, QInv(q, rank), q.thrown = FALSE
  PROVE  QInv(TryToFlush(q), rank)
<1>. DEFINE c == Call("catch", 0, 0)
            p == Calling(q, <<c>>)
<1>1. c \in CallRecord /\ c.op = "catch" /\ CallOK(q, c)
  BY CallType, OpNames DEF CallOK
<1>. HIDE DEF c
<1>2. Sound(q) /\ q.calls \in Seq(CallRecord) /\ <<c>> \o q.calls \in Seq(CallRecord)
  BY <1>1, FirstCall DEF QInv, KInv, Shape, Sound, RequestRecord
<1>3. KInv(q, <<c>> \o q.calls, rank)
  <2>1. KInv(q, q.calls, rank)
    BY DEF QInv
  <2>2. c.op \in Plain
    BY <1>1 DEF Plain
  <2>3. KInv(q, <<c>> \o q.calls, rank) <=> CallOK(q, c) /\ KInv(q, q.calls, rank)
    BY <1>1, <1>2, <2>2, PlainCons
  <2>. QED  BY <1>1, <2>1, <2>3
<1>4. p = [q EXCEPT !.calls = <<c>> \o q.calls]
  BY DEF Calling
<1>. HIDE DEF p
<1>5. QInv(p, rank) /\ p.calls = <<c>> \o q.calls /\ Sound(p)
  <2>. DEFINE more == <<c>> \o q.calls
  <2>. HIDE DEF more
  <2>1. p = [q EXCEPT !.calls = more] /\ more \in Seq(CallRecord) /\ KInv(q, more, rank)
    BY <1>2, <1>3, <1>4 DEF more
  <2>2. Sound(p) /\ p.calls = more /\ (KInv(p, more, rank) <=> KInv(q, more, rank))
    BY <1>2, <2>1, KInvCalls
  <2>. QED  BY <2>1, <2>2 DEF QInv, more
<1>6. Flushing(p.calls)
  BY <1>1, <1>2, <1>5, FirstCall DEF Flushing
<1>7. QInv(FlushCompletedQueues(p), rank)
  BY <1>5, <1>6, SendsQueues, SendsQInv
<1>. QED  BY <1>7 DEF TryToFlush, p, c

(* Where the request goes, and how it ends.                                *)
LEMMA HostChange ==
  ASSUME NEW q, Sound(q)
  PROVE  /\ Sends(q, [q EXCEPT !.destination = TRUE])
         /\ [q EXCEPT !.destination = TRUE].thrown = q.thrown
         /\ [q EXCEPT !.destination = TRUE].calls = q.calls
         /\ Sends(q, [q EXCEPT !.piped = TRUE])
         /\ [q EXCEPT !.piped = TRUE].thrown = q.thrown
         /\ [q EXCEPT !.piped = TRUE].calls = q.calls
         /\ Sends(q, FatalError(q)) /\ FatalError(q).thrown = q.thrown
         /\ FatalError(q).status # "OPEN" /\ FatalError(q).calls = q.calls
         /\ Sends(q, [End(q, "error") EXCEPT !.status = "CLOSED"])
         /\ [End(q, "error") EXCEPT !.status = "CLOSED"].thrown = q.thrown
         /\ [End(q, "error") EXCEPT !.status = "CLOSED"].calls = q.calls
<1>0. ASSUME NEW p \in RequestRecord,
             p.segments = q.segments, p.boundaries = q.boundaries,
             p.status = q.status \/ p.status # "OPEN",
             p.abortableTasks = q.abortableTasks,
             p.allPendingTasks = q.allPendingTasks,
             p.pendingRootTasks = q.pendingRootTasks,
             p.pingedTasks = q.pingedTasks, p.shellReady = q.shellReady,
             p.allReady = q.allReady, p.calls = q.calls,
             p.clientRenderedBoundaries = q.clientRenderedBoundaries,
             p.completedBoundaries = q.completedBoundaries,
             p.partialBoundaries = q.partialBoundaries,
             p.completedRootSegment = q.completedRootSegment,
             p.document = q.document, p.thrown = q.thrown
      PROVE  Sends(q, p) /\ p.thrown = q.thrown /\ p.calls = q.calls
  BY <1>0, OtherChange DEF Sound, Pointers
<1>1. ASSUME NEW p, p = [q EXCEPT !.destination = TRUE]
      PROVE  Sends(q, p) /\ p.thrown = q.thrown /\ p.calls = q.calls
  <2>1. p \in RequestRecord
    BY <1>1 DEF Sound, RequestRecord
  <2>2. /\ p.segments = q.segments /\ p.boundaries = q.boundaries
        /\ (p.status = q.status \/ p.status # "OPEN")
        /\ p.abortableTasks = q.abortableTasks
        /\ p.allPendingTasks = q.allPendingTasks
        /\ p.pendingRootTasks = q.pendingRootTasks
        /\ p.pingedTasks = q.pingedTasks /\ p.shellReady = q.shellReady
        /\ p.allReady = q.allReady /\ p.calls = q.calls
        /\ p.clientRenderedBoundaries = q.clientRenderedBoundaries
        /\ p.completedBoundaries = q.completedBoundaries
        /\ p.partialBoundaries = q.partialBoundaries
        /\ p.completedRootSegment = q.completedRootSegment
        /\ p.document = q.document /\ p.thrown = q.thrown
    BY <1>1 DEF Sound, RequestRecord
  <2>. QED  BY <1>0, <2>1, <2>2
<1>6. ASSUME NEW p, p = [q EXCEPT !.piped = TRUE]
      PROVE  Sends(q, p) /\ p.thrown = q.thrown /\ p.calls = q.calls
  <2>1. p \in RequestRecord
    BY <1>6 DEF Sound, RequestRecord
  <2>2. /\ p.segments = q.segments /\ p.boundaries = q.boundaries
        /\ (p.status = q.status \/ p.status # "OPEN")
        /\ p.abortableTasks = q.abortableTasks
        /\ p.allPendingTasks = q.allPendingTasks
        /\ p.pendingRootTasks = q.pendingRootTasks
        /\ p.pingedTasks = q.pingedTasks /\ p.shellReady = q.shellReady
        /\ p.allReady = q.allReady /\ p.calls = q.calls
        /\ p.clientRenderedBoundaries = q.clientRenderedBoundaries
        /\ p.completedBoundaries = q.completedBoundaries
        /\ p.partialBoundaries = q.partialBoundaries
        /\ p.completedRootSegment = q.completedRootSegment
        /\ p.document = q.document /\ p.thrown = q.thrown
    BY <1>6 DEF Sound, RequestRecord
  <2>. QED  BY <1>0, <2>1, <2>2
<1>2. ASSUME NEW p, p = [q EXCEPT !.status = "CLOSING"]
      PROVE  Sends(q, p) /\ p.thrown = q.thrown /\ p.calls = q.calls
  <2>1. p \in RequestRecord
    BY <1>2 DEF Sound, RequestRecord
  <2>2. /\ p.segments = q.segments /\ p.boundaries = q.boundaries
        /\ (p.status = q.status \/ p.status # "OPEN")
        /\ p.abortableTasks = q.abortableTasks
        /\ p.allPendingTasks = q.allPendingTasks
        /\ p.pendingRootTasks = q.pendingRootTasks
        /\ p.pingedTasks = q.pingedTasks /\ p.shellReady = q.shellReady
        /\ p.allReady = q.allReady /\ p.calls = q.calls
        /\ p.clientRenderedBoundaries = q.clientRenderedBoundaries
        /\ p.completedBoundaries = q.completedBoundaries
        /\ p.partialBoundaries = q.partialBoundaries
        /\ p.completedRootSegment = q.completedRootSegment
        /\ p.document = q.document /\ p.thrown = q.thrown
    BY <1>2 DEF Sound, RequestRecord
  <2>. QED  BY <1>0, <2>1, <2>2
<1>3. ASSUME NEW p, p = [End(q, "error") EXCEPT !.status = "CLOSED"]
      PROVE  Sends(q, p) /\ p.thrown = q.thrown /\ p.calls = q.calls
  <2>1. p \in RequestRecord
    BY <1>3 DEF End, Sound, RequestRecord
  <2>2. /\ p.segments = q.segments /\ p.boundaries = q.boundaries
        /\ (p.status = q.status \/ p.status # "OPEN")
        /\ p.abortableTasks = q.abortableTasks
        /\ p.allPendingTasks = q.allPendingTasks
        /\ p.pendingRootTasks = q.pendingRootTasks
        /\ p.pingedTasks = q.pingedTasks /\ p.shellReady = q.shellReady
        /\ p.allReady = q.allReady /\ p.calls = q.calls
        /\ p.clientRenderedBoundaries = q.clientRenderedBoundaries
        /\ p.completedBoundaries = q.completedBoundaries
        /\ p.partialBoundaries = q.partialBoundaries
        /\ p.completedRootSegment = q.completedRootSegment
        /\ p.document = q.document /\ p.thrown = q.thrown
    BY <1>3 DEF End, Sound, RequestRecord
  <2>. QED  BY <1>0, <2>1, <2>2
<1>4. /\ Sends(q, FatalError(q)) /\ FatalError(q).thrown = q.thrown
  BY <1>2, <1>3 DEF FatalError
<1>5. FatalError(q).status # "OPEN" /\ FatalError(q).calls = q.calls
  BY DEF FatalError, End, Sound, RequestRecord
<1>. QED  BY <1>1, <1>3, <1>4, <1>5, <1>6

LEMMA HostKeeps ==
  ASSUME NEW q, NEW p, NEW rank, QInv(q, rank), Sends(q, p), p.thrown = q.thrown,
         p.calls = q.calls
  PROVE  QInv(p, rank)
  BY SendsNoCalls DEF QInv

LEMMA StartFlowingKeeps ==
  ASSUME NEW q, NEW rank, QInv(q, rank), q.thrown = FALSE
  PROVE  QInv(StartFlowing(q), rank)
<1>. DEFINE p == [q EXCEPT !.destination = TRUE]
<1>1. Sound(q)
  BY DEF QInv, KInv, Shape
<1>2. QInv([End(q, "error") EXCEPT !.status = "CLOSED"], rank)
  BY <1>1, HostChange, HostKeeps
<1>3. QInv(p, rank) /\ p.thrown = FALSE
  BY <1>1, HostChange, HostKeeps
<1>. HIDE DEF p
<1>4. QInv(TryToFlush(p), rank)
  BY <1>3, TryToFlushKeeps
<1>. QED  BY <1>2, <1>4 DEF StartFlowing, p

LEMMA PipeKeeps ==
  ASSUME NEW q, NEW rank, QInv(q, rank), q.thrown = FALSE
  PROVE  QInv(Pipe(q), rank)
<1>. DEFINE p == [q EXCEPT !.piped = TRUE]
<1>1. Sound(q)
  BY DEF QInv, KInv, Shape
<1>2. QInv(p, rank) /\ p.thrown = FALSE
  BY <1>1, HostChange, HostKeeps
<1>. HIDE DEF p
<1>3. QInv(StartFlowing(p), rank)
  BY <1>2, StartFlowingKeeps
<1>. QED  BY <1>3 DEF Pipe, p

LEMMA FlushIfFlowingKeeps ==
  ASSUME NEW q, NEW rank, QInv(q, rank), q.thrown = FALSE
  PROVE  QInv(FlushIfFlowing(q), rank)
  BY TryToFlushKeeps DEF FlushIfFlowing

-----------------------------------------------------------------------------
(* The counters of the tasks.                                              *)
LEMMA LiveFinite ==
  ASSUME NEW q, Sound(q)
  PROVE  /\ IsFiniteSet(Live(q)) /\ Cardinality(Live(q)) \in Nat
         /\ \A b : IsFiniteSet(LiveOf(q, b)) /\ Cardinality(LiveOf(q, b)) \in Nat
<1>1. Segs(q) = 1..Len(q.segments) /\ Len(q.segments) \in Nat
  BY LenProperties DEF Sound, RequestRecord, Segs
<1>2. IsFiniteSet(Segs(q))
  BY <1>1, FS_Interval
<1>3. IsFiniteSet(Live(q))
  BY <1>2, FS_Subset DEF Live
<1>4. \A b : IsFiniteSet(LiveOf(q, b))
  BY <1>3, FS_Subset DEF LiveOf
<1>. QED  BY <1>3, <1>4, FS_CardinalityType

(* Requests that differ in what is counted and told.                       *)
SameButCounts(q, p) ==
  /\ p \in RequestRecord
  /\ p.segments = q.segments /\ Bounds(p) = Bounds(q)
  /\ \A b \in Bounds(q) :
       /\ p.boundaries[b].completedSegments = q.boundaries[b].completedSegments
       /\ p.boundaries[b].fallbackAbortableTasks
            = q.boundaries[b].fallbackAbortableTasks
  /\ p.abortableTasks = q.abortableTasks
  /\ p.thrown = q.thrown /\ p.calls = q.calls
  /\ p.clientRenderedBoundaries = q.clientRenderedBoundaries
  /\ p.completedBoundaries = q.completedBoundaries
  /\ p.partialBoundaries = q.partialBoundaries
  /\ p.completedRootSegment = q.completedRootSegment
  /\ p.document = q.document
  /\ p.pendingRootTasks > 0 => q.pendingRootTasks > 0

LEMMA ShapeCounts ==
  ASSUME NEW q, NEW p, NEW calls, NEW rank, Shape(q, calls, rank), SameButCounts(q, p)
  PROVE  /\ Shape(p, calls, rank)
         /\ Live(p) = Live(q) /\ \A b : LiveOf(p, b) = LiveOf(q, b)
<1>1. /\ Segs(p) = Segs(q) /\ Bounds(p) = Bounds(q) /\ Sets(p) = Sets(q)
      /\ \A set \in Sets(q) : Tasks(p, set) = Tasks(q, set)
  BY DEF SameButCounts, Segs, Bounds, Sets, Tasks
<1>2. Sound(q) /\ p.segments = q.segments
  BY DEF Shape, SameButCounts
<1>3. Sound(p)
  BY <1>1, <1>2 DEF Sound, Pointers, SameButCounts
<1>4. /\ Ranked(p, rank) /\ Homes(p) /\ Cursors(p, calls)
  BY <1>1, <1>2 DEF Shape, Ranked, Homes, Cursors
<1>5. CallsOK(p, calls)
  BY <1>1, <1>2 DEF Shape, CallsOK, CallOK
<1>6. Caughts(p.thrown, calls) /\ Roots(p, calls)
  BY <1>1, <1>2 DEF Shape, SameButCounts, Roots
<1>7. Live(p) = Live(q) /\ \A b : LiveOf(p, b) = LiveOf(q, b)
  BY <1>1, <1>2 DEF Live, LiveOf, Sound, Pointers
<1>. QED  BY <1>3, <1>4, <1>5, <1>6, <1>7 DEF Shape

(* oneTaskLess, the first call.                                            *)
LEMMA OneTaskLessKeeps ==
  ASSUME NEW q, NEW rank, NEW c \in CallRecord, c.op = "oneTaskLess",
         KInv(q, <<c>> \o q.calls, rank), q.thrown = FALSE
  PROVE  QInv(OneTaskLess(q), rank)
<1>. DEFINE less == [q EXCEPT !.allPendingTasks = q.allPendingTasks - 1]
            told == [less EXCEPT !.allReady = less.allReady + 1]
<1>1. Sound(q) /\ q \in RequestRecord /\ q.calls \in Seq(CallRecord)
      /\ q.allPendingTasks \in Int /\ q.allReady \in Int
  BY DEF KInv, Shape, Sound, RequestRecord
<1>2. Shape(q, q.calls, rank)
  <2>1. c.op \notin FlushOps /\ c.op \notin AbortOps /\ ~Iterates(c)
        /\ c.op \notin SendingOps
    BY DEF FlushOps, SendingOps, AbortOps, Iterates
  <2>2. CallsOK(q, q.calls) /\ Nested(q.calls, rank)
    BY <1>1, CallsOKCons, NestedCons DEF KInv, Shape
  <2>3. Cursors(q, q.calls) /\ Roots(q, q.calls)
    BY <1>1, <2>1, CursorsCons, RootsCons DEF KInv, Shape
  <2>4. Caughts(q.thrown, q.calls)
    BY <1>1, <2>1, CaughtsCons DEF KInv, Shape
  <2>. QED  BY <2>2, <2>3, <2>4 DEF KInv, Shape
<1>3. /\ LessCalls(q.calls) \in Nat
      /\ LessCalls(<<c>> \o q.calls) = LessCalls(q.calls) + 1
  BY <1>1, LessCallsCons
<1>4. Cardinality(Live(q)) \in Nat
  BY <1>1, LiveFinite
<1>5. q.allPendingTasks > 0 /\ q.allReady = 0
  <2>1. q.allPendingTasks >= Cardinality(Live(q)) + LessCalls(<<c>> \o q.calls) + 0
    BY DEF KInv, Counts
  <2>2. q.allPendingTasks > 0
    BY <1>1, <1>3, <1>4, <2>1
  <2>. QED  BY <2>2 DEF KInv, Told
<1>6. /\ less \in RequestRecord /\ less.allPendingTasks = q.allPendingTasks - 1
      /\ less.segments = q.segments /\ less.boundaries = q.boundaries
      /\ less.status = q.status /\ less.abortableTasks = q.abortableTasks
      /\ less.thrown = q.thrown /\ less.calls = q.calls
      /\ less.clientRenderedBoundaries = q.clientRenderedBoundaries
      /\ less.completedBoundaries = q.completedBoundaries
      /\ less.partialBoundaries = q.partialBoundaries
      /\ less.completedRootSegment = q.completedRootSegment
      /\ less.document = q.document /\ less.pendingRootTasks = q.pendingRootTasks
      /\ less.allReady = 0 /\ less.shellReady = q.shellReady
  <2>1. q.allPendingTasks - 1 \in Int
    BY <1>1
  <2>. QED  BY <1>1, <1>5, <2>1 DEF RequestRecord
<1>. HIDE DEF less
<1>7. /\ told \in RequestRecord /\ told.allPendingTasks = less.allPendingTasks
      /\ told.segments = q.segments /\ told.boundaries = q.boundaries
      /\ told.status = q.status /\ told.abortableTasks = q.abortableTasks
      /\ told.thrown = q.thrown /\ told.calls = q.calls
      /\ told.clientRenderedBoundaries = q.clientRenderedBoundaries
      /\ told.completedBoundaries = q.completedBoundaries
      /\ told.partialBoundaries = q.partialBoundaries
      /\ told.completedRootSegment = q.completedRootSegment
      /\ told.document = q.document /\ told.pendingRootTasks = q.pendingRootTasks
      /\ told.allReady = 1 /\ told.shellReady = q.shellReady
  <2>1. told = [less EXCEPT !.allReady = 1]
    BY <1>6
  <2>. HIDE DEF told
  <2>2. less \in RequestRecord
    BY <1>6
  <2>. DEFINE one == less.allReady + 1
  <2>4. one \in Int /\ one = 1 /\ told = [less EXCEPT !.allReady = one]
    BY <1>6, <2>1
  <2>. HIDE DEF one
  <2>3. /\ told \in RequestRecord /\ told.allPendingTasks = less.allPendingTasks
        /\ told.segments = less.segments /\ told.boundaries = less.boundaries
        /\ told.status = less.status /\ told.abortableTasks = less.abortableTasks
        /\ told.thrown = less.thrown /\ told.calls = less.calls
        /\ told.clientRenderedBoundaries = less.clientRenderedBoundaries
        /\ told.completedBoundaries = less.completedBoundaries
        /\ told.partialBoundaries = less.partialBoundaries
        /\ told.completedRootSegment = less.completedRootSegment
        /\ told.document = less.document
        /\ told.pendingRootTasks = less.pendingRootTasks
        /\ told.allReady = one /\ told.shellReady = less.shellReady
    BY <2>2, <2>4 DEF RequestRecord
  <2>. QED  BY <1>6, <2>3, <2>4
<1>. HIDE DEF told
<1>8. ASSUME NEW p, p \in {less, told}
      PROVE  /\ Shape(p, q.calls, rank) /\ Counts(p, q.calls, 0, 0)
             /\ p.calls = q.calls /\ p.thrown = FALSE
  <2>1. SameButCounts(q, p)
    BY <1>6, <1>7, <1>8 DEF SameButCounts, Bounds
  <2>2. /\ Shape(p, q.calls, rank)
        /\ Live(p) = Live(q) /\ \A b : LiveOf(p, b) = LiveOf(q, b)
    BY <1>2, <2>1, ShapeCounts
  <2>3. /\ p.allPendingTasks = q.allPendingTasks - 1
        /\ p.pendingRootTasks = q.pendingRootTasks
        /\ p.boundaries = q.boundaries /\ p.status = q.status
    BY <1>6, <1>7, <1>8
  <2>4. Counts(p, q.calls, 0, 0)
    <3>1. /\ q.allPendingTasks >= Cardinality(Live(q)) + (LessCalls(q.calls) + 1) + 0
          /\ q.status = "OPEN" => q.allPendingTasks
                                    = Cardinality(Live(q)) + (LessCalls(q.calls) + 1) + 0
      BY <1>3 DEF KInv, Counts
    <3>2. /\ p.allPendingTasks >= Cardinality(Live(p)) + LessCalls(q.calls) + 0
          /\ p.status = "OPEN" =>
               p.allPendingTasks = Cardinality(Live(p)) + LessCalls(q.calls) + 0
      BY <1>1, <1>3, <1>4, <2>2, <2>3, <3>1
    <3>3. Bounds(p) = Bounds(q)
      BY <2>3 DEF Bounds
    <3>. QED  BY <2>2, <2>3, <3>2, <3>3 DEF KInv, Counts
  <2>. QED  BY <1>6, <1>7, <1>8, <2>2, <2>4
<1>9. CASE less.allPendingTasks = 0
  <2>1. Told(told)
    BY <1>7, <1>9 DEF Told, KInv
  <2>2. QInv(told, rank) /\ told.thrown = FALSE
    BY <1>8, <2>1 DEF QInv, KInv
  <2>3. QInv(IF pipesIn = "onAllReady" THEN Pipe(told) ELSE told, rank)
    BY <2>2, PipeKeeps
  <2>. QED  BY <1>9, <2>3 DEF OneTaskLess, CompleteAll, less, told
<1>10. CASE less.allPendingTasks # 0
  <2>1. Told(less)
    BY <1>6, <1>10 DEF Told, KInv
  <2>2. QInv(less, rank)
    BY <1>8, <2>1 DEF QInv, KInv
  <2>. QED  BY <1>10, <2>2 DEF OneTaskLess, less
<1>. QED  BY <1>9, <1>10

-----------------------------------------------------------------------------
(* What becomes of a boundary.                                             *)
Alters(q, p) == Sends(q, p) /\ p.calls = q.calls /\ p.thrown = q.thrown

LEMMA AltersTrans ==
  ASSUME NEW q, NEW p, NEW o, Sound(q), Alters(q, p), Alters(p, o)
  PROVE  Alters(q, o)
  BY SendsTrans DEF Alters

LEMMA AltersRefl == ASSUME NEW q, Sound(q) PROVE Alters(q, q)
  BY SendsRefl DEF Alters

LEMMA AltersKInv ==
  ASSUME NEW q, NEW p, NEW rank, NEW calls, KInv(q, calls, rank), Alters(q, p)
  PROVE  KInv(p, calls, rank)
  BY SendsNoCalls DEF Alters

LEMMA AltersStatus ==
  ASSUME NEW q, NEW b \in Bounds(q), Sound(q),
         NEW status \in {"PENDING", "COMPLETED", "CLIENT_RENDERED"}
  PROVE  Alters(q, [q EXCEPT !.boundaries[b].status = status])
<1>1. /\ q.boundaries[b] \in BoundaryRecord
      /\ \A i \in DOMAIN q.boundaries[b].completedSegments :
           q.boundaries[b].completedSegments[i] \in Segs(q)
  BY Records DEF Sound, Pointers
<1>. DEFINE boundary == [q.boundaries[b] EXCEPT !.status = status]
<1>2. /\ boundary \in BoundaryRecord
      /\ boundary.pendingTasks = q.boundaries[b].pendingTasks
      /\ boundary.fallbackAbortableTasks = q.boundaries[b].fallbackAbortableTasks
      /\ boundary.completedSegments = q.boundaries[b].completedSegments
  BY <1>1 DEF BoundaryRecord
<1>. HIDE DEF boundary
<1>3. Alters(q, [q EXCEPT !.boundaries[b] = boundary])
  BY <1>1, <1>2, BoundaryChange DEF Alters
<1>. QED  BY <1>3 DEF boundary

LEMMA AltersQueue ==
  ASSUME NEW q, NEW b \in Bounds(q), NEW queue \in Queues, Sound(q)
  PROVE  Alters(q, QueueBoundary(q, queue, b))
<1>. DEFINE boundaries == Append(q[queue], b)
<1>1. boundaries \in Seq(Bounds(q))
  BY QueueType
<1>. HIDE DEF boundaries
<1>2. Alters(q, [q EXCEPT ![queue] = boundaries])
  BY <1>1, SendsQueue DEF Alters
<1>. QED  BY <1>2, AltersRefl DEF QueueBoundary, boundaries

LEMMA AltersGiveUp ==
  ASSUME NEW q, NEW b \in Bounds(q), Sound(q) PROVE Alters(q, GiveUp(q, b))
<1>. DEFINE p == [q EXCEPT !.boundaries[b].status = "CLIENT_RENDERED"]
<1>1. Alters(q, p)
  BY AltersStatus
<1>. HIDE DEF p
<1>2. Sound(p) /\ b \in Bounds(p)
  BY <1>1, SendsSound DEF Alters
<1>3. Alters(q, QueueBoundary(p, "clientRenderedBoundaries", b))
  BY <1>1, <1>2, AltersQueue, AltersTrans DEF Queues
<1>. QED  BY <1>3, AltersRefl DEF GiveUp, p

LEMMA AltersPartially ==
  ASSUME NEW q, NEW b \in Bounds(q), Sound(q) PROVE Alters(q, PartiallyCompleted(q, b))
  BY AltersQueue, AltersRefl DEF PartiallyCompleted, Queues

(* The segments of a completed boundary.                                   *)
LEMMA AltersSegments ==
  ASSUME NEW q, NEW b \in Bounds(q), NEW s \in Segs(q), Sound(q)
  PROVE  Alters(q, [q EXCEPT !.boundaries[b].completedSegments = Append(@, s)])
<1>1. /\ q.boundaries[b] \in BoundaryRecord /\ s \in Nat
      /\ q.boundaries[b].completedSegments \in Seq(Segs(q))
      /\ q.boundaries[b].completedSegments \in Seq(Nat)
  BY Records, SegmentsType DEF BoundaryRecord
<1>. DEFINE segments == Append(q.boundaries[b].completedSegments, s)
            boundary == [q.boundaries[b] EXCEPT !.completedSegments = segments]
<1>2. segments \in Seq(Nat) /\ \A i \in DOMAIN segments : segments[i] \in Segs(q)
  BY <1>1
<1>. HIDE DEF segments
<1>3. /\ boundary \in BoundaryRecord
      /\ boundary.pendingTasks = q.boundaries[b].pendingTasks
      /\ boundary.fallbackAbortableTasks = q.boundaries[b].fallbackAbortableTasks
      /\ boundary.completedSegments = segments
  BY <1>1, <1>2 DEF BoundaryRecord
<1>. HIDE DEF boundary
<1>4. Alters(q, [q EXCEPT !.boundaries[b] = boundary])
  BY <1>2, <1>3, BoundaryChange DEF Alters
<1>. QED  BY <1>4 DEF boundary, segments

LEMMA AltersTransfer ==
  ASSUME NEW q, NEW s \in Segs(q), NEW child \in Segs(q), NEW p, Sound(q),
         q.segments[child].blockedBoundary # 0,
         p = [q EXCEPT !.segments[child].id = q.segments[s].id,
                       !.segments[child].parentFlushed = TRUE]
  PROVE  Alters(q, p)
<1>1. q.segments[s] \in SegmentRecord /\ q.segments[child] \in SegmentRecord
      /\ q.segments[s].id \in Nat
  BY Records DEF SegmentRecord
<1>. DEFINE id == q.segments[s].id
            segment == [[q.segments[child] EXCEPT !.id = id] EXCEPT
                          !.parentFlushed = TRUE]
<1>. HIDE DEF id
<1>2. id \in Nat
  BY <1>1 DEF id
<1>3. /\ segment \in SegmentRecord /\ segment.boundary = q.segments[child].boundary
      /\ segment.blockedBoundary = q.segments[child].blockedBoundary
      /\ segment.abortSet = q.segments[child].abortSet
      /\ segment.children = q.segments[child].children
      /\ segment.status = q.segments[child].status
  BY <1>1, <1>2 DEF SegmentRecord
<1>. DEFINE o == [q EXCEPT !.segments[child].id = id,
                           !.segments[child].parentFlushed = TRUE]
<1>4. o = [q EXCEPT !.segments[child] = segment]
  <2>1. child \in DOMAIN q.segments /\ "segments" \in DOMAIN q
        /\ DOMAIN q.segments[child] = {"status", "id", "parentFlushed", "children",
                                       "empty", "boundary", "blockedBoundary",
                                       "abortSet"}
    BY <1>1 DEF Segs, SegmentRecord, Sound, RequestRecord
  <2>. QED  BY <2>1
<1>. HIDE DEF segment, o
<1>5. Alters(q, o)
  BY <1>3, <1>4, SegmentChange DEF Alters
<1>. QED  BY <1>5 DEF o, id

-----------------------------------------------------------------------------
(* Calls outside a flush that are made next.                               *)
After(calls, rank, b) ==
  \A j \in DOMAIN calls : Iterates(calls[j]) => rank[calls[j].b] < rank[b]

LEMMA CursorsPush ==
  ASSUME NEW c \in CallRecord, NEW calls \in Seq(CallRecord), NEW q,
         Sound(q), Homes(q), c.s <= 1, Cursors(q, calls)
  PROVE  Cursors(q, <<c>> \o calls)
<1>. DEFINE more == <<c>> \o calls
<1>. HIDE DEF more
<1>1. /\ Len(calls) \in Nat
      /\ DOMAIN calls = 1..Len(calls) /\ DOMAIN more = 1..(Len(calls) + 1)
      /\ more[1] = c
      /\ \A i \in 1..Len(calls) :
           i + 1 \in 1..(Len(calls) + 1) /\ more[i + 1] = calls[i]
      /\ \A i \in 1..(Len(calls) + 1) : i # 1 =>
           i - 1 \in 1..Len(calls) /\ more[i] = calls[i - 1]
  BY FirstCall DEF more
<1>2. ASSUME NEW set \in Sets(q), NEW t \in Tasks(q, set)
      PROVE  /\ \/ q.segments[t].status = "PENDING"
                \/ \E i \in DOMAIN more : Passes(more[i], set) /\ more[i].s > t
             /\ \A i \in DOMAIN more :
                  Passes(more[i], set) /\ more[i].s > t
                    => q.segments[t].status # "PENDING"
  <2>1. t \in Nat \ {0}
    BY Records DEF Homes
  <2>2. /\ \/ q.segments[t].status = "PENDING"
           \/ \E i \in DOMAIN calls : Passes(calls[i], set) /\ calls[i].s > t
        /\ \A i \in DOMAIN calls :
             Passes(calls[i], set) /\ calls[i].s > t
               => q.segments[t].status # "PENDING"
    BY DEF Cursors
  <2>3. ~(c.s > t)
    BY <2>1 DEF CallRecord
  <2>4. \A i \in DOMAIN more : more[i].s > t =>
          i - 1 \in DOMAIN calls /\ more[i] = calls[i - 1]
    BY <1>1, <2>3
  <2>5. \A i \in DOMAIN calls : i + 1 \in DOMAIN more /\ more[i + 1] = calls[i]
    BY <1>1
  <2>. QED  BY <2>2, <2>4, <2>5
<1>3. Cursors(q, more)
  BY <1>2 DEF Cursors
<1>. QED  BY <1>3 DEF more

LEMMA PushCall ==
  ASSUME NEW q, NEW rank, NEW c \in CallRecord, QInv(q, rank), q.thrown = FALSE,
         CallOK(q, c), c.op \notin FlushOps, c.op # "oneTaskLess",
         Iterates(c) => After(q.calls, rank, c.b), c.op \in AbortOps => c.s <= 1
  PROVE  LET p == Calling(q, <<c>>)
         IN  /\ QInv(p, rank) /\ p.thrown = FALSE /\ p.calls = <<c>> \o q.calls
             /\ p.segments = q.segments /\ p.boundaries = q.boundaries
<1>. DEFINE more == <<c>> \o q.calls
            p == Calling(q, <<c>>)
<1>1. Sound(q) /\ q.calls \in Seq(CallRecord) /\ more \in Seq(CallRecord)
  BY FirstCall, Records DEF QInv, KInv, Shape
<1>2. CallsOK(q, more)
  BY <1>1, CallsOKCons DEF QInv, KInv, Shape
<1>3. Nested(more, rank)
  BY <1>1, NestedCons DEF QInv, KInv, Shape, After
<1>4. Cursors(q, more)
  <2>1. CASE c.op \in AbortOps
    BY <1>1, <2>1, CursorsPush DEF QInv, KInv, Shape
  <2>2. CASE c.op \notin AbortOps
    BY <1>1, <2>2, CursorsCons DEF QInv, KInv, Shape
  <2>. QED  BY <2>1, <2>2
<1>5. Caughts(q.thrown, more)
  BY <1>1, CaughtsCons DEF QInv, KInv, Shape
<1>6. Roots(q, more)
  BY <1>1, RootsCons, OpNames DEF QInv, KInv, Shape
<1>7. Counts(q, more, 0, 0)
  <2>1. LessCalls(more) = LessCalls(q.calls)
    BY <1>1, LessCallsCons
  <2>. QED  BY <2>1 DEF QInv, KInv, Counts
<1>8. KInv(q, more, rank)
  BY <1>2, <1>3, <1>4, <1>5, <1>6, <1>7 DEF QInv, KInv, Shape
<1>. HIDE DEF more
<1>9. p = [q EXCEPT !.calls = more]
  BY DEF Calling, more
<1>. HIDE DEF p
<1>10. QInv(p, rank) /\ p.thrown = FALSE /\ p.calls = more
  BY <1>1, <1>8, <1>9, KInvCalls DEF QInv
<1>11. p.segments = q.segments /\ p.boundaries = q.boundaries
  BY <1>1, <1>9 DEF Sound, RequestRecord
<1>. QED  BY <1>10, <1>11 DEF p, more

LEMMA CallingTwo ==
  ASSUME NEW q \in RequestRecord, NEW c \in CallRecord, NEW d \in CallRecord
  PROVE  Calling(q, <<c, d>>) = Calling(Calling(q, <<d>>), <<c>>)
<1>1. q.calls \in Seq(CallRecord)
  BY DEF RequestRecord
<1>2. <<c, d>> \o q.calls = <<c>> \o (<<d>> \o q.calls)
  <2>1. <<c>> \in Seq(CallRecord) /\ <<d>> \in Seq(CallRecord)
    OBVIOUS
  <2>2. <<c, d>> = <<c>> \o <<d>>
    <3>. DEFINE two == <<c, d>>
                both == <<c>> \o <<d>>
    <3>1. two \in Seq(CallRecord) /\ Len(two) = 2 /\ two[1] = c /\ two[2] = d
      OBVIOUS
    <3>2. both \in Seq(CallRecord) /\ Len(both) = 2 /\ both[1] = c /\ both[2] = d
      OBVIOUS
    <3>. HIDE DEF two, both
    <3>3. two = both
      BY <3>1, <3>2, SeqEqual
    <3>. QED  BY <3>3 DEF two, both
  <2>3. (<<c>> \o <<d>>) \o q.calls = <<c>> \o (<<d>> \o q.calls)
    BY <1>1, <2>1, CallsAssociative
  <2>. QED  BY <2>2, <2>3
<1>3. [q EXCEPT !.calls = <<d>> \o q.calls].calls = <<d>> \o q.calls
  BY DEF RequestRecord
<1>. DEFINE one == <<d>> \o q.calls
            two == <<c>> \o one
<1>. HIDE DEF one, two
<1>4. [[q EXCEPT !.calls = one] EXCEPT !.calls = two] = [q EXCEPT !.calls = two]
  BY DEF RequestRecord
<1>. QED  BY <1>2, <1>3, <1>4 DEF Calling, one, two

-----------------------------------------------------------------------------
(* A task is done: its segment is not pending any more.                    *)
Ended(q, p, t) ==
  /\ p \in RequestRecord /\ Segs(p) = Segs(q) /\ Bounds(p) = Bounds(q)
  /\ \A s \in Segs(q) :
       /\ p.segments[s].boundary = q.segments[s].boundary
       /\ p.segments[s].blockedBoundary = q.segments[s].blockedBoundary
       /\ p.segments[s].abortSet = q.segments[s].abortSet
       /\ p.segments[s].parentFlushed = q.segments[s].parentFlushed
       /\ p.segments[s].children \in {q.segments[s].children, <<>>}
       /\ s # t => p.segments[s].status = q.segments[s].status
  /\ p.segments[t].status # "PENDING"
  /\ \A b \in Bounds(q) :
       /\ p.boundaries[b].completedSegments = q.boundaries[b].completedSegments
       /\ p.boundaries[b].pendingTasks = q.boundaries[b].pendingTasks
  /\ \A set \in Sets(q) : /\ Tasks(p, set) \subseteq Tasks(q, set)
                          /\ Tasks(q, set) \subseteq Tasks(p, set) \cup {t}
  /\ p.status = q.status /\ p.thrown = q.thrown
  /\ p.allPendingTasks = q.allPendingTasks
  /\ p.pendingRootTasks = q.pendingRootTasks
  /\ p.pingedTasks = q.pingedTasks
  /\ p.shellReady = q.shellReady /\ p.allReady = q.allReady
  /\ p.clientRenderedBoundaries = q.clientRenderedBoundaries
  /\ p.completedBoundaries = q.completedBoundaries
  /\ p.partialBoundaries = q.partialBoundaries
  /\ p.completedRootSegment = q.completedRootSegment
  /\ p.document = q.document

LEMMA EndedLive ==
  ASSUME NEW q, NEW p, NEW t \in Live(q), Sound(q), Ended(q, p, t)
  PROVE  /\ Live(p) = Live(q) \ {t}
         /\ Cardinality(Live(q)) = Cardinality(Live(p)) + 1
         /\ \A b : Cardinality(LiveOf(q, b)) = Cardinality(LiveOf(p, b))
                     + (IF b = q.segments[t].blockedBoundary THEN 1 ELSE 0)
<1>1. Live(p) = Live(q) \ {t}
  BY DEF Live, Ended, Sound, Pointers
<1>2. Cardinality(Live(q)) = Cardinality(Live(p)) + 1
  <2>1. Cardinality(Live(q) \ {t}) = Cardinality(Live(q)) - 1
    BY LiveFinite, FS_RemoveElement
  <2>. QED  BY <1>1, <2>1, LiveFinite
<1>3. ASSUME NEW b
      PROVE  Cardinality(LiveOf(q, b)) = Cardinality(LiveOf(p, b))
               + (IF b = q.segments[t].blockedBoundary THEN 1 ELSE 0)
  <2>0. \A s \in Live(q) : p.segments[s].blockedBoundary = q.segments[s].blockedBoundary
    BY DEF Live, Ended
  <2>1. LiveOf(p, b) = LiveOf(q, b) \ {t}
    BY <1>1, <2>0 DEF LiveOf
  <2>2. Cardinality(LiveOf(q, b)) \in Nat /\ IsFiniteSet(LiveOf(q, b))
    BY LiveFinite
  <2>3. CASE b = q.segments[t].blockedBoundary
    <3>1. t \in LiveOf(q, b)
      BY <2>3 DEF LiveOf
    <3>2. Cardinality(LiveOf(q, b) \ {t}) = Cardinality(LiveOf(q, b)) - 1
      BY <2>2, <3>1, FS_RemoveElement
    <3>. QED  BY <2>1, <2>2, <2>3, <3>2
  <2>4. CASE b # q.segments[t].blockedBoundary
    <3>1. LiveOf(p, b) = LiveOf(q, b)
      BY <2>1, <2>4 DEF LiveOf
    <3>. QED  BY <2>2, <2>4, <3>1
  <2>. QED  BY <2>3, <2>4
<1>. QED  BY <1>1, <1>2, <1>3

(* All that Shape says, but for where the calls have got to.               *)
Base(q, calls, rank) ==
  /\ Sound(q) /\ Ranked(q, rank) /\ Homes(q)
  /\ CallsOK(q, calls) /\ Nested(calls, rank)
  /\ Caughts(q.thrown, calls) /\ Roots(q, calls)

(* A task is done and still counted, for boundary b.                       *)
Ending(q, rank, t) ==
  LET b == q.segments[t].blockedBoundary
  IN  /\ Shape(q, q.calls, rank) /\ Told(q) /\ q.thrown = FALSE
      /\ t \in Segs(q) /\ q.segments[t].status # "PENDING"
      /\ Counts(q, q.calls, 1, b)
      /\ b # 0 => After(q.calls, rank, b)
      /\ b = 0 /\ q.segments[t].parentFlushed =>
           t = 1 /\ q.completedRootSegment = 0

LEMMA EndedBase ==
  ASSUME NEW q, NEW p, NEW t \in Segs(q), NEW calls, NEW rank,
         Base(q, calls, rank), Ended(q, p, t)
  PROVE  Base(p, calls, rank)
<1>1. /\ Segs(p) = Segs(q) /\ Bounds(p) = Bounds(q) /\ Sets(p) = Sets(q)
      /\ Sound(q) /\ t \in Segs(q)
  BY DEF Ended, Sets, Base, Live
<1>2. Pointers(p)
  <2>1. ASSUME NEW s \in Segs(p)
        PROVE  LET segment == p.segments[s]
               IN  /\ segment.boundary \in Sets(p)
                   /\ segment.blockedBoundary \in Sets(p)
                   /\ segment.abortSet \in Sets(p)
                   /\ \A i \in DOMAIN segment.children :
                        LET c == segment.children[i]
                        IN  /\ c \in Segs(p)
                            /\ p.segments[c].blockedBoundary = segment.blockedBoundary
    <3>1. /\ q.segments[s].boundary \in Sets(q)
          /\ q.segments[s].blockedBoundary \in Sets(q)
          /\ q.segments[s].abortSet \in Sets(q)
          /\ \A i \in DOMAIN q.segments[s].children :
               LET c == q.segments[s].children[i]
               IN  /\ c \in Segs(q)
                   /\ q.segments[c].blockedBoundary = q.segments[s].blockedBoundary
      BY <1>1, <2>1 DEF Sound, Pointers
    <3>2. /\ p.segments[s].boundary = q.segments[s].boundary
          /\ p.segments[s].blockedBoundary = q.segments[s].blockedBoundary
          /\ p.segments[s].abortSet = q.segments[s].abortSet
          /\ p.segments[s].children \in {q.segments[s].children, <<>>}
      BY <1>1, <2>1 DEF Ended
    <3>3. \A c \in Segs(q) : p.segments[c].blockedBoundary = q.segments[c].blockedBoundary
      BY DEF Ended
    <3>4. CASE p.segments[s].children = q.segments[s].children
      BY <1>1, <3>1, <3>2, <3>3, <3>4
    <3>5. CASE p.segments[s].children = <<>>
      BY <1>1, <3>1, <3>2, <3>5
    <3>. QED  BY <3>2, <3>4, <3>5
  <2>2. /\ p.clientRenderedBoundaries = q.clientRenderedBoundaries
        /\ p.completedBoundaries = q.completedBoundaries
        /\ p.partialBoundaries = q.partialBoundaries
        /\ p.completedRootSegment = q.completedRootSegment
        /\ \A b \in Bounds(q) : p.boundaries[b].completedSegments
                                  = q.boundaries[b].completedSegments
    BY DEF Ended
  <2>. QED  BY <1>1, <2>1, <2>2 DEF Pointers, Sound
<1>3. Sound(p)
  BY <1>2 DEF Sound, Ended
<1>4. \A s \in Segs(q) : /\ p.segments[s].blockedBoundary = q.segments[s].blockedBoundary
                         /\ p.segments[s].abortSet = q.segments[s].abortSet
                         /\ p.segments[s].parentFlushed = q.segments[s].parentFlushed
                         /\ q.segments[s].status # "PENDING" =>
                              p.segments[s].status # "PENDING"
  BY DEF Ended
<1>5. Ranked(p, rank)
  BY <1>1, <1>4 DEF Base, Ranked
<1>6. Homes(p)
  BY <1>1, <1>4 DEF Base, Homes, Ended
<1>7. CallsOK(p, calls)
  BY <1>1, <1>4 DEF Base, CallsOK, CallOK
<1>8. Roots(p, calls)
  BY <1>1, <1>4 DEF Base, Roots, Ended
<1>9. Caughts(p.thrown, calls) /\ Nested(calls, rank)
  BY DEF Base, Ended
<1>. QED  BY <1>3, <1>5, <1>6, <1>7, <1>8, <1>9 DEF Base

LEMMA EndedEnding ==
  ASSUME NEW q, NEW p, NEW t \in Live(q), NEW rank,
         Base(q, p.calls, rank), Counts(q, p.calls, 0, 0), Told(q), q.thrown = FALSE,
         Ended(q, p, t), Cursors(p, p.calls),
         q.segments[t].blockedBoundary # 0
           => After(p.calls, rank, q.segments[t].blockedBoundary)
  PROVE  Ending(p, rank, t)
<1>. DEFINE b0 == q.segments[t].blockedBoundary
<1>1. Base(p, p.calls, rank) /\ Sound(q) /\ Sound(p)
  <2>1. t \in Segs(q)
    BY DEF Live
  <2>. QED  BY <2>1, EndedBase DEF Base
<1>2. Shape(p, p.calls, rank)
  BY <1>1 DEF Base, Shape
<1>3. Told(p) /\ p.thrown = FALSE
  BY DEF Told, Ended
<1>4. t \in Segs(q) /\ Segs(p) = Segs(q) /\ p.segments[t].status # "PENDING"
      /\ q.segments[t].status = "PENDING" /\ p.segments[t].blockedBoundary = b0
      /\ p.segments[t].parentFlushed = q.segments[t].parentFlushed
  BY DEF Ended, Live
<1>5. /\ Cardinality(Live(q)) = Cardinality(Live(p)) + 1
      /\ \A b : Cardinality(LiveOf(q, b)) = Cardinality(LiveOf(p, b))
                  + (IF b = b0 THEN 1 ELSE 0)
      /\ Cardinality(Live(p)) \in Nat
      /\ \A b : Cardinality(LiveOf(p, b)) \in Nat
  BY <1>1, EndedLive, LiveFinite
<1>6. LessCalls(p.calls) \in Nat
  BY <1>1, Records, LessCallsNat
<1>7. Counts(p, p.calls, 1, b0)
  <2>1. /\ Bounds(p) = Bounds(q) /\ p.status = q.status
        /\ p.allPendingTasks = q.allPendingTasks
        /\ p.pendingRootTasks = q.pendingRootTasks
        /\ \A b \in Bounds(q) : p.boundaries[b].pendingTasks = q.boundaries[b].pendingTasks
    BY DEF Ended
  <2>2. \A b : Cardinality(LiveOf(q, b)) + (IF b = 0 THEN 0 ELSE 0)
                 = Cardinality(LiveOf(p, b)) + (IF b = b0 THEN 1 ELSE 0)
    <3>1. ASSUME NEW b
          PROVE  Cardinality(LiveOf(q, b)) + (IF b = 0 THEN 0 ELSE 0)
                   = Cardinality(LiveOf(p, b)) + (IF b = b0 THEN 1 ELSE 0)
      <4>1. Cardinality(LiveOf(q, b)) = Cardinality(LiveOf(p, b))
                  + (IF b = b0 THEN 1 ELSE 0) /\ Cardinality(LiveOf(p, b)) \in Nat
        BY <1>5
      <4>. QED  BY <4>1
    <3>. QED  BY <3>1
  <2>3. Cardinality(Live(q)) + LessCalls(p.calls) + 0
          = Cardinality(Live(p)) + LessCalls(p.calls) + 1
    BY <1>5, <1>6
  <2>. QED  BY <2>1, <2>2, <2>3 DEF Counts
<1>8. ASSUME b0 = 0, p.segments[t].parentFlushed
      PROVE  t = 1 /\ p.completedRootSegment = 0
  <2>1. t \in LiveOf(q, 0)
    BY <1>8 DEF LiveOf
  <2>2. Cardinality(LiveOf(q, 0)) >= 1
    BY <1>5, <1>8
  <2>3. q.pendingRootTasks >= Cardinality(LiveOf(q, 0)) + (IF 0 = 0 THEN 0 ELSE 0)
    BY DEF Counts
  <2>4. Cardinality(LiveOf(q, 0)) \in Nat /\ q.pendingRootTasks \in Int
    BY <1>1, LiveFinite DEF Sound, RequestRecord
  <2>5. q.pendingRootTasks > 0
    BY <2>2, <2>3, <2>4
  <2>6. t = 1
    BY <1>4, <1>8, <2>5 DEF Base, Roots
  <2>7. q.completedRootSegment = 0
    BY <1>4, <2>5, <2>6 DEF Base, Roots
  <2>. QED  BY <2>6, <2>7 DEF Ended
<1>. QED  BY <1>2, <1>3, <1>4, <1>7, <1>8 DEF Ending

(* The task has been counted off but for its boundary b0.                  *)
Owed(q, calls, b0) ==
  LET of(b) == Cardinality(LiveOf(q, b)) + (IF b = b0 THEN 1 ELSE 0)
      all == Cardinality(Live(q)) + LessCalls(calls)
  IN  /\ \A b \in Bounds(q) : q.boundaries[b].pendingTasks = of(b)
      /\ q.allPendingTasks >= all
      /\ q.pendingRootTasks >= of(0)
      /\ q.status = "OPEN" =>
           q.allPendingTasks = all /\ q.pendingRootTasks = of(0)

OneLess == Call("oneTaskLess", 0, 0)

LEMMA OneLessCall ==
  /\ OneLess \in CallRecord /\ OneLess.op = "oneTaskLess"
  /\ OneLess.op \notin FlushOps /\ OneLess.op \notin AbortOps
  /\ ~Iterates(OneLess) /\ OneLess.op \notin SendingOps
  /\ \A q : CallOK(q, OneLess)
<1>1. OneLess \in CallRecord /\ OneLess.op = "oneTaskLess"
  BY CallType, OpNames DEF OneLess
<1>. HIDE DEF OneLess
<1>2. /\ OneLess.op \notin FlushOps /\ OneLess.op \notin AbortOps
      /\ ~Iterates(OneLess) /\ OneLess.op \notin SendingOps
  BY <1>1 DEF FlushOps, SendingOps, AbortOps, Iterates
<1>3. \A q : CallOK(q, OneLess)
  BY <1>1, OpNames DEF CallOK
<1>. QED  BY <1>1, <1>2, <1>3

LEMMA OneLessPushed ==
  ASSUME NEW q, NEW rank, NEW t, Ending(q, rank, t)
  PROVE  LET p == Calling(q, <<OneLess>>)
         IN  /\ Shape(p, p.calls, rank) /\ Told(p) /\ p.thrown = FALSE
             /\ p.calls = <<OneLess>> \o q.calls
             /\ p.segments = q.segments /\ p.boundaries = q.boundaries
             /\ p.status = q.status /\ p.pingedTasks = q.pingedTasks
             /\ p.abortableTasks = q.abortableTasks
             /\ p.completedRootSegment = q.completedRootSegment
             /\ Owed(p, p.calls, q.segments[t].blockedBoundary)
<1>. DEFINE more == <<OneLess>> \o q.calls
            p == Calling(q, <<OneLess>>)
            b0 == q.segments[t].blockedBoundary
<1>1. Sound(q) /\ q.calls \in Seq(CallRecord) /\ more \in Seq(CallRecord)
  BY FirstCall, Records, OneLessCall DEF Ending, Shape
<1>2. Shape(q, more, rank)
  <2>1. CallsOK(q, more) /\ Nested(more, rank)
    BY <1>1, OneLessCall, CallsOKCons, NestedCons DEF Ending, Shape
  <2>2. Cursors(q, more) /\ Roots(q, more)
    BY <1>1, OneLessCall, CursorsCons, RootsCons DEF Ending, Shape
  <2>3. Caughts(q.thrown, more)
    BY <1>1, OneLessCall, CaughtsCons DEF Ending, Shape
  <2>. QED  BY <1>1, <2>1, <2>2, <2>3 DEF Ending, Shape
<1>3. LessCalls(more) = LessCalls(q.calls) + 1 /\ LessCalls(q.calls) \in Nat
  BY <1>1, OneLessCall, LessCallsCons
<1>. HIDE DEF more
<1>4. p = [q EXCEPT !.calls = more]
  BY DEF Calling, more
<1>. HIDE DEF p
<1>5. /\ p.calls = more /\ p.thrown = q.thrown /\ Shape(p, more, rank) /\ Told(p)
      /\ Counts(p, q.calls, 1, b0)
  BY <1>1, <1>2, <1>4, KInvCalls DEF Ending
<1>6. /\ p.segments = q.segments /\ p.boundaries = q.boundaries
      /\ p.status = q.status /\ p.pingedTasks = q.pingedTasks
      /\ p.abortableTasks = q.abortableTasks
      /\ p.completedRootSegment = q.completedRootSegment
  BY <1>1, <1>4 DEF Sound, RequestRecord
<1>7. Owed(p, more, b0)
  <2>1. Cardinality(Live(p)) \in Nat
    BY <1>5, LiveFinite DEF Shape
  <2>2. Cardinality(Live(p)) + LessCalls(q.calls) + 1
          = Cardinality(Live(p)) + LessCalls(more)
    BY <1>3, <2>1
  <2>. QED  BY <1>5, <2>2 DEF Counts, Owed
<1>8. p.thrown = FALSE
  BY <1>5 DEF Ending
<1>. QED  BY <1>5, <1>6, <1>7, <1>8 DEF p, more

(* The task is counted off for its boundary.                               *)
CountedFor(q, b) ==
  [Calling(q, <<OneLess>>) EXCEPT !.boundaries[b].pendingTasks = @ - 1]

LEMMA CountedOff ==
  ASSUME NEW q, NEW rank, NEW t, Ending(q, rank, t),
         q.segments[t].blockedBoundary # 0
  PROVE  LET b == q.segments[t].blockedBoundary
             p == CountedFor(q, b)
         IN  /\ QInv(p, rank) /\ p.thrown = FALSE /\ b \in Bounds(p)
             /\ p.calls = <<OneLess>> \o q.calls /\ After(p.calls, rank, b)
             /\ p.segments = q.segments /\ Bounds(p) = Bounds(q)
             /\ p.pingedTasks = q.pingedTasks
             /\ \A set \in Sets(q) : Tasks(p, set) = Tasks(q, set)
<1>. DEFINE b == q.segments[t].blockedBoundary
            m == Calling(q, <<OneLess>>)
            n == m.boundaries[b].pendingTasks - 1
            boundary == [m.boundaries[b] EXCEPT !.pendingTasks = n]
            p == [m EXCEPT !.boundaries[b].pendingTasks = @ - 1]
<1>1. /\ Shape(m, m.calls, rank) /\ Told(m) /\ m.thrown = FALSE
      /\ m.calls = <<OneLess>> \o q.calls
      /\ m.segments = q.segments /\ m.boundaries = q.boundaries
      /\ m.status = q.status /\ m.pingedTasks = q.pingedTasks
      /\ m.abortableTasks = q.abortableTasks
      /\ Owed(m, m.calls, b)
  BY OneLessPushed
<1>. HIDE DEF m
<1>2. b \in Bounds(q) /\ Bounds(m) = Bounds(q) /\ Sound(m) /\ Sound(q)
  <2>1. Sound(q) /\ t \in Segs(q)
    BY DEF Ending, Shape
  <2>. QED  BY <1>1, <2>1 DEF Sound, Pointers, Sets, Shape, Bounds
<1>3. m.boundaries[b] \in BoundaryRecord /\ m.boundaries[b].pendingTasks \in Int
  BY <1>2, Records DEF BoundaryRecord
<1>4. n \in Int
  BY <1>3
<1>. HIDE DEF n, b
<1>5. /\ boundary \in BoundaryRecord /\ boundary.pendingTasks = n
      /\ boundary.completedSegments = m.boundaries[b].completedSegments
      /\ boundary.fallbackAbortableTasks = m.boundaries[b].fallbackAbortableTasks
  BY <1>3, <1>4 DEF BoundaryRecord
<1>6. p = [m EXCEPT !.boundaries[b] = boundary]
  <2>1. b \in DOMAIN m.boundaries /\ "boundaries" \in DOMAIN m
    BY <1>2 DEF Bounds, Sound, RequestRecord
  <2>2. p = [m EXCEPT !.boundaries = [m.boundaries EXCEPT ![b] =
               [m.boundaries[b] EXCEPT !.pendingTasks = n]]]
    BY <2>1 DEF n
  <2>. QED  BY <2>1, <2>2
<1>. HIDE DEF boundary, p
<1>7. /\ p \in RequestRecord /\ p.segments = m.segments /\ Bounds(p) = Bounds(m)
      /\ p.boundaries = [m.boundaries EXCEPT ![b] = boundary]
      /\ p.status = m.status /\ p.abortableTasks = m.abortableTasks
      /\ p.thrown = m.thrown /\ p.calls = m.calls
      /\ p.clientRenderedBoundaries = m.clientRenderedBoundaries
      /\ p.completedBoundaries = m.completedBoundaries
      /\ p.partialBoundaries = m.partialBoundaries
      /\ p.completedRootSegment = m.completedRootSegment
      /\ p.document = m.document /\ p.pingedTasks = m.pingedTasks
      /\ p.pendingRootTasks = m.pendingRootTasks
      /\ p.allPendingTasks = m.allPendingTasks
      /\ p.allReady = m.allReady /\ p.shellReady = m.shellReady
  <2>. DEFINE boundaries == [m.boundaries EXCEPT ![b] = boundary]
  <2>0. m.boundaries \in Seq(BoundaryRecord)
    BY <1>2 DEF Sound, RequestRecord
  <2>1. m.boundaries \in Seq(BoundaryRecord) /\ b \in 1..Len(m.boundaries)
    BY <1>2, <2>0, LenProperties DEF Bounds
  <2>2. boundaries \in Seq(BoundaryRecord) /\ DOMAIN boundaries = DOMAIN m.boundaries
    BY <1>5, <2>1, ExceptSeq
  <2>3. p = [m EXCEPT !.boundaries = boundaries]
    BY <1>2, <1>6, <2>1 DEF Sound, RequestRecord
  <2>. HIDE DEF boundaries
  <2>4. p \in RequestRecord
    BY <1>2, <2>2, <2>3 DEF Sound, RequestRecord
  <2>5. p.boundaries = boundaries
    BY <1>2, <2>3 DEF Sound, RequestRecord
  <2>6. /\ p.segments = m.segments
        /\ p.status = m.status /\ p.abortableTasks = m.abortableTasks
        /\ p.thrown = m.thrown /\ p.calls = m.calls
        /\ p.clientRenderedBoundaries = m.clientRenderedBoundaries
        /\ p.completedBoundaries = m.completedBoundaries
        /\ p.partialBoundaries = m.partialBoundaries
        /\ p.completedRootSegment = m.completedRootSegment
        /\ p.document = m.document /\ p.pingedTasks = m.pingedTasks
        /\ p.pendingRootTasks = m.pendingRootTasks
        /\ p.allPendingTasks = m.allPendingTasks
        /\ p.allReady = m.allReady /\ p.shellReady = m.shellReady
    BY <1>2, <2>3 DEF Sound, RequestRecord
  <2>. QED  BY <2>2, <2>4, <2>5, <2>6 DEF boundaries, Bounds
<1>8. \A c \in Bounds(m) : p.boundaries[c] = IF c = b THEN boundary ELSE m.boundaries[c]
  BY <1>2, <1>7 DEF Bounds
<1>9. SameButCounts(m, p)
  BY <1>5, <1>7, <1>8 DEF SameButCounts
<1>10. /\ Shape(p, m.calls, rank)
       /\ Live(p) = Live(m) /\ \A c : LiveOf(p, c) = LiveOf(m, c)
  BY <1>1, <1>9, ShapeCounts
<1>11. Counts(p, m.calls, 0, 0)
  <2>1. ASSUME NEW c \in Bounds(p)
        PROVE  p.boundaries[c].pendingTasks
                 = Cardinality(LiveOf(p, c)) + (IF c = 0 THEN 0 ELSE 0)
    <3>1. m.boundaries[c].pendingTasks
            = Cardinality(LiveOf(m, c)) + (IF c = b THEN 1 ELSE 0)
      BY <1>1, <1>7 DEF Owed
    <3>2. Cardinality(LiveOf(m, c)) \in Nat
      BY <1>2, LiveFinite
    <3>3. CASE c = b
      <4>1. p.boundaries[c].pendingTasks = m.boundaries[c].pendingTasks - 1
        BY <1>5, <1>7, <1>8, <3>3 DEF n
      <4>. QED  BY <1>10, <3>1, <3>2, <3>3, <4>1
    <3>4. CASE c # b
      <4>1. p.boundaries[c] = m.boundaries[c]
        BY <1>7, <1>8, <3>4
      <4>. QED  BY <1>10, <3>1, <3>2, <3>4, <4>1
    <3>. QED  BY <3>3, <3>4
  <2>2. b # 0
    BY DEF b
  <2>3. /\ Cardinality(LiveOf(m, 0)) \in Nat /\ Cardinality(Live(m)) \in Nat
        /\ LessCalls(m.calls) \in Nat
    BY <1>2, LiveFinite, Records, LessCallsNat
  <2>4. /\ m.allPendingTasks >= Cardinality(Live(m)) + LessCalls(m.calls)
        /\ m.pendingRootTasks >= Cardinality(LiveOf(m, 0)) + 0
        /\ m.status = "OPEN" =>
             /\ m.allPendingTasks = Cardinality(Live(m)) + LessCalls(m.calls)
             /\ m.pendingRootTasks = Cardinality(LiveOf(m, 0)) + 0
    BY <1>1, <2>2 DEF Owed
  <2>5. /\ p.allPendingTasks >= Cardinality(Live(p)) + LessCalls(m.calls) + 0
        /\ p.status = "OPEN" =>
             p.allPendingTasks = Cardinality(Live(p)) + LessCalls(m.calls) + 0
    BY <1>7, <1>10, <2>3, <2>4
  <2>6. /\ p.pendingRootTasks >= Cardinality(LiveOf(p, 0)) + (IF 0 = 0 THEN 0 ELSE 0)
        /\ p.status = "OPEN" =>
             p.pendingRootTasks = Cardinality(LiveOf(p, 0)) + (IF 0 = 0 THEN 0 ELSE 0)
    BY <1>7, <1>10, <2>3, <2>4
  <2>. QED  BY <2>1, <2>5, <2>6 DEF Counts
<1>12. Told(p)
  BY <1>1, <1>7 DEF Told
<1>13. QInv(p, rank)
  BY <1>7, <1>10, <1>11, <1>12 DEF QInv, KInv
<1>14. After(p.calls, rank, b)
  <2>1. After(q.calls, rank, b)
    BY DEF Ending, b
  <2>2. q.calls \in Seq(CallRecord) /\ ~Iterates(OneLess) /\ OneLess \in CallRecord
    BY <1>2, Records, OneLessCall
  <2>3. \A j \in DOMAIN (<<OneLess>> \o q.calls) :
          \/ (<<OneLess>> \o q.calls)[j] = OneLess
          \/ j - 1 \in DOMAIN q.calls /\ (<<OneLess>> \o q.calls)[j] = q.calls[j - 1]
    BY <2>2, FirstCall
  <2>. QED  BY <1>1, <1>7, <2>1, <2>2, <2>3 DEF After
<1>15. \A set \in Sets(q) : Tasks(p, set) = Tasks(q, set)
  BY <1>1, <1>2, <1>5, <1>7, <1>8 DEF Tasks, Sets
<1>16. CountedFor(q, b) = p
  BY DEF CountedFor, p, m
<1>. QED  BY <1>1, <1>2, <1>7, <1>13, <1>14, <1>15, <1>16 DEF b

(* What a step may do with tasks: those that are live stay so until done.  *)
Aged(q, p) ==
  /\ Segs(p) = Segs(q) /\ p.pingedTasks = q.pingedTasks
  /\ \A s \in Segs(q) : p.segments[s].status = "PENDING" =>
       q.segments[s].status = "PENDING" /\ (s \in Live(q) => s \in Live(p))

LEMMA AgedTrans ==
  ASSUME NEW q, NEW p, NEW o, Aged(q, p), Aged(p, o) PROVE Aged(q, o)
  BY DEF Aged

LEMMA KeptAged ==
  ASSUME NEW q, NEW p, Sound(q), Kept(q, p) PROVE Aged(q, p)
  BY KeptLive DEF Aged, Kept

LEMMA SendsAged ==
  ASSUME NEW q, NEW p, Sound(q), Sends(q, p) PROVE Aged(q, p)
  BY KeptAged DEF Sends

LEMMA SameAged ==
  ASSUME NEW q, NEW p, Sound(q), p.segments = q.segments, Bounds(p) = Bounds(q),
         p.pingedTasks = q.pingedTasks,
         \A set \in Sets(q) : Tasks(p, set) = Tasks(q, set)
  PROVE  Aged(q, p)
  BY DEF Aged, Live, Segs, Sound, Pointers

LEMMA EndedAged ==
  ASSUME NEW q, NEW t \in Live(q), NEW p, Sound(q), Ended(q, p, t)
  PROVE  Aged(q, p)
<1>1. Live(p) = Live(q) \ {t}
  BY EndedLive
<1>. QED  BY <1>1 DEF Aged, Ended, Live

LEMMA CallingKept ==
  ASSUME NEW q, NEW calls \in Seq(CallRecord), Sound(q)
  PROVE  LET p == Calling(q, calls)
         IN  /\ Kept(q, p) /\ Sound(p) /\ p.segments = q.segments
             /\ p.boundaries = q.boundaries /\ p.calls = calls \o q.calls
             /\ p.thrown = q.thrown
<1>. DEFINE more == calls \o q.calls
            p == Calling(q, calls)
<1>1. q.calls \in Seq(CallRecord)
  BY Records
<1>2. more \in Seq(CallRecord)
  BY <1>1, ConcatProperties
<1>. HIDE DEF more
<1>3. p = [q EXCEPT !.calls = more]
  BY DEF Calling, more
<1>. HIDE DEF p
<1>4. Sound(p) /\ p.calls = more /\ p.thrown = q.thrown
  BY <1>2, <1>3, KInvCalls
<1>5. /\ p.segments = q.segments /\ p.boundaries = q.boundaries
      /\ p.status = q.status /\ p.abortableTasks = q.abortableTasks
      /\ p.allPendingTasks = q.allPendingTasks
      /\ p.pendingRootTasks = q.pendingRootTasks
      /\ p.pingedTasks = q.pingedTasks
      /\ p.shellReady = q.shellReady /\ p.allReady = q.allReady
      /\ p.completedRootSegment = q.completedRootSegment
      /\ p.document = q.document
  BY <1>3 DEF Sound, RequestRecord
<1>6. Kept(q, p)
  BY <1>5 DEF Kept, Segs, Bounds
<1>. QED  BY <1>4, <1>5, <1>6 DEF p, more

LEMMA FlushesKept ==
  ASSUME NEW q, Sound(q)
  PROVE  /\ Kept(q, TryToFlush(q)) /\ Kept(q, StartFlowing(q))
         /\ Kept(q, Pipe(q)) /\ Kept(q, FlushIfFlowing(q))
<1>. DEFINE c == Call("catch", 0, 0)
<1>0. <<c>> \in Seq(CallRecord)
  BY CallType, OpNames
<1>. HIDE DEF c
<1>1. ASSUME NEW p, Sound(p) PROVE Kept(p, TryToFlush(p))
  <2>. DEFINE m == Calling(p, <<c>>)
  <2>1. Kept(p, m) /\ Sound(m)
    BY <1>0, <1>1, CallingKept
  <2>. HIDE DEF m
  <2>2. Kept(m, FlushCompletedQueues(m))
    BY <2>1, SendsQueues DEF Sends
  <2>3. Kept(p, FlushCompletedQueues(m))
    BY <2>1, <2>2, KeptTrans
  <2>. QED  BY <2>3 DEF TryToFlush, m, c
<1>2. ASSUME NEW p, Sound(p) PROVE Kept(p, StartFlowing(p))
  <2>1. CASE p.status = "CLOSING"
    BY <1>2, <2>1, HostChange DEF StartFlowing, Sends
  <2>2. CASE p.status # "CLOSING" /\ (p.status = "CLOSED" \/ p.destination)
    BY <2>2, KeptRefl DEF StartFlowing
  <2>3. CASE p.status # "CLOSING" /\ ~(p.status = "CLOSED" \/ p.destination)
    <3>. DEFINE m == [p EXCEPT !.destination = TRUE]
    <3>1. Kept(p, m) /\ Sound(m)
      BY <1>2, HostChange DEF Sends
    <3>. HIDE DEF m
    <3>2. Kept(p, TryToFlush(m))
      BY <1>1, <3>1, KeptTrans
    <3>. QED  BY <2>3, <3>2 DEF StartFlowing, m
  <2>. QED  BY <2>1, <2>2, <2>3
<1>3. Kept(q, Pipe(q))
  <2>1. CASE q.piped
    BY <2>1, KeptRefl DEF Pipe
  <2>2. CASE ~q.piped
    <3>. DEFINE m == [q EXCEPT !.piped = TRUE]
    <3>1. Kept(q, m) /\ Sound(m)
      BY HostChange DEF Sends
    <3>. HIDE DEF m
    <3>2. Kept(q, StartFlowing(m))
      BY <1>2, <3>1, KeptTrans
    <3>. QED  BY <2>2, <3>2 DEF Pipe, m
  <2>. QED  BY <2>1, <2>2
<1>4. Kept(q, FlushIfFlowing(q))
  BY <1>1, KeptRefl DEF FlushIfFlowing
<1>. QED  BY <1>1, <1>2, <1>3, <1>4

(* The first segment becomes that of the request.                          *)
LEMMA Rooted ==
  ASSUME NEW m, NEW calls, NEW rank, NEW b0, NEW p,
         Shape(m, calls, rank), Told(m), Owed(m, calls, b0),
         m.segments[1].status # "PENDING",
         p = [m EXCEPT !.completedRootSegment = 1]
  PROVE  /\ Shape(p, calls, rank) /\ Told(p) /\ Owed(p, calls, b0)
         /\ p.thrown = m.thrown /\ p.calls = m.calls /\ Aged(m, p)
<1>. DEFINE one == 1
<1>0. Sound(m) /\ one \in Segs(m) /\ one = 1 /\ one \in Nat
  BY DEF Shape, Roots
<1>00. p = [m EXCEPT !.completedRootSegment = one]
  OBVIOUS
<1>. HIDE DEF one
<1>1. /\ p \in RequestRecord /\ p.completedRootSegment = one
      /\ p.segments = m.segments /\ p.boundaries = m.boundaries
      /\ p.status = m.status /\ p.abortableTasks = m.abortableTasks
      /\ p.allPendingTasks = m.allPendingTasks
      /\ p.pendingRootTasks = m.pendingRootTasks
      /\ p.pingedTasks = m.pingedTasks
      /\ p.shellReady = m.shellReady /\ p.allReady = m.allReady
      /\ p.thrown = m.thrown /\ p.calls = m.calls
      /\ p.clientRenderedBoundaries = m.clientRenderedBoundaries
      /\ p.completedBoundaries = m.completedBoundaries
      /\ p.partialBoundaries = m.partialBoundaries
      /\ p.document = m.document
  BY <1>0, <1>00 DEF Sound, RequestRecord
<1>2. /\ Segs(p) = Segs(m) /\ Bounds(p) = Bounds(m) /\ Sets(p) = Sets(m)
      /\ \A set : Tasks(p, set) = Tasks(m, set)
  BY <1>1 DEF Segs, Bounds, Sets, Tasks
<1>3. Sound(p)
  BY <1>0, <1>1, <1>2 DEF Sound, Pointers
<1>4. /\ Ranked(p, rank) /\ Homes(p) /\ Cursors(p, calls)
  BY <1>1, <1>2 DEF Shape, Ranked, Homes, Cursors
<1>5. CallsOK(p, calls)
  BY <1>1, <1>2 DEF Shape, CallsOK, CallOK
<1>6. Caughts(p.thrown, calls) /\ Roots(p, calls)
  BY <1>1, <1>2 DEF Shape, Roots
<1>7. Live(p) = Live(m) /\ \A b : LiveOf(p, b) = LiveOf(m, b)
  BY <1>1, <1>2 DEF Live, LiveOf
<1>8. Shape(p, calls, rank)
  BY <1>3, <1>4, <1>5, <1>6 DEF Shape
<1>9. Told(p) /\ Owed(p, calls, b0)
  BY <1>1, <1>2, <1>7 DEF Told, Owed
<1>10. Aged(m, p)
  <2>1. /\ p.segments = m.segments /\ Bounds(p) = Bounds(m)
        /\ p.pingedTasks = m.pingedTasks
        /\ \A set \in Sets(m) : Tasks(p, set) = Tasks(m, set)
    BY <1>1, <1>2
  <2>. QED  BY <1>0, <2>1, SameAged
<1>. QED  BY <1>1, <1>8, <1>9, <1>10

LEMMA RootCounted ==
  ASSUME NEW m, NEW rank, Shape(m, m.calls, rank), Told(m), m.thrown = FALSE,
         Owed(m, m.calls, 0)
  PROVE  LET less == [m EXCEPT !.pendingRootTasks = @ - 1]
             p == IF less.pendingRootTasks = 0 THEN CompleteShell(less) ELSE less
         IN  QInv(p, rank) /\ Aged(m, p)
<1>. DEFINE less == [m EXCEPT !.pendingRootTasks = @ - 1]
            told == [less EXCEPT !.shellReady = less.shellReady + 1]
            n == m.pendingRootTasks - 1
<1>1. Sound(m) /\ m \in RequestRecord /\ m.calls \in Seq(CallRecord)
      /\ m.pendingRootTasks \in Int /\ n \in Int
  BY DEF Shape, Sound, RequestRecord
<1>2. m.pendingRootTasks > 0 /\ m.shellReady = 0
  <2>1. m.pendingRootTasks >= Cardinality(LiveOf(m, 0)) + 1
    BY DEF Owed
  <2>2. Cardinality(LiveOf(m, 0)) \in Nat
    BY <1>1, LiveFinite
  <2>3. m.pendingRootTasks > 0
    BY <1>1, <2>1, <2>2
  <2>. QED  BY <2>3 DEF Told
<1>. HIDE DEF n
<1>3. less = [m EXCEPT !.pendingRootTasks = n]
  BY DEF n
<1>4. /\ less \in RequestRecord /\ less.pendingRootTasks = n
      /\ less.segments = m.segments /\ less.boundaries = m.boundaries
      /\ less.status = m.status /\ less.abortableTasks = m.abortableTasks
      /\ less.thrown = m.thrown /\ less.calls = m.calls
      /\ less.clientRenderedBoundaries = m.clientRenderedBoundaries
      /\ less.completedBoundaries = m.completedBoundaries
      /\ less.partialBoundaries = m.partialBoundaries
      /\ less.completedRootSegment = m.completedRootSegment
      /\ less.document = m.document /\ less.allPendingTasks = m.allPendingTasks
      /\ less.allReady = m.allReady /\ less.shellReady = m.shellReady
      /\ less.pingedTasks = m.pingedTasks
  BY <1>1, <1>3 DEF RequestRecord
<1>. HIDE DEF less
<1>5. /\ told \in RequestRecord /\ told.pendingRootTasks = n
      /\ told.segments = m.segments /\ told.boundaries = m.boundaries
      /\ told.status = m.status /\ told.abortableTasks = m.abortableTasks
      /\ told.thrown = m.thrown /\ told.calls = m.calls
      /\ told.clientRenderedBoundaries = m.clientRenderedBoundaries
      /\ told.completedBoundaries = m.completedBoundaries
      /\ told.partialBoundaries = m.partialBoundaries
      /\ told.completedRootSegment = m.completedRootSegment
      /\ told.document = m.document /\ told.allPendingTasks = m.allPendingTasks
      /\ told.allReady = m.allReady /\ told.shellReady = 1
      /\ told.pingedTasks = m.pingedTasks
  <2>. DEFINE one == less.shellReady + 1
  <2>1. one \in Int /\ one = 1
    BY <1>2, <1>4
  <2>. HIDE DEF one
  <2>2. told = [less EXCEPT !.shellReady = one]
    BY DEF one
  <2>. HIDE DEF told
  <2>3. /\ told \in RequestRecord /\ told.pendingRootTasks = less.pendingRootTasks
        /\ told.segments = less.segments /\ told.boundaries = less.boundaries
        /\ told.status = less.status /\ told.abortableTasks = less.abortableTasks
        /\ told.thrown = less.thrown /\ told.calls = less.calls
        /\ told.clientRenderedBoundaries = less.clientRenderedBoundaries
        /\ told.completedBoundaries = less.completedBoundaries
        /\ told.partialBoundaries = less.partialBoundaries
        /\ told.completedRootSegment = less.completedRootSegment
        /\ told.document = less.document
        /\ told.allPendingTasks = less.allPendingTasks
        /\ told.allReady = less.allReady /\ told.shellReady = one
        /\ told.pingedTasks = less.pingedTasks
    BY <1>4, <2>1, <2>2 DEF RequestRecord
  <2>. QED  BY <1>4, <2>1, <2>3
<1>. HIDE DEF told
<1>6. ASSUME NEW p, p \in {less, told}
      PROVE  /\ Shape(p, p.calls, rank) /\ Counts(p, p.calls, 0, 0)
             /\ p.thrown = FALSE /\ Aged(m, p)
  <2>0. /\ p.pendingRootTasks = n /\ p.allPendingTasks = m.allPendingTasks
        /\ p.segments = m.segments /\ p.pingedTasks = m.pingedTasks
        /\ p.boundaries = m.boundaries /\ p.status = m.status
        /\ p.calls = m.calls /\ p.thrown = m.thrown
        /\ p.abortableTasks = m.abortableTasks
    BY <1>4, <1>5, <1>6
  <2>1. SameButCounts(m, p)
    BY <1>2, <1>4, <1>5, <1>6 DEF SameButCounts, Bounds
  <2>2. /\ Shape(p, m.calls, rank)
        /\ Live(p) = Live(m) /\ \A b : LiveOf(p, b) = LiveOf(m, b)
    BY <2>1, ShapeCounts
  <2>3. /\ Cardinality(LiveOf(m, 0)) \in Nat /\ Cardinality(Live(m)) \in Nat
        /\ LessCalls(m.calls) \in Nat
        /\ \A b : Cardinality(LiveOf(m, b)) \in Nat
    BY <1>1, LiveFinite, LessCallsNat
  <2>4. ASSUME NEW b \in Bounds(p)
        PROVE  p.boundaries[b].pendingTasks
                 = Cardinality(LiveOf(p, b)) + (IF b = 0 THEN 0 ELSE 0)
    <3>1. b # 0 /\ b \in Bounds(m)
      BY <1>1, <2>0, Records DEF Bounds
    <3>2. m.boundaries[b].pendingTasks = Cardinality(LiveOf(m, b)) + 0
      BY <3>1 DEF Owed
    <3>. QED  BY <2>0, <2>2, <2>3, <3>2
  <2>5. /\ m.allPendingTasks >= Cardinality(Live(m)) + LessCalls(m.calls)
        /\ m.pendingRootTasks >= Cardinality(LiveOf(m, 0)) + 1
        /\ m.status = "OPEN" =>
             /\ m.allPendingTasks = Cardinality(Live(m)) + LessCalls(m.calls)
             /\ m.pendingRootTasks = Cardinality(LiveOf(m, 0)) + 1
    BY DEF Owed
  <2>6. /\ p.allPendingTasks >= Cardinality(Live(p)) + LessCalls(m.calls) + 0
        /\ p.status = "OPEN" =>
             p.allPendingTasks = Cardinality(Live(p)) + LessCalls(m.calls) + 0
    BY <2>0, <2>2, <2>3, <2>5
  <2>7. /\ n >= Cardinality(LiveOf(m, 0))
        /\ m.status = "OPEN" => n = Cardinality(LiveOf(m, 0))
    BY <1>1, <2>3, <2>5 DEF n
  <2>8. /\ p.pendingRootTasks >= Cardinality(LiveOf(p, 0)) + (IF 0 = 0 THEN 0 ELSE 0)
        /\ p.status = "OPEN" =>
             p.pendingRootTasks = Cardinality(LiveOf(p, 0)) + (IF 0 = 0 THEN 0 ELSE 0)
    BY <2>0, <2>2, <2>3, <2>7
  <2>9. Counts(p, m.calls, 0, 0)
    BY <2>4, <2>6, <2>8 DEF Counts
  <2>10. Aged(m, p)
    BY <1>1, <2>0, SameAged DEF Bounds, Tasks
  <2>. QED  BY <2>0, <2>2, <2>9, <2>10
<1>7. CASE less.pendingRootTasks = 0
  <2>1. Told(told)
    BY <1>4, <1>5, <1>7 DEF Told
  <2>2. QInv(told, rank) /\ told.thrown = FALSE /\ Aged(m, told)
    BY <1>6, <2>1 DEF QInv, KInv
  <2>3. Kept(told, Pipe(told)) /\ Sound(told)
    BY <2>2, FlushesKept DEF QInv, KInv, Shape
  <2>4. Aged(m, Pipe(told))
    BY <2>2, <2>3, KeptAged, AgedTrans
  <2>5. QInv(Pipe(told), rank)
    BY <2>2, PipeKeeps
  <2>6. CompleteShell(less) = IF pipesIn = "onShellReady" THEN Pipe(told) ELSE told
    BY DEF CompleteShell, told
  <2>7. QInv(CompleteShell(less), rank) /\ Aged(m, CompleteShell(less))
    BY <2>2, <2>4, <2>5, <2>6
  <2>. QED  BY <1>7, <2>7 DEF less
<1>8. CASE less.pendingRootTasks # 0
  <2>1. Told(less)
    <3>1. m.pendingRootTasks # 0 /\ m.allReady = IF m.allPendingTasks = 0 THEN 1 ELSE 0
      BY <1>2, <1>1 DEF Told
    <3>. QED  BY <1>2, <1>4, <1>8, <3>1 DEF Told
  <2>2. QInv(less, rank) /\ Aged(m, less)
    BY <1>6, <2>1 DEF QInv, KInv
  <2>. QED  BY <1>8, <2>2 DEF less
<1>. QED  BY <1>7, <1>8 DEF less

LEMMA AltersQInv ==
  ASSUME NEW q, NEW p, NEW rank, QInv(q, rank), q.thrown = FALSE, Alters(q, p)
  PROVE  /\ QInv(p, rank) /\ p.thrown = FALSE /\ p.calls = q.calls /\ Aged(q, p)
         /\ Segs(p) = Segs(q) /\ Bounds(p) = Bounds(q)
         /\ \A s \in Segs(q) :
              p.segments[s].blockedBoundary = q.segments[s].blockedBoundary
<1>1. Sound(q) /\ Sends(q, p)
  BY DEF QInv, KInv, Shape, Alters
<1>2. Aged(q, p)
  BY <1>1, SendsAged
<1>3. QInv(p, rank)
  BY AltersKInv DEF QInv, Alters
<1>4. Kept(q, p)
  BY <1>1 DEF Sends
<1>. QED  BY <1>2, <1>3, <1>4 DEF Alters, Kept

(* Calls of one task that follow each other.                               *)
LEMMA CompletionCalls ==
  ASSUME NEW q, NEW b \in Bounds(q), Sound(q)
  PROVE  /\ LET c == Call("completed", 0, b)
            IN  c \in CallRecord /\ CallOK(q, c) /\ c.op = "completed" /\ c.b = b
         /\ LET c == Call("partiallyCompleted", 0, b)
            IN  c \in CallRecord /\ CallOK(q, c) /\ c.op = "partiallyCompleted"
         /\ \A s \in Segs(q) : q.segments[s].blockedBoundary = b =>
              LET c == Call("queueCompletedSegment", s, b)
              IN  c \in CallRecord /\ CallOK(q, c) /\ c.op = "queueCompletedSegment"
<1>0. b \in Nat /\ \A s \in Segs(q) : s \in Nat
  BY Records
<1>1. ASSUME NEW c, c = Call("completed", 0, b)
      PROVE  c \in CallRecord /\ CallOK(q, c) /\ c.op = "completed" /\ c.b = b
  <2>1. c \in CallRecord /\ c.op = "completed" /\ c.b = b
    BY <1>0, <1>1, CallType, OpNames
  <2>. QED  BY <2>1, OpNames DEF CallOK
<1>2. ASSUME NEW c, c = Call("partiallyCompleted", 0, b)
      PROVE  c \in CallRecord /\ CallOK(q, c) /\ c.op = "partiallyCompleted"
  <2>1. c \in CallRecord /\ c.op = "partiallyCompleted" /\ c.b = b
    BY <1>0, <1>2, CallType, OpNames
  <2>. QED  BY <2>1, OpNames DEF CallOK
<1>3. ASSUME NEW s \in Segs(q), q.segments[s].blockedBoundary = b, NEW c,
             c = Call("queueCompletedSegment", s, b)
      PROVE  c \in CallRecord /\ CallOK(q, c) /\ c.op = "queueCompletedSegment"
  <2>1. c \in CallRecord /\ c.op = "queueCompletedSegment" /\ c.s = s /\ c.b = b
    BY <1>0, <1>3, CallType, OpNames
  <2>. QED  BY <1>3, <2>1, OpNames DEF CallOK
<1>. QED  BY <1>1, <1>2, <1>3

LEMMA PushKeeps ==
  ASSUME NEW q, NEW rank, NEW c \in CallRecord, QInv(q, rank), q.thrown = FALSE,
         CallOK(q, c), c.op \notin FlushOps, c.op # "oneTaskLess",
         Iterates(c) => After(q.calls, rank, c.b), c.op \in AbortOps => c.s <= 1
  PROVE  LET p == Calling(q, <<c>>)
         IN  /\ QInv(p, rank) /\ p.thrown = FALSE /\ p.calls = <<c>> \o q.calls
             /\ p.segments = q.segments /\ p.boundaries = q.boundaries
             /\ Aged(q, p)
<1>1. Sound(q) /\ <<c>> \in Seq(CallRecord)
  BY DEF QInv, KInv, Shape
<1>2. Aged(q, Calling(q, <<c>>))
  BY <1>1, CallingKept, KeptAged
<1>. QED  BY <1>2, PushCall

LEMMA PushSegmentThen ==
  ASSUME NEW q, NEW rank, NEW s \in Segs(q), NEW b \in Bounds(q), NEW d \in CallRecord,
         QInv(q, rank), q.thrown = FALSE, q.segments[s].blockedBoundary = b,
         CallOK(q, d), d.op \notin FlushOps, d.op # "oneTaskLess", d.op \notin AbortOps,
         Iterates(d) => After(q.calls, rank, d.b)
  PROVE  LET p == Calling(q, <<Call("queueCompletedSegment", s, b), d>>)
         IN  QInv(p, rank) /\ p.thrown = FALSE /\ Aged(q, p)
<1>. DEFINE c == Call("queueCompletedSegment", s, b)
            m == Calling(q, <<d>>)
            p == Calling(m, <<c>>)
<1>1. Sound(q) /\ q \in RequestRecord
  BY DEF QInv, KInv, Shape, Sound
<1>2. c \in CallRecord /\ CallOK(q, c) /\ c.op = "queueCompletedSegment"
  BY <1>1, CompletionCalls
<1>. HIDE DEF c
<1>3. /\ QInv(m, rank) /\ m.thrown = FALSE /\ Aged(q, m)
      /\ m.segments = q.segments /\ m.boundaries = q.boundaries
  BY PushKeeps
<1>4. Calling(q, <<c, d>>) = p
  BY <1>1, <1>2, CallingTwo
<1>. HIDE DEF m
<1>5. c.op \notin FlushOps /\ c.op # "oneTaskLess" /\ ~Iterates(c) /\ c.op \notin AbortOps
  BY <1>2 DEF FlushOps, SendingOps, Iterates, AbortOps
<1>6. CallOK(m, c)
  BY <1>2, <1>3 DEF CallOK, Segs, Bounds, Sets
<1>7. QInv(p, rank) /\ p.thrown = FALSE /\ Aged(m, p)
  BY <1>2, <1>3, <1>5, <1>6, PushKeeps
<1>8. Aged(q, p)
  BY <1>3, <1>7, AgedTrans
<1>. QED  BY <1>4, <1>7, <1>8 DEF c

LEMMA FinishPartiallyKeeps ==
  ASSUME NEW q, NEW rank, NEW s \in Segs(q), NEW b \in Bounds(q),
         QInv(q, rank), q.thrown = FALSE, q.segments[s].blockedBoundary = b
  PROVE  LET p == FinishPartially(q, s, b) IN QInv(p, rank) /\ Aged(q, p)
<1>. DEFINE d == Call("partiallyCompleted", 0, b)
<1>0. Sound(q)
  BY DEF QInv, KInv, Shape
<1>1. d \in CallRecord /\ CallOK(q, d) /\ d.op = "partiallyCompleted"
  BY <1>0, CompletionCalls
<1>. HIDE DEF d
<1>2. d.op \notin FlushOps /\ d.op # "oneTaskLess" /\ ~Iterates(d) /\ d.op \notin AbortOps
  BY <1>1 DEF FlushOps, SendingOps, Iterates, AbortOps
<1>3. CASE ToBeQueued(q, s)
  <2>. DEFINE p == Calling(q, <<Call("queueCompletedSegment", s, b), d>>)
  <2>1. QInv(p, rank) /\ Aged(q, p)
    BY <1>1, <1>2, PushSegmentThen
  <2>. QED  BY <1>3, <2>1 DEF FinishPartially, d
<1>4. CASE ~ToBeQueued(q, s)
  <2>1. Aged(q, q)
    BY <1>0, KeptRefl, KeptAged
  <2>. QED  BY <1>4, <2>1 DEF FinishPartially
<1>. QED  BY <1>3, <1>4

LEMMA FinishBoundaryKeeps ==
  ASSUME NEW q, NEW rank, NEW s \in Segs(q), NEW b \in Bounds(q),
         QInv(q, rank), q.thrown = FALSE, q.segments[s].blockedBoundary = b,
         After(q.calls, rank, b)
  PROVE  LET p == FinishBoundary(q, s, b) IN QInv(p, rank) /\ Aged(q, p)
<1>. DEFINE d == Call("completed", 0, b)
            m == [q EXCEPT !.boundaries[b].status = "COMPLETED"]
<1>0. Sound(q)
  BY DEF QInv, KInv, Shape
<1>1. Alters(q, m)
  BY <1>0, AltersStatus
<1>. HIDE DEF m
<1>2. /\ QInv(m, rank) /\ m.thrown = FALSE /\ m.calls = q.calls /\ Aged(q, m)
      /\ Segs(m) = Segs(q) /\ Bounds(m) = Bounds(q)
      /\ m.segments[s].blockedBoundary = b
  BY <1>1, AltersQInv
<1>3. Sound(m)
  BY <1>2 DEF QInv, KInv, Shape
<1>4. d \in CallRecord /\ CallOK(m, d) /\ d.op = "completed" /\ d.b = b
  BY <1>2, <1>3, CompletionCalls
<1>. HIDE DEF d
<1>5. d.op \notin FlushOps /\ d.op # "oneTaskLess" /\ d.op \notin AbortOps
  BY <1>4 DEF FlushOps, SendingOps, AbortOps
<1>6. Iterates(d) => After(m.calls, rank, d.b)
  BY <1>2, <1>4
<1>7. CASE ToBeQueued(q, s)
  <2>. DEFINE p == Calling(m, <<Call("queueCompletedSegment", s, b), d>>)
  <2>1. QInv(p, rank) /\ Aged(m, p)
    BY <1>2, <1>4, <1>5, <1>6, PushSegmentThen
  <2>2. Aged(q, p)
    BY <1>2, <2>1, AgedTrans
  <2>. QED  BY <1>7, <2>1, <2>2 DEF FinishBoundary, d, m
<1>8. CASE ~ToBeQueued(q, s)
  <2>. DEFINE p == Calling(m, <<d>>)
  <2>1. QInv(p, rank) /\ Aged(m, p)
    BY <1>2, <1>4, <1>5, <1>6, PushKeeps
  <2>2. Aged(q, p)
    BY <1>2, <2>1, AgedTrans
  <2>. QED  BY <1>8, <2>1, <2>2 DEF FinishBoundary, d, m
<1>. QED  BY <1>7, <1>8

LEMMA FinishRootTaskKeeps ==
  ASSUME NEW q, NEW rank, NEW t, Ending(q, rank, t),
         q.segments[t].blockedBoundary = 0
  PROVE  LET p == FinishRootTask(Calling(q, <<OneLess>>), t)
         IN  QInv(p, rank) /\ Aged(q, p)
<1>. DEFINE m == Calling(q, <<OneLess>>)
            rooted == IF ~m.segments[t].parentFlushed THEN m
                      ELSE IF m.completedRootSegment # 0
                      THEN Throw(m, "two root segments", 0)
                      ELSE [m EXCEPT !.completedRootSegment = t]
<1>1. /\ Shape(m, m.calls, rank) /\ Told(m) /\ m.thrown = FALSE
      /\ m.segments = q.segments /\ Owed(m, m.calls, 0)
      /\ m.completedRootSegment = q.completedRootSegment
  BY OneLessPushed
<1>2. Sound(q) /\ <<OneLess>> \in Seq(CallRecord)
  BY OneLessCall DEF Ending, Shape
<1>3. Aged(q, m)
  BY <1>2, CallingKept, KeptAged
<1>. HIDE DEF m
<1>4. /\ Shape(rooted, rooted.calls, rank) /\ Told(rooted)
      /\ rooted.thrown = FALSE /\ Owed(rooted, rooted.calls, 0) /\ Aged(m, rooted)
  <2>1. CASE ~m.segments[t].parentFlushed
    <3>1. Aged(m, m)
      BY <1>1, KeptRefl, KeptAged DEF Shape
    <3>. QED  BY <1>1, <2>1, <3>1
  <2>2. CASE m.segments[t].parentFlushed
    <3>1. t = 1 /\ m.completedRootSegment = 0 /\ m.segments[1].status # "PENDING"
      BY <1>1, <2>2 DEF Ending
    <3>. DEFINE p == [m EXCEPT !.completedRootSegment = 1]
    <3>2. rooted = p
      BY <2>2, <3>1
    <3>. HIDE DEF p, rooted
    <3>3. p = [m EXCEPT !.completedRootSegment = 1]
      BY DEF p
    <3>4. /\ Shape(p, m.calls, rank) /\ Told(p) /\ Owed(p, m.calls, 0)
          /\ p.thrown = m.thrown /\ p.calls = m.calls /\ Aged(m, p)
      BY <1>1, <3>1, <3>3, Rooted
    <3>. QED  BY <1>1, <3>2, <3>4
  <2>. QED  BY <2>1, <2>2
<1>. DEFINE less == [rooted EXCEPT !.pendingRootTasks = @ - 1]
            p == IF less.pendingRootTasks = 0 THEN CompleteShell(less) ELSE less
<1>. HIDE DEF rooted
<1>5. QInv(p, rank) /\ Aged(rooted, p)
  BY <1>4, RootCounted
<1>6. Aged(q, p)
  BY <1>3, <1>4, <1>5, AgedTrans
<1>7. p = FinishRootTask(m, t)
  BY DEF FinishRootTask, rooted
<1>. QED  BY <1>5, <1>6, <1>7 DEF m

LEMMA FinishedTaskKeeps ==
  ASSUME NEW q, NEW rank, NEW t, Ending(q, rank, t)
  PROVE  LET p == FinishedTask(q, t) IN QInv(p, rank) /\ Aged(q, p)
<1>. DEFINE b == q.segments[t].blockedBoundary
            m == Calling(q, <<OneLess>>)
            less == CountedFor(q, b)
<1>1. CASE b = 0
  <2>1. FinishedTask(q, t) = FinishRootTask(m, t)
    BY <1>1 DEF FinishedTask, OneLess
  <2>. QED  BY <1>1, <2>1, FinishRootTaskKeeps
<1>2. CASE b # 0
  <2>1. /\ QInv(less, rank) /\ less.thrown = FALSE /\ b \in Bounds(less)
        /\ After(less.calls, rank, b)
        /\ less.segments = q.segments /\ Bounds(less) = Bounds(q)
        /\ less.pingedTasks = q.pingedTasks
        /\ \A set \in Sets(q) : Tasks(less, set) = Tasks(q, set)
    BY <1>2, CountedOff
  <2>2. t \in Segs(q) /\ Sound(q)
    BY DEF Ending, Shape
  <2>3. t \in Segs(less) /\ less.segments[t].blockedBoundary = b
    BY <2>1, <2>2 DEF Segs
  <2>4. Aged(q, less)
    BY <2>1, <2>2, SameAged
  <2>5. FinishedTask(q, t) =
          CASE less.boundaries[b].status = "CLIENT_RENDERED" -> less
            [] less.boundaries[b].status # "CLIENT_RENDERED"
                 /\ less.boundaries[b].pendingTasks = 0 ->
                 FinishBoundary(less, t, b)
            [] OTHER -> FinishPartially(less, t, b)
    BY <1>2 DEF FinishedTask, CountedFor, OneLess
  <2>. HIDE DEF less, b
  <2>6. /\ QInv(FinishBoundary(less, t, b), rank)
        /\ Aged(less, FinishBoundary(less, t, b))
    BY <2>1, <2>3, FinishBoundaryKeeps
  <2>7. /\ QInv(FinishPartially(less, t, b), rank)
        /\ Aged(less, FinishPartially(less, t, b))
    BY <2>1, <2>3, FinishPartiallyKeeps
  <2>8. /\ Aged(q, FinishBoundary(less, t, b)) /\ Aged(q, FinishPartially(less, t, b))
    BY <2>4, <2>6, <2>7, AgedTrans
  <2>9. CASE less.boundaries[b].status = "CLIENT_RENDERED"
    BY <2>1, <2>4, <2>5, <2>9
  <2>10. CASE less.boundaries[b].status # "CLIENT_RENDERED"
              /\ less.boundaries[b].pendingTasks = 0
    BY <2>5, <2>6, <2>8, <2>10
  <2>11. CASE less.boundaries[b].status # "CLIENT_RENDERED"
              /\ less.boundaries[b].pendingTasks # 0
    BY <2>5, <2>7, <2>8, <2>11
  <2>. QED  BY <2>9, <2>10, <2>11
<1>. QED  BY <1>1, <1>2

(* The counters do not fall short.                                         *)
Bounded(q) ==
  /\ \A b \in Bounds(q) : q.boundaries[b].pendingTasks = Cardinality(LiveOf(q, b))
  /\ q.allPendingTasks >= Cardinality(Live(q)) + LessCalls(q.calls)
  /\ q.pendingRootTasks >= Cardinality(LiveOf(q, 0))

LEMMA BoundedKeeps ==
  ASSUME NEW q, NEW rank, Shape(q, q.calls, rank), Told(q), Bounded(q),
         q.status # "OPEN"
  PROVE  QInv(q, rank)
<1>1. Sound(q) /\ q.calls \in Seq(CallRecord) /\ q.allPendingTasks \in Int
      /\ q.pendingRootTasks \in Int
  BY DEF Shape, Sound, RequestRecord
<1>2. /\ Cardinality(Live(q)) \in Nat /\ \A b : Cardinality(LiveOf(q, b)) \in Nat
      /\ LessCalls(q.calls) \in Nat
  BY <1>1, LiveFinite, LessCallsNat
<1>3. \A b : Cardinality(LiveOf(q, b)) + (IF b = 0 THEN 0 ELSE 0)
               = Cardinality(LiveOf(q, b))
  <2>1. ASSUME NEW b
        PROVE  Cardinality(LiveOf(q, b)) + (IF b = 0 THEN 0 ELSE 0)
                 = Cardinality(LiveOf(q, b))
    <3>1. Cardinality(LiveOf(q, b)) \in Nat
      BY <1>2
    <3>. QED  BY <3>1
  <2>. QED  BY <2>1
<1>4. q.allPendingTasks >= Cardinality(Live(q)) + LessCalls(q.calls) + 0
  BY <1>1, <1>2 DEF Bounded
<1>5. Counts(q, q.calls, 0, 0)
  BY <1>3, <1>4 DEF Counts, Bounded
<1>. QED  BY <1>5 DEF QInv, KInv

LEMMA FatalKeeps ==
  ASSUME NEW q, NEW rank, Shape(q, q.calls, rank), Told(q), Bounded(q),
         q.thrown = FALSE
  PROVE  QInv(FatalError(q), rank) /\ Aged(q, FatalError(q))
<1>. DEFINE o == [q EXCEPT !.status = "CLOSED"]
<1>0. Sound(q) /\ q \in RequestRecord
  BY DEF Shape, Sound
<1>1. /\ o \in RequestRecord /\ o.status = "CLOSED" /\ o.destination = q.destination
      /\ o.segments = q.segments /\ o.boundaries = q.boundaries
      /\ o.abortableTasks = q.abortableTasks
      /\ o.thrown = q.thrown /\ o.calls = q.calls
      /\ o.clientRenderedBoundaries = q.clientRenderedBoundaries
      /\ o.completedBoundaries = q.completedBoundaries
      /\ o.partialBoundaries = q.partialBoundaries
      /\ o.completedRootSegment = q.completedRootSegment
      /\ o.document = q.document /\ o.pendingRootTasks = q.pendingRootTasks
      /\ o.allPendingTasks = q.allPendingTasks
      /\ o.allReady = q.allReady /\ o.shellReady = q.shellReady
      /\ o.pingedTasks = q.pingedTasks
  BY <1>0 DEF RequestRecord
<1>2. FatalError(o) = FatalError(q)
  <2>. DEFINE how == IF q.ended = "no" THEN "error" ELSE q.ended
  <2>. HIDE DEF how
  <2>1. End(o, "error") = [o EXCEPT !.ended = how] /\ End(q, "error") = [q EXCEPT !.ended = how]
    <3>1. o.ended = q.ended
      BY <1>0 DEF RequestRecord
    <3>. QED  BY <3>1 DEF End, how
  <2>2. [[o EXCEPT !.ended = how] EXCEPT !.status = "CLOSED"]
          = [[q EXCEPT !.ended = how] EXCEPT !.status = "CLOSED"]
    BY <1>0 DEF RequestRecord
  <2>3. [o EXCEPT !.status = "CLOSING"] = [q EXCEPT !.status = "CLOSING"]
    BY <1>0 DEF RequestRecord
  <2>. QED  BY <1>1, <2>1, <2>2, <2>3 DEF FatalError
<1>. HIDE DEF o
<1>3. SameButCounts(q, o)
  BY <1>1 DEF SameButCounts, Bounds
<1>4. /\ Shape(o, o.calls, rank)
      /\ Live(o) = Live(q) /\ \A b : LiveOf(o, b) = LiveOf(q, b)
  BY <1>1, <1>3, ShapeCounts
<1>5. Told(o) /\ Bounded(o)
  BY <1>1, <1>4 DEF Told, Bounded, Bounds
<1>6. QInv(o, rank)
  BY <1>1, <1>4, <1>5, BoundedKeeps
<1>7. Sound(o)
  BY <1>4 DEF Shape
<1>8. /\ Sends(o, FatalError(o)) /\ FatalError(o).thrown = o.thrown
      /\ FatalError(o).calls = o.calls
  BY <1>7, HostChange
<1>9. QInv(FatalError(o), rank)
  BY <1>6, <1>8, HostKeeps
<1>10. Aged(o, FatalError(o))
  BY <1>7, <1>8, SendsAged
<1>11. Aged(q, o)
  BY <1>0, <1>1, SameAged DEF Bounds, Tasks
<1>. QED  BY <1>2, <1>9, <1>10, <1>11, AgedTrans

LEMMA EndingBounded ==
  ASSUME NEW q, NEW rank, NEW t, Ending(q, rank, t),
         q.segments[t].blockedBoundary = 0
  PROVE  /\ Bounded(q) /\ Sound(q)
         /\ Bounded(Calling(q, <<OneLess>>))
<1>1. Sound(q) /\ q.calls \in Seq(CallRecord) /\ q.allPendingTasks \in Int
      /\ q.pendingRootTasks \in Int
  BY DEF Ending, Shape, Sound, RequestRecord
<1>2. /\ Cardinality(Live(q)) \in Nat /\ \A b : Cardinality(LiveOf(q, b)) \in Nat
      /\ LessCalls(q.calls) \in Nat
  BY <1>1, LiveFinite, LessCallsNat
<1>3. Counts(q, q.calls, 1, 0)
  BY DEF Ending
<1>4. ASSUME NEW b \in Bounds(q)
      PROVE  q.boundaries[b].pendingTasks = Cardinality(LiveOf(q, b))
  <2>1. b # 0
    BY <1>1, Records
  <2>2. q.boundaries[b].pendingTasks = Cardinality(LiveOf(q, b)) + 0
    BY <1>3, <2>1 DEF Counts
  <2>3. Cardinality(LiveOf(q, b)) \in Nat
    BY <1>2
  <2>. QED  BY <2>2, <2>3
<1>5. /\ q.allPendingTasks >= Cardinality(Live(q)) + LessCalls(q.calls) + 1
      /\ q.pendingRootTasks >= Cardinality(LiveOf(q, 0)) + 1
  BY <1>3 DEF Counts
<1>6. Cardinality(LiveOf(q, 0)) \in Nat
  BY <1>2
<1>7. Bounded(q)
  BY <1>1, <1>2, <1>4, <1>5, <1>6 DEF Bounded
<1>. DEFINE m == Calling(q, <<OneLess>>)
<1>8. Owed(m, m.calls, 0) /\ Shape(m, m.calls, rank)
  BY OneLessPushed
<1>. HIDE DEF m
<1>9. Sound(m) /\ m.pendingRootTasks \in Int
  BY <1>8 DEF Shape, Sound, RequestRecord
<1>10. ASSUME NEW b \in Bounds(m)
       PROVE  m.boundaries[b].pendingTasks = Cardinality(LiveOf(m, b))
  <2>1. b # 0
    BY <1>9, Records
  <2>2. m.boundaries[b].pendingTasks = Cardinality(LiveOf(m, b)) + 0
    BY <1>8, <2>1 DEF Owed
  <2>3. Cardinality(LiveOf(m, b)) \in Nat
    BY <1>9, LiveFinite
  <2>. QED  BY <2>2, <2>3
<1>11. /\ m.allPendingTasks >= Cardinality(Live(m)) + LessCalls(m.calls)
       /\ m.pendingRootTasks >= Cardinality(LiveOf(m, 0)) + 1
  BY <1>8 DEF Owed
<1>12. Cardinality(LiveOf(m, 0)) \in Nat
  BY <1>9, LiveFinite
<1>13. Bounded(m)
  BY <1>9, <1>10, <1>11, <1>12 DEF Bounded
<1>. QED  BY <1>1, <1>7, <1>13 DEF m

LEMMA GivenUp ==
  ASSUME NEW q, NEW rank, NEW t, Ending(q, rank, t), NEW b,
         b = q.segments[t].blockedBoundary, b # 0
  PROVE  LET p == GiveUp(CountedFor(q, b), b)
         IN  /\ QInv(p, rank) /\ p.thrown = FALSE /\ b \in Bounds(p)
             /\ After(p.calls, rank, b) /\ Aged(q, p)
<1>. DEFINE m == CountedFor(q, b)
            p == GiveUp(m, b)
<1>1. /\ QInv(m, rank) /\ m.thrown = FALSE /\ b \in Bounds(m)
      /\ After(m.calls, rank, b)
      /\ m.segments = q.segments /\ Bounds(m) = Bounds(q)
      /\ m.pingedTasks = q.pingedTasks
      /\ \A set \in Sets(q) : Tasks(m, set) = Tasks(q, set)
  <2>. DEFINE b1 == q.segments[t].blockedBoundary
              m1 == CountedFor(q, b1)
  <2>1. b1 # 0 /\ b1 = b
    OBVIOUS
  <2>2. /\ QInv(m1, rank) /\ m1.thrown = FALSE /\ b1 \in Bounds(m1)
        /\ After(m1.calls, rank, b1)
        /\ m1.segments = q.segments /\ Bounds(m1) = Bounds(q)
        /\ m1.pingedTasks = q.pingedTasks
        /\ \A set \in Sets(q) : Tasks(m1, set) = Tasks(q, set)
    BY <2>1, CountedOff
  <2>3. m1 = m
    BY <2>1
  <2>. HIDE DEF m1
  <2>. QED  BY <2>1, <2>2, <2>3
<1>2. Sound(q)
  BY DEF Ending, Shape
<1>. HIDE DEF m
<1>3. Sound(m)
  BY <1>1 DEF QInv, KInv, Shape
<1>4. Aged(q, m)
  BY <1>1, <1>2, SameAged
<1>5. Alters(m, p)
  BY <1>1, <1>3, AltersGiveUp
<1>. HIDE DEF p
<1>6. /\ QInv(p, rank) /\ p.thrown = FALSE /\ p.calls = m.calls
      /\ Aged(m, p) /\ Bounds(p) = Bounds(m)
  BY <1>1, <1>5, AltersQInv
<1>7. Aged(q, p)
  BY <1>4, <1>6, AgedTrans
<1>. QED  BY <1>1, <1>6, <1>7 DEF p, m

LEMMA ErroredTaskKeeps ==
  ASSUME NEW q, NEW rank, NEW t, NEW e, e = [q EXCEPT !.segments[t].status = "ERRORED"],
         Ending(e, rank, t),
         e.segments[t].blockedBoundary = q.segments[t].blockedBoundary
  PROVE  LET p == ErroredTask(q, t) IN QInv(p, rank) /\ Aged(e, p)
<1>. DEFINE b == q.segments[t].blockedBoundary
            m == Calling(e, <<OneLess>>)
<1>1. CASE b = 0
  <2>1. FatalError(m) = ErroredTask(q, t)
    BY <1>1 DEF ErroredTask, OneLess
  <2>2. /\ Shape(m, m.calls, rank) /\ Told(m) /\ m.thrown = FALSE
    BY OneLessPushed
  <2>0. e.segments[t].blockedBoundary = 0
    BY <1>1
  <2>9. <<OneLess>> \in Seq(CallRecord)
    BY OneLessCall
  <2>3. Bounded(m) /\ Sound(e) /\ <<OneLess>> \in Seq(CallRecord)
    BY <2>0, <2>9, EndingBounded
  <2>4. Aged(e, m)
    BY <2>3, CallingKept, KeptAged
  <2>. HIDE DEF m
  <2>5. QInv(FatalError(m), rank) /\ Aged(m, FatalError(m))
    BY <2>2, <2>3, FatalKeeps
  <2>6. Aged(e, FatalError(m))
    BY <2>4, <2>5, AgedTrans
  <2>. QED  BY <2>1, <2>5, <2>6
<1>2. CASE b # 0
  <2>1. ErroredTask(q, t) = GiveUp(CountedFor(e, b), b)
    BY <1>2 DEF ErroredTask, CountedFor, OneLess
  <2>. QED  BY <1>2, <2>1, GivenUp
<1>. QED  BY <1>1, <1>2

LEMMA AbortCall ==
  ASSUME NEW q, Sound(q), NEW b \in Sets(q), NEW s \in Nat
  PROVE  /\ LET c == Call("abortTasks", s, b)
            IN  /\ c \in CallRecord /\ CallOK(q, c) /\ c.op = "abortTasks"
                /\ c.b = b /\ c.s = s
         /\ b \in Bounds(q) =>
            LET c == Call("abortTasksSoft", s, b)
            IN  /\ c \in CallRecord /\ CallOK(q, c) /\ c.op = "abortTasksSoft"
                /\ c.b = b /\ c.s = s
<1>0. b \in Nat
  BY Records
<1>1. ASSUME NEW c, c = Call("abortTasks", s, b)
      PROVE  c \in CallRecord /\ CallOK(q, c) /\ c.op = "abortTasks" /\ c.b = b /\ c.s = s
  <2>1. c \in CallRecord /\ c.op = "abortTasks" /\ c.b = b /\ c.s = s
    BY <1>0, <1>1, CallType, OpNames
  <2>. QED  BY <2>1, OpNames DEF CallOK
<1>2. ASSUME b \in Bounds(q), NEW c, c = Call("abortTasksSoft", s, b)
      PROVE  c \in CallRecord /\ CallOK(q, c) /\ c.op = "abortTasksSoft" /\ c.b = b /\ c.s = s
  <2>1. c \in CallRecord /\ c.op = "abortTasksSoft" /\ c.b = b /\ c.s = s
    BY <1>0, <1>2, CallType, OpNames
  <2>. QED  BY <1>2, <2>1, OpNames DEF CallOK
<1>. QED  BY <1>1, <1>2

LEMMA AbortTaskKeeps ==
  ASSUME NEW q, NEW rank, NEW t, NEW e, e = [q EXCEPT !.segments[t].status = "ABORTED"],
         Ending(e, rank, t), e.status = q.status,
         e.segments[t].blockedBoundary = q.segments[t].blockedBoundary
  PROVE  LET p == AbortTask(q, t) IN QInv(p, rank) /\ Aged(e, p)
<1>. DEFINE b == q.segments[t].blockedBoundary
            m == Calling(e, <<OneLess>>)
<1>0. Sound(e) /\ <<OneLess>> \in Seq(CallRecord)
  BY OneLessCall DEF Ending, Shape
<1>1. CASE b = 0 /\ q.status = "OPEN"
  <2>1. FatalError(e) = AbortTask(q, t)
    BY <1>1 DEF AbortTask
  <2>2. Shape(e, e.calls, rank) /\ Told(e) /\ e.thrown = FALSE
    BY DEF Ending
  <2>3. Bounded(e)
    BY <1>1, EndingBounded
  <2>. QED  BY <2>1, <2>2, <2>3, FatalKeeps
<1>2. CASE b = 0 /\ q.status # "OPEN"
  <2>1. m = AbortTask(q, t)
    BY <1>2 DEF AbortTask, OneLess
  <2>2. Shape(m, m.calls, rank) /\ Told(m) /\ m.thrown = FALSE /\ m.status = e.status
    BY OneLessPushed
  <2>3. Bounded(m)
    BY <1>2, EndingBounded
  <2>4. Aged(e, m)
    BY <1>0, CallingKept, KeptAged
  <2>. HIDE DEF m
  <2>5. QInv(m, rank)
    BY <1>2, <2>2, <2>3, BoundedKeeps
  <2>. QED  BY <2>1, <2>4, <2>5
<1>3. CASE b # 0
  <2>. DEFINE g == GiveUp(CountedFor(e, b), b)
              c == Call("abortTasks", 1, b)
              p == Calling(g, <<c>>)
  <2>1. p = AbortTask(q, t)
    BY <1>3 DEF AbortTask, CountedFor, OneLess
  <2>. HIDE DEF b
  <2>2. /\ QInv(g, rank) /\ g.thrown = FALSE /\ b \in Bounds(g)
        /\ After(g.calls, rank, b) /\ Aged(e, g)
    BY <1>3, GivenUp DEF b
  <2>. HIDE DEF g
  <2>3. Sound(g) /\ b \in Sets(g) /\ 1 \in Nat
    BY <2>2 DEF QInv, KInv, Shape, Sets
  <2>4. /\ c \in CallRecord /\ CallOK(g, c) /\ c.op = "abortTasks" /\ c.b = b /\ c.s = 1
    BY <2>3, AbortCall
  <2>. HIDE DEF c
  <2>5. c.op \notin FlushOps /\ c.op # "oneTaskLess"
    BY <2>4 DEF FlushOps, SendingOps
  <2>6. (Iterates(c) => After(g.calls, rank, c.b)) /\ c.s <= 1
    BY <2>2, <2>4
  <2>7. QInv(p, rank) /\ Aged(g, p)
    BY <2>2, <2>4, <2>5, <2>6, PushKeeps
  <2>8. Aged(e, p)
    BY <2>2, <2>7, AgedTrans
  <2>. QED  BY <2>1, <2>7, <2>8
<1>. QED  BY <1>1, <1>2, <1>3

-----------------------------------------------------------------------------
(* The calls, one by one.                                                  *)
LEMMA PopCall ==
  ASSUME NEW q, NEW rank, NEW c \in CallRecord, KInv(q, <<c>> \o q.calls, rank),
         q.thrown = FALSE,
         c.op \notin FlushOps, c.op \notin AbortOps, c.op # "oneTaskLess"
  PROVE  /\ QInv(q, rank) /\ CallOK(q, c) /\ Sound(q)
         /\ Iterates(c) => After(q.calls, rank, c.b)
<1>1. Sound(q) /\ q.calls \in Seq(CallRecord)
  BY Records DEF KInv, Shape
<1>2. CallOK(q, c) /\ CallsOK(q, q.calls)
  BY <1>1, CallsOKCons DEF KInv, Shape
<1>3. Nested(q.calls, rank) /\ (Iterates(c) => After(q.calls, rank, c.b))
  BY <1>1, NestedCons DEF KInv, Shape, After
<1>4. Cursors(q, q.calls)
  BY <1>1, CursorsCons DEF KInv, Shape
<1>5. Caughts(q.thrown, q.calls)
  BY <1>1, CaughtsCons DEF KInv, Shape
<1>6. Roots(q, q.calls)
  BY <1>1, RootsCons, OpNames DEF KInv, Shape
<1>7. LessCalls(<<c>> \o q.calls) = LessCalls(q.calls)
  BY <1>1, LessCallsCons
<1>8. Counts(q, q.calls, 0, 0)
  BY <1>7 DEF KInv, Counts
<1>9. Told(q) /\ Ranked(q, rank) /\ Homes(q)
  BY DEF KInv, Shape
<1>10. QInv(q, rank)
  BY <1>1, <1>2, <1>3, <1>4, <1>5, <1>6, <1>8, <1>9 DEF QInv, KInv, Shape
<1>. QED  BY <1>1, <1>2, <1>3, <1>10

LEMMA QueueCases ==
  ASSUME NEW q, NEW s \in Segs(q), NEW b \in Bounds(q), Sound(q),
         q.segments[s].blockedBoundary = b
  PROVE  LET p == QueueCompletedSegment(q, s, b)
         IN  \/ Alters(q, p)
             \/ \E o, child :
                  /\ Alters(q, o) /\ child \in Segs(q)
                  /\ q.segments[child].blockedBoundary = b
                  /\ p = Calling(o, <<Call("queueCompletedSegment", child, b)>>)
<1>. DEFINE segment == q.segments[s]
            child == segment.children[1]
            transferred == [q EXCEPT !.segments[child].id = segment.id,
                                     !.segments[child].parentFlushed = TRUE]
            only == /\ segment.empty /\ Len(segment.children) = 1
                    /\ q.segments[child].boundary = 0 /\ q.segments[child].id = 0
            p == QueueCompletedSegment(q, s, b)
<1>1. CASE only
  <2>1. segment.children \in Seq(Nat)
    BY Records DEF SegmentRecord
  <2>2. 1 \in DOMAIN segment.children
    BY <1>1, <2>1
  <2>3. child \in Segs(q) /\ q.segments[child].blockedBoundary = b
    BY <2>2 DEF Sound, Pointers
  <2>4. b # 0
    BY Records
  <2>5. Alters(q, transferred)
    <3>. HIDE DEF child
    <3>1. q.segments[child].blockedBoundary # 0
      BY <2>3, <2>4
    <3>. QED  BY <2>3, <3>1, AltersTransfer, Zenon
  <2>6. CASE q.segments[child].status = "COMPLETED"
    <3>1. p = Calling(transferred, <<Call("queueCompletedSegment", child, b)>>)
      BY <1>1, <2>6 DEF QueueCompletedSegment
    <3>. HIDE DEF transferred, child, p
    <3>. QED  BY <2>3, <2>5, <3>1 DEF p
  <2>7. CASE q.segments[child].status # "COMPLETED"
    <3>1. p = transferred
      BY <1>1, <2>7 DEF QueueCompletedSegment
    <3>. HIDE DEF transferred, p
    <3>. QED  BY <2>5, <3>1 DEF p
  <2>. QED  BY <2>6, <2>7
<1>2. CASE ~only
  <2>. DEFINE o == [q EXCEPT !.boundaries[b].completedSegments = Append(@, s)]
  <2>1. Alters(q, o)
    BY AltersSegments
  <2>2. p = o
    BY <1>2 DEF QueueCompletedSegment
  <2>. HIDE DEF o, p
  <2>. QED  BY <2>1, <2>2 DEF p
<1>. QED  BY <1>1, <1>2

LEMMA QueueCompletedKeeps ==
  ASSUME NEW q, NEW rank, NEW s \in Segs(q), NEW b \in Bounds(q),
         QInv(q, rank), q.thrown = FALSE, q.segments[s].blockedBoundary = b
  PROVE  LET p == QueueCompletedSegment(q, s, b) IN QInv(p, rank) /\ Aged(q, p)
<1>. DEFINE p == QueueCompletedSegment(q, s, b)
<1>0. Sound(q)
  BY DEF QInv, KInv, Shape
<1>. HIDE DEF p
<1>1. CASE Alters(q, p)
  BY <1>1, AltersQInv DEF p
<1>2. CASE ~Alters(q, p)
  <2>0. \/ Alters(q, p)
        \/ \E o, child :
             /\ Alters(q, o) /\ child \in Segs(q)
             /\ q.segments[child].blockedBoundary = b
             /\ p = Calling(o, <<Call("queueCompletedSegment", child, b)>>)
    BY <1>0, QueueCases DEF p
  <2>. PICK o, child :
         /\ Alters(q, o) /\ child \in Segs(q)
         /\ q.segments[child].blockedBoundary = b
         /\ p = Calling(o, <<Call("queueCompletedSegment", child, b)>>)
    BY <1>2, <2>0
  <2>. DEFINE c == Call("queueCompletedSegment", child, b)
  <2>1. /\ QInv(o, rank) /\ o.thrown = FALSE /\ Aged(q, o)
        /\ Segs(o) = Segs(q) /\ Bounds(o) = Bounds(q)
        /\ o.segments[child].blockedBoundary = b
    BY AltersQInv
  <2>2. c \in CallRecord /\ CallOK(o, c) /\ c.op = "queueCompletedSegment"
    <3>1. Sound(o)
      BY <2>1 DEF QInv, KInv, Shape
    <3>. QED  BY <2>1, <3>1, CompletionCalls
  <2>3. p = Calling(o, <<c>>)
    OBVIOUS
  <2>. HIDE DEF c
  <2>4. c.op \notin FlushOps /\ c.op # "oneTaskLess" /\ ~Iterates(c) /\ c.op \notin AbortOps
    BY <2>2 DEF FlushOps, SendingOps, Iterates, AbortOps
  <2>5. QInv(p, rank) /\ Aged(o, p)
    BY <2>1, <2>2, <2>3, <2>4, PushKeeps
  <2>6. Aged(q, p)
    BY <2>1, <2>5, AgedTrans
  <2>. QED  BY <2>5, <2>6 DEF p
<1>. QED  BY <1>1, <1>2

LEMMA CompletedKeeps ==
  ASSUME NEW q, NEW rank, NEW b \in Bounds(q), QInv(q, rank), q.thrown = FALSE,
         After(q.calls, rank, b)
  PROVE  LET p == BoundaryCompleted(q, b) IN QInv(p, rank) /\ Aged(q, p)
<1>. DEFINE m == QueueBoundary(q, "completedBoundaries", b)
            c == Call("abortTasksSoft", 1, b)
            p == Calling(m, <<c>>)
<1>0. Sound(q) /\ "completedBoundaries" \in Queues
  BY DEF QInv, KInv, Shape, Queues
<1>1. Alters(q, m)
  BY <1>0, AltersQueue
<1>. HIDE DEF m
<1>2. /\ QInv(m, rank) /\ m.thrown = FALSE /\ m.calls = q.calls /\ Aged(q, m)
      /\ Bounds(m) = Bounds(q)
  BY <1>1, AltersQInv
<1>3. Sound(m) /\ b \in Sets(m) /\ b \in Bounds(m) /\ 1 \in Nat
  BY <1>2 DEF QInv, KInv, Shape, Sets
<1>4. /\ c \in CallRecord /\ CallOK(m, c) /\ c.op = "abortTasksSoft" /\ c.b = b /\ c.s = 1
  BY <1>3, AbortCall
<1>. HIDE DEF c
<1>5. c.op \notin FlushOps /\ c.op # "oneTaskLess"
  BY <1>4 DEF FlushOps, SendingOps
<1>6. (Iterates(c) => After(m.calls, rank, c.b)) /\ c.s <= 1
  BY <1>2, <1>4
<1>7. QInv(p, rank) /\ Aged(m, p)
  BY <1>2, <1>4, <1>5, <1>6, PushKeeps
<1>8. Aged(q, p)
  BY <1>2, <1>7, AgedTrans
<1>9. BoundaryCompleted(q, b) = p
  BY DEF BoundaryCompleted, m, c
<1>. QED  BY <1>7, <1>8, <1>9

LEMMA CaughtKeeps ==
  ASSUME NEW q, NEW rank, NEW c \in CallRecord, c.op = "catch",
         KInv(q, <<c>> \o q.calls, rank), q.thrown \in BOOLEAN
  PROVE  QInv(Caught(q), rank) /\ Aged(q, Caught(q))
<1>. DEFINE o == [q EXCEPT !.thrown = FALSE]
<1>0. Sound(q) /\ q \in RequestRecord /\ q.calls \in Seq(CallRecord)
  BY Records DEF KInv, Shape, Sound
<1>1. CASE q.thrown = FALSE
  <2>1. c.op \notin FlushOps /\ c.op \notin AbortOps
    BY DEF FlushOps, SendingOps, AbortOps
  <2>2. QInv(q, rank)
    BY <1>1, <2>1, PopCall
  <2>3. Aged(q, q)
    BY <1>0, KeptRefl, KeptAged
  <2>. QED  BY <1>1, <2>2, <2>3 DEF Caught
<1>2. CASE q.thrown
  <2>1. /\ o \in RequestRecord /\ o.thrown = FALSE
        /\ o.segments = q.segments /\ o.boundaries = q.boundaries
        /\ o.status = q.status /\ o.abortableTasks = q.abortableTasks
        /\ o.calls = q.calls
        /\ o.clientRenderedBoundaries = q.clientRenderedBoundaries
        /\ o.completedBoundaries = q.completedBoundaries
        /\ o.partialBoundaries = q.partialBoundaries
        /\ o.completedRootSegment = q.completedRootSegment
        /\ o.document = q.document /\ o.pendingRootTasks = q.pendingRootTasks
        /\ o.allPendingTasks = q.allPendingTasks
        /\ o.allReady = q.allReady /\ o.shellReady = q.shellReady
        /\ o.pingedTasks = q.pingedTasks
    BY <1>0 DEF RequestRecord
  <2>. HIDE DEF o
  <2>2. Sends(q, o)
    <3>1. /\ \A i \in DOMAIN o.clientRenderedBoundaries :
               o.clientRenderedBoundaries[i] \in Bounds(q)
          /\ \A i \in DOMAIN o.completedBoundaries :
               o.completedBoundaries[i] \in Bounds(q)
          /\ \A i \in DOMAIN o.partialBoundaries : o.partialBoundaries[i] \in Bounds(q)
      BY <1>0, <2>1 DEF Sound, Pointers
    <3>. QED  BY <1>0, <2>1, <3>1, OtherChange
  <2>3. Caughts(FALSE, <<c>> \o q.calls)
    BY DEF KInv, Shape, Caughts
  <2>4. KInv(o, <<c>> \o q.calls, rank)
    BY <2>1, <2>2, <2>3, KeptKInv DEF Sends
  <2>5. c.op \notin FlushOps /\ c.op \notin AbortOps
    BY DEF FlushOps, SendingOps, AbortOps
  <2>6. QInv(o, rank) /\ Sound(o)
    BY <2>1, <2>4, <2>5, PopCall
  <2>7. /\ Sends(o, FatalError(o)) /\ FatalError(o).thrown = o.thrown
        /\ FatalError(o).calls = o.calls
    BY <2>6, HostChange
  <2>8. QInv(FatalError(o), rank)
    BY <2>6, <2>7, HostKeeps
  <2>9. Aged(q, FatalError(o))
    BY <1>0, <2>2, <2>6, <2>7, SendsAged, AgedTrans
  <2>. QED  BY <1>2, <2>8, <2>9 DEF Caught, o
<1>. QED  BY <1>1, <1>2

(* The set of tasks of a boundary, or of the request, is changed.          *)
LEMMA SetTasksChange ==
  ASSUME NEW q, NEW set \in Sets(q), NEW tasks \in SUBSET Nat, NEW p, Sound(q),
         p = SetTasks(q, set, tasks)
  PROVE  /\ p \in RequestRecord /\ p.segments = q.segments
         /\ Segs(p) = Segs(q) /\ Bounds(p) = Bounds(q) /\ Sets(p) = Sets(q)
         /\ Tasks(p, set) = tasks
         /\ \A other \in Sets(q) : other # set => Tasks(p, other) = Tasks(q, other)
         /\ \A b \in Bounds(q) :
              /\ p.boundaries[b].pendingTasks = q.boundaries[b].pendingTasks
              /\ p.boundaries[b].completedSegments = q.boundaries[b].completedSegments
         /\ p.status = q.status /\ p.thrown = q.thrown /\ p.calls = q.calls
         /\ p.allPendingTasks = q.allPendingTasks
         /\ p.pendingRootTasks = q.pendingRootTasks
         /\ p.pingedTasks = q.pingedTasks
         /\ p.shellReady = q.shellReady /\ p.allReady = q.allReady
         /\ p.clientRenderedBoundaries = q.clientRenderedBoundaries
         /\ p.completedBoundaries = q.completedBoundaries
         /\ p.partialBoundaries = q.partialBoundaries
         /\ p.completedRootSegment = q.completedRootSegment
         /\ p.document = q.document
<1>0. q \in RequestRecord
  BY DEF Sound
<1>1. CASE set = 0
  <2>1. p = [q EXCEPT !.abortableTasks = tasks]
    BY <1>1 DEF SetTasks
  <2>2. /\ p \in RequestRecord /\ p.segments = q.segments
        /\ p.boundaries = q.boundaries /\ p.abortableTasks = tasks
        /\ p.status = q.status /\ p.thrown = q.thrown /\ p.calls = q.calls
        /\ p.allPendingTasks = q.allPendingTasks
        /\ p.pendingRootTasks = q.pendingRootTasks
        /\ p.pingedTasks = q.pingedTasks
        /\ p.shellReady = q.shellReady /\ p.allReady = q.allReady
        /\ p.clientRenderedBoundaries = q.clientRenderedBoundaries
        /\ p.completedBoundaries = q.completedBoundaries
        /\ p.partialBoundaries = q.partialBoundaries
        /\ p.completedRootSegment = q.completedRootSegment
        /\ p.document = q.document
    BY <1>0, <2>1 DEF RequestRecord
  <2>3. /\ Segs(p) = Segs(q) /\ Bounds(p) = Bounds(q) /\ Sets(p) = Sets(q)
        /\ Tasks(p, set) = tasks
        /\ \A other \in Sets(q) : other # set => Tasks(p, other) = Tasks(q, other)
    BY <1>1, <2>2 DEF Segs, Bounds, Sets, Tasks
  <2>. QED  BY <2>2, <2>3
<1>2. CASE set # 0
  <2>1. set \in Bounds(q)
    BY <1>2 DEF Sets
  <2>. DEFINE boundary == [q.boundaries[set] EXCEPT !.fallbackAbortableTasks = tasks]
              boundaries == [q.boundaries EXCEPT ![set] = boundary]
  <2>2. q.boundaries[set] \in BoundaryRecord /\ q.boundaries \in Seq(BoundaryRecord)
    BY <1>0, <2>1, Records DEF RequestRecord
  <2>3. /\ boundary \in BoundaryRecord /\ boundary.fallbackAbortableTasks = tasks
        /\ boundary.pendingTasks = q.boundaries[set].pendingTasks
        /\ boundary.completedSegments = q.boundaries[set].completedSegments
    BY <2>2 DEF BoundaryRecord
  <2>4. p = [q EXCEPT !.boundaries = boundaries]
    BY <1>2 DEF SetTasks
  <2>5. /\ boundaries \in Seq(BoundaryRecord) /\ DOMAIN boundaries = Bounds(q)
        /\ \A b \in Bounds(q) :
             boundaries[b] = IF b = set THEN boundary ELSE q.boundaries[b]
    <3>1. set \in 1..Len(q.boundaries)
      BY <2>1, <2>2, LenProperties DEF Bounds
    <3>. HIDE DEF boundary
    <3>2. boundaries \in Seq(BoundaryRecord) /\ DOMAIN boundaries = Bounds(q)
      BY <2>2, <2>3, <3>1, ExceptSeq DEF Bounds
    <3>. QED  BY <2>1, <3>2 DEF Bounds
  <2>. HIDE DEF boundary, boundaries
  <2>6. /\ p \in RequestRecord /\ p.segments = q.segments
        /\ p.boundaries = boundaries /\ p.abortableTasks = q.abortableTasks
        /\ p.status = q.status /\ p.thrown = q.thrown /\ p.calls = q.calls
        /\ p.allPendingTasks = q.allPendingTasks
        /\ p.pendingRootTasks = q.pendingRootTasks
        /\ p.pingedTasks = q.pingedTasks
        /\ p.shellReady = q.shellReady /\ p.allReady = q.allReady
        /\ p.clientRenderedBoundaries = q.clientRenderedBoundaries
        /\ p.completedBoundaries = q.completedBoundaries
        /\ p.partialBoundaries = q.partialBoundaries
        /\ p.completedRootSegment = q.completedRootSegment
        /\ p.document = q.document
    BY <1>0, <2>4, <2>5 DEF RequestRecord
  <2>7. Segs(p) = Segs(q) /\ Bounds(p) = Bounds(q) /\ Sets(p) = Sets(q)
    BY <2>5, <2>6 DEF Segs, Bounds, Sets
  <2>8. Tasks(p, set) = tasks
    BY <1>2, <2>1, <2>3, <2>5, <2>6 DEF Tasks
  <2>9. \A other \in Sets(q) : other # set => Tasks(p, other) = Tasks(q, other)
    BY <2>5, <2>6 DEF Tasks, Sets
  <2>10. \A b \in Bounds(q) :
           /\ p.boundaries[b].pendingTasks = q.boundaries[b].pendingTasks
           /\ p.boundaries[b].completedSegments = q.boundaries[b].completedSegments
    BY <2>3, <2>5, <2>6
  <2>. QED  BY <2>6, <2>7, <2>8, <2>9, <2>10
<1>. QED  BY <1>1, <1>2

(* The call that goes through a set is the only one, and its tasks are     *)
(* pending from where it has got to.                                       *)
LEMMA PassFacts ==
  ASSUME NEW q, NEW rank, NEW c \in CallRecord, NEW calls \in Seq(CallRecord),
         Sound(q), Ranked(q, rank), Homes(q), CallsOK(q, <<c>> \o calls),
         Nested(<<c>> \o calls, rank), Cursors(q, <<c>> \o calls),
         c.op \in AbortOps
  PROVE  /\ c.b \in Sets(q) /\ CallOK(q, c) /\ CallsOK(q, calls)
         /\ Nested(calls, rank) /\ After(calls, rank, c.b)
         /\ \A i \in DOMAIN calls : ~Passes(calls[i], c.b)
         /\ \A t \in Tasks(q, c.b) : q.segments[t].status = "PENDING" <=> t >= c.s
         /\ \A set \in Sets(q) : set # c.b => \A t \in Tasks(q, set) :
              /\ \/ q.segments[t].status = "PENDING"
                 \/ \E i \in DOMAIN calls : Passes(calls[i], set) /\ calls[i].s > t
              /\ \A i \in DOMAIN calls :
                   Passes(calls[i], set) /\ calls[i].s > t
                     => q.segments[t].status # "PENDING"
<1>. DEFINE more == <<c>> \o calls
<1>1. /\ DOMAIN calls = 1..Len(calls) /\ DOMAIN more = 1..(Len(calls) + 1)
      /\ Len(calls) \in Nat /\ more[1] = c
      /\ \A i \in 1..Len(calls) :
           i + 1 \in 1..(Len(calls) + 1) /\ more[i + 1] = calls[i]
      /\ \A i \in 1..(Len(calls) + 1) : i # 1 =>
           i - 1 \in 1..Len(calls) /\ more[i] = calls[i - 1]
  BY FirstCall
<1>2. CallOK(q, c) /\ CallsOK(q, calls)
  BY CallsOKCons
<1>3. c.b \in Sets(q)
  BY <1>2 DEF CallOK, AbortOps, Sets
<1>4. Nested(calls, rank) /\ After(calls, rank, c.b)
  BY NestedCons DEF After, Iterates
<1>5. \A i \in DOMAIN calls : ~Passes(calls[i], c.b)
  <2>. SUFFICES ASSUME NEW i \in DOMAIN calls, Passes(calls[i], c.b) PROVE FALSE
    OBVIOUS
  <2>1. rank[calls[i].b] < rank[c.b]
    BY <1>4 DEF After, Passes, Iterates
  <2>2. calls[i].b = c.b /\ rank[c.b] \in Nat
    BY <1>3 DEF Passes, Ranked
  <2>. QED  BY <2>1, <2>2
<1>. HIDE DEF more
<1>6. Cursors(q, more)
  BY DEF more
<1>7. \A set \in Sets(q) : \A t \in Tasks(q, set) :
        /\ \/ q.segments[t].status = "PENDING"
           \/ \E i \in DOMAIN more : Passes(more[i], set) /\ more[i].s > t
        /\ \A i \in DOMAIN more : Passes(more[i], set) /\ more[i].s > t
             => q.segments[t].status # "PENDING"
  BY <1>6 DEF Cursors
<1>8. ASSUME NEW t \in Tasks(q, c.b)
      PROVE  q.segments[t].status = "PENDING" <=> t >= c.s
  <2>1. t \in Nat /\ c.s \in Nat
    BY <1>3, Records DEF Homes, CallRecord
  <2>2. CASE t >= c.s
    <3>. SUFFICES ASSUME NEW i \in DOMAIN more, Passes(more[i], c.b), more[i].s > t
                  PROVE  FALSE
      BY <1>3, <1>7, <2>2
    <3>1. CASE i = 1
      BY <1>1, <2>1, <2>2, <3>1
    <3>2. CASE i # 1
      BY <1>1, <1>5, <3>2
    <3>. QED  BY <3>1, <3>2
  <2>3. CASE ~(t >= c.s)
    <3>1. 1 \in DOMAIN more /\ Passes(more[1], c.b) /\ more[1].s > t
      BY <1>1, <2>1, <2>3 DEF Passes
    <3>. QED  BY <1>3, <1>7, <2>3, <3>1
  <2>. QED  BY <2>2, <2>3
<1>9. ASSUME NEW set \in Sets(q), set # c.b, NEW t \in Tasks(q, set)
      PROVE  /\ \/ q.segments[t].status = "PENDING"
                \/ \E i \in DOMAIN calls : Passes(calls[i], set) /\ calls[i].s > t
             /\ \A i \in DOMAIN calls :
                  Passes(calls[i], set) /\ calls[i].s > t
                    => q.segments[t].status # "PENDING"
  <2>1. \A i \in DOMAIN more : Passes(more[i], set) =>
          i - 1 \in DOMAIN calls /\ more[i] = calls[i - 1]
    BY <1>1, <1>9 DEF Passes
  <2>2. \A i \in DOMAIN calls : i + 1 \in DOMAIN more /\ more[i + 1] = calls[i]
    BY <1>1
  <2>. QED  BY <1>7, <2>1, <2>2
<1>. QED  BY <1>2, <1>3, <1>4, <1>5, <1>8, <1>9

(* The end of a pass.                                                      *)
LEMMA ClearKeeps ==
  ASSUME NEW q, NEW rank, NEW c \in CallRecord, c.op \in AbortOps,
         KInv(q, <<c>> \o q.calls, rank), q.thrown = FALSE,
         Left(q, c.s, c.b) = {}
  PROVE  LET p == SetTasks(q, c.b, {}) IN QInv(p, rank) /\ Aged(q, p)
<1>. DEFINE p == SetTasks(q, c.b, {})
            calls == q.calls
<1>1. Sound(q) /\ calls \in Seq(CallRecord) /\ Ranked(q, rank) /\ Homes(q)
      /\ Told(q)
  BY Records DEF KInv, Shape
<1>2. /\ c.b \in Sets(q) /\ CallOK(q, c) /\ CallsOK(q, calls)
      /\ Nested(calls, rank)
      /\ \A t \in Tasks(q, c.b) : q.segments[t].status = "PENDING" <=> t >= c.s
      /\ \A set \in Sets(q) : set # c.b => \A t \in Tasks(q, set) :
           /\ \/ q.segments[t].status = "PENDING"
              \/ \E i \in DOMAIN calls : Passes(calls[i], set) /\ calls[i].s > t
           /\ \A i \in DOMAIN calls :
                Passes(calls[i], set) /\ calls[i].s > t
                  => q.segments[t].status # "PENDING"
  BY <1>1, PassFacts DEF KInv, Shape
<1>3. \A t \in Tasks(q, c.b) : q.segments[t].status # "PENDING"
  BY <1>2 DEF Left
<1>4. /\ p \in RequestRecord /\ p.segments = q.segments
      /\ Segs(p) = Segs(q) /\ Bounds(p) = Bounds(q) /\ Sets(p) = Sets(q)
      /\ Tasks(p, c.b) = {}
      /\ \A other \in Sets(q) : other # c.b => Tasks(p, other) = Tasks(q, other)
      /\ \A b \in Bounds(q) :
           /\ p.boundaries[b].pendingTasks = q.boundaries[b].pendingTasks
           /\ p.boundaries[b].completedSegments = q.boundaries[b].completedSegments
      /\ p.status = q.status /\ p.thrown = q.thrown /\ p.calls = q.calls
      /\ p.allPendingTasks = q.allPendingTasks
      /\ p.pendingRootTasks = q.pendingRootTasks
      /\ p.pingedTasks = q.pingedTasks
      /\ p.shellReady = q.shellReady /\ p.allReady = q.allReady
      /\ p.clientRenderedBoundaries = q.clientRenderedBoundaries
      /\ p.completedBoundaries = q.completedBoundaries
      /\ p.partialBoundaries = q.partialBoundaries
      /\ p.completedRootSegment = q.completedRootSegment
      /\ p.document = q.document
  <2>1. {} \in SUBSET Nat
    OBVIOUS
  <2>. QED  BY <1>1, <1>2, <2>1, SetTasksChange
<1>. HIDE DEF p
<1>5. Sound(p)
  BY <1>1, <1>4 DEF Sound, Pointers
<1>6. Ranked(p, rank) /\ Homes(p)
  BY <1>1, <1>4 DEF Ranked, Homes
<1>7. CallsOK(p, calls)
  BY <1>2, <1>4 DEF CallsOK, CallOK
<1>8. Cursors(p, calls)
  BY <1>2, <1>4 DEF Cursors
<1>9. c.op \notin FlushOps /\ c.op \notin SendingOps /\ c.op # "oneTaskLess"
  BY DEF AbortOps, FlushOps, SendingOps
<1>10. Caughts(q.thrown, calls) /\ Roots(q, calls)
  BY <1>1, <1>9, CaughtsCons, RootsCons DEF KInv, Shape
<1>11. Caughts(p.thrown, calls) /\ Roots(p, calls)
  BY <1>4, <1>10 DEF Roots
<1>12. Live(p) = Live(q)
  <2>1. \A s \in Segs(q) : q.segments[s].abortSet \in Sets(q)
    BY <1>1 DEF Sound, Pointers
  <2>. QED  BY <1>3, <1>4, <2>1 DEF Live
<1>13. \A b : LiveOf(p, b) = LiveOf(q, b)
  BY <1>4, <1>12 DEF LiveOf
<1>14. LessCalls(<<c>> \o calls) = LessCalls(calls)
  BY <1>1, <1>9, LessCallsCons
<1>15. Counts(p, calls, 0, 0)
  BY <1>4, <1>12, <1>13, <1>14 DEF KInv, Counts
<1>16. Told(p)
  BY <1>1, <1>4 DEF Told
<1>17. QInv(p, rank)
  BY <1>2, <1>4, <1>5, <1>6, <1>7, <1>8, <1>11, <1>15, <1>16 DEF QInv, KInv, Shape
<1>18. Aged(q, p)
  BY <1>4, <1>12 DEF Aged
<1>. QED  BY <1>17, <1>18 DEF p

LEMMA LeastExists ==
  ASSUME NEW S \in SUBSET Nat, S # {}
  PROVE  \E m \in S : \A n \in S : m <= n
<1>1. PICK m \in S : \A n \in S : ~(<<n, m>> \in OpToRel(<, Nat))
  BY NatLessThanWellFounded, WFMin, Zenon
<1>2. \A n \in S : ~(n < m)
  BY <1>1 DEF OpToRel
<1>. QED  BY <1>2

LEMMA MinIsLeast ==
  ASSUME NEW S \in SUBSET Nat, S # {}
  PROVE  Min(S) \in S /\ \A n \in S : Min(S) <= n
  BY LeastExists DEF Min

(* A status is set.                                                        *)
LEMMA StatusChange ==
  ASSUME NEW q, NEW t \in Segs(q), Sound(q), NEW e,
         NEW status \in {"COMPLETED", "FLUSHED", "ABORTED", "ERRORED"},
         e = [q EXCEPT !.segments[t].status = status]
  PROVE  /\ Ended(q, e, t) /\ e.calls = q.calls
         /\ \A set : Tasks(e, set) = Tasks(q, set)
<1>. DEFINE segment == [q.segments[t] EXCEPT !.status = status]
            segments == [q.segments EXCEPT ![t] = segment]
<1>1. q \in RequestRecord /\ q.segments \in Seq(SegmentRecord)
      /\ q.segments[t] \in SegmentRecord
  BY Records DEF Sound, RequestRecord
<1>2. /\ segment \in SegmentRecord /\ segment.status = status
      /\ segment.boundary = q.segments[t].boundary
      /\ segment.blockedBoundary = q.segments[t].blockedBoundary
      /\ segment.abortSet = q.segments[t].abortSet
      /\ segment.parentFlushed = q.segments[t].parentFlushed
      /\ segment.children = q.segments[t].children
  BY <1>1 DEF SegmentRecord
<1>3. e = [q EXCEPT !.segments = segments]
  OBVIOUS
<1>. HIDE DEF segment
<1>4. /\ segments \in Seq(SegmentRecord) /\ DOMAIN segments = Segs(q)
      /\ \A s \in Segs(q) : segments[s] = IF s = t THEN segment ELSE q.segments[s]
  <2>1. t \in 1..Len(q.segments)
    BY <1>1, LenProperties DEF Segs
  <2>2. segments \in Seq(SegmentRecord)
    BY <1>1, <1>2, <2>1, ExceptSeq
  <2>. QED  BY <2>2 DEF Segs
<1>. HIDE DEF segments
<1>5. /\ e \in RequestRecord /\ e.segments = segments /\ e.boundaries = q.boundaries
      /\ e.abortableTasks = q.abortableTasks /\ e.calls = q.calls
      /\ e.status = q.status /\ e.thrown = q.thrown
      /\ e.allPendingTasks = q.allPendingTasks
      /\ e.pendingRootTasks = q.pendingRootTasks
      /\ e.pingedTasks = q.pingedTasks
      /\ e.shellReady = q.shellReady /\ e.allReady = q.allReady
      /\ e.clientRenderedBoundaries = q.clientRenderedBoundaries
      /\ e.completedBoundaries = q.completedBoundaries
      /\ e.partialBoundaries = q.partialBoundaries
      /\ e.completedRootSegment = q.completedRootSegment
      /\ e.document = q.document
  BY <1>1, <1>3, <1>4 DEF RequestRecord
<1>6. Segs(e) = Segs(q) /\ Bounds(e) = Bounds(q) /\ \A set : Tasks(e, set) = Tasks(q, set)
  BY <1>4, <1>5 DEF Segs, Bounds, Tasks
<1>7. \A s \in Segs(q) :
        /\ e.segments[s].boundary = q.segments[s].boundary
        /\ e.segments[s].blockedBoundary = q.segments[s].blockedBoundary
        /\ e.segments[s].abortSet = q.segments[s].abortSet
        /\ e.segments[s].parentFlushed = q.segments[s].parentFlushed
        /\ e.segments[s].children \in {q.segments[s].children, <<>>}
        /\ s # t => e.segments[s].status = q.segments[s].status
  BY <1>2, <1>4, <1>5
<1>8. e.segments[t].status # "PENDING"
  BY <1>2, <1>4, <1>5
<1>9. Ended(q, e, t)
  BY <1>5, <1>6, <1>7, <1>8 DEF Ended
<1>. QED  BY <1>5, <1>6, <1>9

(* The next task of a pass is aborted.                                     *)
LEMMA PassStep ==
  ASSUME NEW q, NEW rank, NEW c \in CallRecord, c.op \in AbortOps,
         KInv(q, <<c>> \o q.calls, rank), q.thrown = FALSE,
         Left(q, c.s, c.b) # {}, NEW t, t = Min(Left(q, c.s, c.b)),
         NEW d, d = Call(c.op, t + 1, c.b), NEW m, m = Calling(q, <<d>>),
         NEW e, e = [m EXCEPT !.segments[t].status = "ABORTED"]
  PROVE  /\ Ending(e, rank, t) /\ e.status = m.status /\ Aged(q, e)
         /\ e.segments[t].blockedBoundary = m.segments[t].blockedBoundary
<1>. DEFINE calls == q.calls
            set == c.b
<1>1. Sound(q) /\ calls \in Seq(CallRecord) /\ Ranked(q, rank) /\ Homes(q)
      /\ Told(q) /\ rank \in [Sets(q) -> Nat]
  BY Records DEF KInv, Shape, Ranked
<1>2. /\ set \in Sets(q) /\ CallOK(q, c) /\ CallsOK(q, calls)
      /\ Nested(calls, rank) /\ After(calls, rank, set)
      /\ \A i \in DOMAIN calls : ~Passes(calls[i], set)
      /\ \A s \in Tasks(q, set) : q.segments[s].status = "PENDING" <=> s >= c.s
      /\ \A other \in Sets(q) : other # set => \A s \in Tasks(q, other) :
           /\ \/ q.segments[s].status = "PENDING"
              \/ \E i \in DOMAIN calls : Passes(calls[i], other) /\ calls[i].s > s
           /\ \A i \in DOMAIN calls :
                Passes(calls[i], other) /\ calls[i].s > s
                  => q.segments[s].status # "PENDING"
  BY <1>1, PassFacts DEF KInv, Shape
<1>3. /\ t \in Tasks(q, set) /\ t >= c.s /\ t \in Nat /\ c.s \in Nat
      /\ \A s \in Tasks(q, set) : s \in Nat /\ (s >= c.s => s >= t)
  <2>1. Tasks(q, set) \in SUBSET Nat
    BY <1>1, <1>2, Records DEF Homes
  <2>2. Left(q, c.s, set) \in SUBSET Nat
    BY <2>1 DEF Left
  <2>3. t \in Left(q, c.s, set) /\ \A s \in Left(q, c.s, set) : t <= s
    BY <2>2, MinIsLeast
  <2>. QED  BY <2>1, <2>3 DEF Left, CallRecord
<1>4. /\ t \in Live(q) /\ t \in Segs(q) /\ q.segments[t].abortSet = set
  BY <1>1, <1>2, <1>3 DEF Live, Homes
<1>5. d \in CallRecord /\ d.op = c.op /\ d.s = t + 1 /\ d.b = set
  <2>1. c.op \in Ops /\ t + 1 \in Nat /\ c.b \in Nat
    BY <1>3, OpNames DEF AbortOps, CallRecord
  <2>. QED  BY <2>1, CallType
<1>. DEFINE more == <<d>> \o calls
<1>6. more \in Seq(CallRecord) /\ CallOK(q, d)
  <2>1. more \in Seq(CallRecord)
    BY <1>1, <1>5, FirstCall
  <2>2. CallOK(q, d)
    BY <1>2, <1>5 DEF CallOK, AbortOps
  <2>. QED  BY <2>1, <2>2
<1>7. c.op \notin FlushOps /\ c.op \notin SendingOps /\ c.op # "oneTaskLess"
      /\ d.op \notin FlushOps /\ d.op \notin SendingOps /\ d.op # "oneTaskLess"
  BY <1>5 DEF AbortOps, FlushOps, SendingOps
<1>8. Base(q, more, rank)
  <2>1. CallsOK(q, more)
    BY <1>1, <1>2, <1>5, <1>6, CallsOKCons
  <2>2. Nested(more, rank)
    BY <1>1, <1>2, <1>5, NestedCons DEF After
  <2>0. Caughts(FALSE, <<c>> \o calls) /\ Roots(q, <<c>> \o calls)
    BY DEF KInv, Shape
  <2>3. Caughts(FALSE, calls) /\ Roots(q, calls)
    BY <1>1, <1>7, <2>0, CaughtsCons, RootsCons
  <2>4. Caughts(FALSE, more) /\ Roots(q, more)
    BY <1>1, <1>5, <1>7, <2>3, CaughtsCons, RootsCons
  <2>. QED  BY <1>1, <2>1, <2>2, <2>4 DEF Base
<1>9. Counts(q, more, 0, 0)
  <2>1. LessCalls(<<c>> \o calls) = LessCalls(calls)
    BY <1>1, <1>7, LessCallsCons
  <2>2. LessCalls(more) = LessCalls(calls)
    BY <1>1, <1>5, <1>7, LessCallsCons
  <2>. QED  BY <2>1, <2>2 DEF KInv, Counts
<1>10. more = <<d>> \o calls
  OBVIOUS
<1>. HIDE DEF more
<1>11. m = [q EXCEPT !.calls = more]
  BY <1>10 DEF Calling
<1>12. Sound(m) /\ m.calls = more /\ m.thrown = FALSE
  BY <1>1, <1>6, <1>11, KInvCalls
<1>13. /\ m.segments = q.segments /\ m.boundaries = q.boundaries
       /\ m.abortableTasks = q.abortableTasks /\ m.pingedTasks = q.pingedTasks
       /\ m.completedRootSegment = q.completedRootSegment
       /\ m.document = q.document
       /\ m.pendingRootTasks = q.pendingRootTasks
  BY <1>1, <1>11, Zenon DEF Sound, RequestRecord
<1>14. /\ Segs(m) = Segs(q) /\ Bounds(m) = Bounds(q) /\ Sets(m) = Sets(q)
       /\ \A other : Tasks(m, other) = Tasks(q, other)
       /\ Live(m) = Live(q)
  BY <1>13, Zenon DEF Segs, Bounds, Sets, Tasks, Live
<1>15. Base(m, more, rank)
  <2>5. m.segments = q.segments /\ Segs(m) = Segs(q) /\ Bounds(m) = Bounds(q)
        /\ Sets(m) = Sets(q)
    BY <1>13, <1>14
  <2>6. Ranked(q, rank)
    BY <1>1
  <2>0. Ranked(m, rank)
    BY ONLY <2>5, <2>6 DEF Ranked
  <2>4. Homes(m)
    BY <1>1, <1>13, <1>14 DEF Homes
  <2>1. Ranked(m, rank) /\ Homes(m)
    BY <2>0, <2>4
  <2>2. CallsOK(m, more) /\ Roots(m, more)
    BY <1>8, <1>13, <1>14 DEF Base, CallsOK, CallOK, Roots
  <2>3. Nested(more, rank) /\ Caughts(m.thrown, more)
    BY <1>8, <1>12 DEF Base
  <2>. QED  BY <1>12, <2>1, <2>2, <2>3 DEF Base
<1>16. Counts(m, more, 0, 0) /\ Told(m)
  BY <1>1, <1>6, <1>9, <1>11, KInvCalls
<1>17. /\ Ended(m, e, t) /\ e.calls = more
       /\ \A other : Tasks(e, other) = Tasks(m, other)
  BY <1>4, <1>12, <1>14, StatusChange
<1>18. /\ e.segments[t].status # "PENDING"
       /\ \A s \in Segs(q) : s # t => e.segments[s].status = q.segments[s].status
       /\ Sets(e) = Sets(q)
  <2>1. Segs(e) = Segs(m) /\ Bounds(e) = Bounds(m) /\ e.segments[t].status # "PENDING"
        /\ \A s \in Segs(m) : s # t => e.segments[s].status = m.segments[s].status
    BY <1>17, Zenon DEF Ended
  <2>2. Sets(e) = Sets(q)
    BY <1>14, <2>1 DEF Sets
  <2>3. Segs(m) = Segs(q) /\ m.segments = q.segments
    BY <1>13, <1>14
  <2>. QED  BY ONLY <2>1, <2>2, <2>3
<1>19. /\ DOMAIN calls = 1..Len(calls) /\ DOMAIN more = 1..(Len(calls) + 1)
       /\ Len(calls) \in Nat /\ more[1] = d
       /\ \A i \in 1..Len(calls) :
            i + 1 \in 1..(Len(calls) + 1) /\ more[i + 1] = calls[i]
       /\ \A i \in 1..(Len(calls) + 1) : i # 1 =>
            i - 1 \in 1..Len(calls) /\ more[i] = calls[i - 1]
  BY <1>1, <1>5, <1>10, FirstCall
<1>20. ASSUME NEW s \in Tasks(q, set)
       PROVE  /\ \/ e.segments[s].status = "PENDING"
                 \/ \E i \in DOMAIN more : Passes(more[i], set) /\ more[i].s > s
              /\ \A i \in DOMAIN more :
                   Passes(more[i], set) /\ more[i].s > s
                     => e.segments[s].status # "PENDING"
  <2>1. s \in Segs(q) /\ s \in Nat
    BY <1>1, <1>2, <1>3 DEF Homes
  <2>2. \A i \in DOMAIN more : Passes(more[i], set) => i = 1
    BY <1>2, <1>19
  <2>3. 1 \in DOMAIN more /\ Passes(more[1], set) /\ more[1].s = t + 1
    BY <1>5, <1>19 DEF Passes
  <2>4. s > t => s >= c.s
    BY <1>3, <2>1
  <2>5. CASE s = t
    BY <1>3, <1>18, <2>3, <2>5
  <2>6. CASE s # t /\ s >= c.s
    <3>1. s > t
      BY <1>3, <2>1, <2>6
    <3>2. e.segments[s].status = "PENDING"
      BY <1>2, <1>18, <2>1, <2>6
    <3>3. ~(t + 1 > s)
      BY <1>3, <2>1, <3>1
    <3>. QED  BY <2>2, <2>3, <3>2, <3>3
  <2>7. CASE s # t /\ ~(s >= c.s)
    <3>1. t + 1 > s
      BY <1>3, <2>1, <2>7
    <3>2. e.segments[s].status # "PENDING"
      BY <1>2, <1>18, <2>1, <2>7
    <3>. QED  BY <2>2, <2>3, <3>1, <3>2
  <2>. QED  BY <2>5, <2>6, <2>7
<1>21. ASSUME NEW other \in Sets(q), other # set, NEW s \in Tasks(q, other)
       PROVE  /\ \/ e.segments[s].status = "PENDING"
                 \/ \E i \in DOMAIN more : Passes(more[i], other) /\ more[i].s > s
              /\ \A i \in DOMAIN more :
                   Passes(more[i], other) /\ more[i].s > s
                     => e.segments[s].status # "PENDING"
  <2>1. s \in Segs(q) /\ s # t
    BY <1>1, <1>4, <1>21 DEF Homes
  <2>2. e.segments[s].status = q.segments[s].status
    BY <1>18, <2>1
  <2>3. \A i \in DOMAIN more : Passes(more[i], other) =>
          i - 1 \in DOMAIN calls /\ more[i] = calls[i - 1]
    BY <1>5, <1>19, <1>21 DEF Passes
  <2>4. \A i \in DOMAIN calls : i + 1 \in DOMAIN more /\ more[i + 1] = calls[i]
    BY <1>19
  <2>. QED  BY <1>2, <1>21, <2>2, <2>3, <2>4
<1>22. Cursors(e, more)
  <2>1. ASSUME NEW other \in Sets(e), NEW s \in Tasks(e, other)
        PROVE  /\ \/ e.segments[s].status = "PENDING"
                  \/ \E i \in DOMAIN more : Passes(more[i], other) /\ more[i].s > s
               /\ \A i \in DOMAIN more :
                    Passes(more[i], other) /\ more[i].s > s
                      => e.segments[s].status # "PENDING"
    <3>1. other \in Sets(q) /\ s \in Tasks(q, other)
      BY <1>14, <1>17, <1>18, <2>1
    <3>2. CASE other = set
      BY <1>20, <3>1, <3>2
    <3>3. CASE other # set
      BY <1>21, <3>1, <3>3
    <3>. QED  BY <3>2, <3>3
  <2>. QED  BY <2>1 DEF Cursors
<1>23. q.segments[t].blockedBoundary # 0 => After(more, rank, q.segments[t].blockedBoundary)
  <2>. DEFINE b == q.segments[t].blockedBoundary
  <2>. SUFFICES ASSUME b # 0, NEW j \in DOMAIN more, Iterates(more[j])
                PROVE  rank[more[j].b] < rank[b]
    BY DEF After
  <2>1. b \in Sets(q)
    BY <1>1, <1>4 DEF Sound, Pointers
  <2>2. rank[set] < rank[b]
    BY <1>1, <1>4 DEF Ranked
  <2>3. rank[set] \in Nat /\ rank[b] \in Nat
    BY <1>1, <1>2, <2>1
  <2>4. CASE j = 1
    BY <1>5, <1>19, <2>2, <2>4
  <2>5. CASE j # 1
    <3>1. j - 1 \in DOMAIN calls /\ more[j] = calls[j - 1]
      BY <1>19, <2>5
    <3>2. CallOK(q, more[j]) /\ rank[more[j].b] < rank[set]
      BY <1>2, <3>1 DEF CallsOK, After
    <3>3. more[j].b \in Sets(q)
      BY <3>2 DEF CallOK, Iterates, AbortOps, Sets
    <3>4. rank[more[j].b] \in Nat
      BY <1>1, <3>3
    <3>. QED  BY <2>2, <2>3, <3>2, <3>4
  <2>. QED  BY <2>4, <2>5
<1>24. Ending(e, rank, t)
  <2>1. t \in Live(m)
    BY <1>4, <1>14
  <2>2. /\ Base(m, e.calls, rank) /\ Counts(m, e.calls, 0, 0) /\ Told(m)
        /\ m.thrown = FALSE /\ Ended(m, e, t) /\ Cursors(e, e.calls)
    BY <1>12, <1>15, <1>16, <1>17, <1>22
  <2>3. m.segments[t].blockedBoundary # 0
          => After(e.calls, rank, m.segments[t].blockedBoundary)
    BY <1>13, <1>17, <1>23
  <2>. QED  BY <2>1, <2>2, <2>3, EndedEnding
<1>25. Aged(q, e)
  <2>1. Aged(m, e)
    BY <1>4, <1>12, <1>14, <1>17, EndedAged
  <2>2. Aged(q, m)
    BY <1>1, <1>13, <1>14, SameAged
  <2>. QED  BY <2>1, <2>2, AgedTrans
<1>26. e.status = m.status /\ e.segments[t].blockedBoundary = m.segments[t].blockedBoundary
  <2>1. t \in Segs(m)
    BY <1>4, <1>14
  <2>2. /\ e.status = m.status
        /\ \A s \in Segs(m) : e.segments[s].blockedBoundary = m.segments[s].blockedBoundary
    BY <1>17, Zenon DEF Ended
  <2>. QED  BY <2>1, <2>2
<1>. QED  BY <1>24, <1>25, <1>26

LEMMA OneTaskLessAged ==
  ASSUME NEW q, Sound(q) PROVE Aged(q, OneTaskLess(q))
<1>. DEFINE less == [q EXCEPT !.allPendingTasks = q.allPendingTasks - 1]
            told == [less EXCEPT !.allReady = less.allReady + 1]
            n == q.allPendingTasks - 1
            one == less.allReady + 1
<1>1. q \in RequestRecord /\ n \in Int
  BY DEF Sound, RequestRecord
<1>. HIDE DEF n
<1>2. less = [q EXCEPT !.allPendingTasks = n]
  BY DEF n
<1>. HIDE DEF less
<1>3. /\ less \in RequestRecord /\ less.segments = q.segments
      /\ less.boundaries = q.boundaries /\ less.abortableTasks = q.abortableTasks
      /\ less.pingedTasks = q.pingedTasks
      /\ less.clientRenderedBoundaries = q.clientRenderedBoundaries
      /\ less.completedBoundaries = q.completedBoundaries
      /\ less.partialBoundaries = q.partialBoundaries
      /\ less.completedRootSegment = q.completedRootSegment
  BY <1>1, <1>2 DEF RequestRecord
<1>4. one \in Int
  BY <1>3 DEF RequestRecord
<1>. HIDE DEF one
<1>5. told = [less EXCEPT !.allReady = one]
  BY DEF one
<1>. HIDE DEF told
<1>6. /\ told \in RequestRecord /\ told.segments = less.segments
      /\ told.boundaries = less.boundaries
      /\ told.abortableTasks = less.abortableTasks
      /\ told.pingedTasks = less.pingedTasks
      /\ told.clientRenderedBoundaries = less.clientRenderedBoundaries
      /\ told.completedBoundaries = less.completedBoundaries
      /\ told.partialBoundaries = less.partialBoundaries
      /\ told.completedRootSegment = less.completedRootSegment
  BY <1>3, <1>4, <1>5 DEF RequestRecord
<1>7. Aged(q, less) /\ Aged(q, told)
  <2>1. /\ Bounds(less) = Bounds(q) /\ Bounds(told) = Bounds(q)
        /\ \A set \in Sets(q) : Tasks(less, set) = Tasks(q, set)
        /\ \A set \in Sets(q) : Tasks(told, set) = Tasks(q, set)
    BY <1>3, <1>6 DEF Bounds, Tasks
  <2>. QED  BY <1>3, <1>6, <2>1, SameAged
<1>8. Sound(told)
  BY <1>3, <1>6 DEF Sound, Pointers, Segs, Bounds, Sets
<1>9. Aged(q, Pipe(told))
  <2>1. Kept(told, Pipe(told))
    BY <1>8, FlushesKept
  <2>. QED  BY <1>7, <1>8, <2>1, KeptAged, AgedTrans
<1>10. CASE less.allPendingTasks = 0
  <2>1. OneTaskLess(q) = IF pipesIn = "onAllReady" THEN Pipe(told) ELSE told
    BY <1>10 DEF OneTaskLess, CompleteAll, less, told
  <2>. QED  BY <1>7, <1>9, <2>1
<1>11. CASE less.allPendingTasks # 0
  <2>1. OneTaskLess(q) = less
    BY <1>11 DEF OneTaskLess, less
  <2>. QED  BY <1>7, <2>1
<1>. QED  BY <1>10, <1>11

LEMMA AbortTasksKeeps ==
  ASSUME NEW q, NEW rank, NEW c \in CallRecord, c.op = "abortTasks",
         KInv(q, <<c>> \o q.calls, rank), q.thrown = FALSE
  PROVE  LET p == AbortTasks(q, c.s, c.b) IN QInv(p, rank) /\ Aged(q, p)
<1>0. c.op \in AbortOps
  BY DEF AbortOps
<1>1. CASE Left(q, c.s, c.b) = {}
  BY <1>0, <1>1, ClearKeeps DEF AbortTasks
<1>2. CASE Left(q, c.s, c.b) # {}
  <2>. DEFINE t == Min(Left(q, c.s, c.b))
              d == Call(c.op, t + 1, c.b)
              m == Calling(q, <<d>>)
              e == [m EXCEPT !.segments[t].status = "ABORTED"]
  <2>1. AbortTasks(q, c.s, c.b) = AbortTask(m, t)
    BY <1>2 DEF AbortTasks
  <2>2. d = Call(c.op, t + 1, c.b) /\ m = Calling(q, <<d>>)
        /\ e = [m EXCEPT !.segments[t].status = "ABORTED"]
        /\ t = Min(Left(q, c.s, c.b))
    OBVIOUS
  <2>. HIDE DEF t, d, m, e
  <2>3. Ending(e, rank, t) /\ Aged(q, e)
    BY <1>0, <1>2, <2>2, PassStep
  <2>6. e.status = m.status
    BY <1>0, <1>2, <2>2, PassStep
  <2>7. e.segments[t].blockedBoundary = m.segments[t].blockedBoundary
    BY <1>0, <1>2, <2>2, PassStep
  <2>4. QInv(AbortTask(m, t), rank) /\ Aged(e, AbortTask(m, t))
    BY <2>2, <2>3, <2>6, <2>7, AbortTaskKeeps
  <2>5. Aged(q, AbortTask(m, t))
    BY <2>3, <2>4, AgedTrans
  <2>. QED  BY <2>1, <2>4, <2>5
<1>. QED  BY <1>1, <1>2

LEMMA AbortTasksSoftKeeps ==
  ASSUME NEW q, NEW rank, NEW c \in CallRecord, c.op = "abortTasksSoft",
         KInv(q, <<c>> \o q.calls, rank), q.thrown = FALSE
  PROVE  LET p == AbortTasksSoft(q, c.s, c.b) IN QInv(p, rank) /\ Aged(q, p)
<1>0. c.op \in AbortOps
  BY DEF AbortOps
<1>1. CASE Left(q, c.s, c.b) = {}
  BY <1>0, <1>1, ClearKeeps DEF AbortTasksSoft
<1>2. CASE Left(q, c.s, c.b) # {}
  <2>. DEFINE t == Min(Left(q, c.s, c.b))
              d == Call(c.op, t + 1, c.b)
              m == Calling(q, <<d>>)
              e == [m EXCEPT !.segments[t].status = "ABORTED"]
  <2>1. AbortTasksSoft(q, c.s, c.b) = FinishedTask(e, t)
    BY <1>2 DEF AbortTasksSoft, AbortTaskSoft
  <2>2. d = Call(c.op, t + 1, c.b) /\ m = Calling(q, <<d>>)
        /\ e = [m EXCEPT !.segments[t].status = "ABORTED"]
        /\ t = Min(Left(q, c.s, c.b))
    OBVIOUS
  <2>. HIDE DEF t, d, m, e
  <2>3. Ending(e, rank, t) /\ Aged(q, e)
    BY <1>0, <1>2, <2>2, PassStep
  <2>4. QInv(FinishedTask(e, t), rank) /\ Aged(e, FinishedTask(e, t))
    BY <2>3, FinishedTaskKeeps
  <2>5. Aged(q, FinishedTask(e, t))
    BY <2>3, <2>4, AgedTrans
  <2>. QED  BY <2>1, <2>4, <2>5
<1>. QED  BY <1>1, <1>2

(* A call of a flush.                                                      *)
LEMMA MakeSends ==
  ASSUME NEW q, NEW c \in CallRecord, Sound(q), CallOK(q, c), c.op \in FlushOps,
         c.op \in SendingOps => ~(q.pendingRootTasks > 0)
  PROVE  Sends(q, Make(q, c))
<1>0. c.s \in Nat /\ c.b \in Nat
  BY DEF CallRecord
<1>1. CASE c.op = "flushSegment"
  <2>1. Make(q, c) = FlushSegment(q, c.s, c.b)
    BY <1>1 DEF Make
  <2>. QED  BY <1>1, <2>1, SendsFlushSegment, OpNames DEF CallOK
<1>2. CASE c.op = "fill"
  <2>1. Make(q, c) = Fill(q, c.s, c.b)
    BY <1>2 DEF Make
  <2>. QED  BY <1>0, <1>2, <2>1, SendsWrites, OpNames
<1>3. CASE c.op = "flushPartiallyCompletedSegment"
  <2>1. Make(q, c) = FlushPartiallyCompletedSegment(q, c.s, c.b)
    BY <1>3 DEF Make
  <2>. QED  BY <1>3, <2>1, SendsPartially, OpNames DEF CallOK
<1>4. CASE c.op = "reveal"
  <2>1. Make(q, c) = RevealBoundary(q, c.b)
    BY <1>4 DEF Make
  <2>. QED  BY <1>4, <2>1, SendsReveal, OpNames DEF CallOK
<1>5. CASE c.op = "offer"
  <2>1. Make(q, c) = Offer(q)
    BY <1>5 DEF Make
  <2>. QED  BY <2>1, SendsOffer
<1>6. CASE c.op = "flushPartialBoundary"
  <2>1. Make(q, c) = FlushPartialBoundary(q, c.b)
    BY <1>6 DEF Make
  <2>. QED  BY <1>6, <2>1, SendsPartialBoundary, OpNames DEF CallOK
<1>7. CASE c.op \in Queues
  <2>1. Make(q, c) = FlushQueue(q, c.op, c.b)
    BY <1>7 DEF Make, Queues
  <2>2. c.op \in SendingOps
    BY <1>7, OpNames DEF Queues
  <2>. QED  BY <1>7, <2>1, <2>2, SendsFlushQueue
<1>8. CASE c.op = "rootFlushed"
  <2>1. Make(q, c) = [q EXCEPT !.completedRootSegment = 0]
    BY <1>8 DEF Make
  <2>. QED  BY <1>8, <2>1, SendsRootFlushed, OpNames
<1>9. CASE c.op = "closeIfDone"
  <2>1. Make(q, c) = CloseIfDone(q)
    BY <1>9 DEF Make
  <2>. QED  BY <2>1, SendsClose
<1>10. \/ c.op = "flushSegment" \/ c.op = "fill"
       \/ c.op = "flushPartiallyCompletedSegment" \/ c.op = "reveal"
       \/ c.op = "offer" \/ c.op = "flushPartialBoundary" \/ c.op \in Queues
       \/ c.op = "rootFlushed" \/ c.op = "closeIfDone"
  BY DEF FlushOps, SendingOps, Queues
<1>. QED  BY <1>1, <1>2, <1>3, <1>4, <1>5, <1>6, <1>7, <1>8, <1>9, <1>10

(* Any other call.                                                         *)
LEMMA MakeKeeps ==
  ASSUME NEW q, NEW rank, NEW c \in CallRecord, KInv(q, <<c>> \o q.calls, rank),
         q.thrown = FALSE, c.op \notin FlushOps
  PROVE  QInv(Make(q, c), rank) /\ Aged(q, Make(q, c))
<1>0. Sound(q) /\ CallOK(q, c) /\ q.thrown \in BOOLEAN
  <2>1. Sound(q) /\ q.calls \in Seq(CallRecord)
    BY Records DEF KInv, Shape
  <2>. QED  BY <2>1, CallsOKCons DEF KInv, Shape
<1>1. CASE c.op = "catch"
  <2>1. Make(q, c) = Caught(q)
    BY <1>1 DEF Make
  <2>. QED  BY <1>0, <1>1, <2>1, CaughtKeeps
<1>2. CASE c.op = "oneTaskLess"
  <2>1. Make(q, c) = OneTaskLess(q)
    BY <1>2 DEF Make
  <2>2. QInv(OneTaskLess(q), rank)
    BY <1>2, OneTaskLessKeeps
  <2>3. Aged(q, OneTaskLess(q))
    BY <1>0, OneTaskLessAged
  <2>. QED  BY <2>1, <2>2, <2>3
<1>3. CASE c.op = "abortTasks"
  <2>1. Make(q, c) = AbortTasks(q, c.s, c.b)
    BY <1>3 DEF Make
  <2>. QED  BY <1>3, <2>1, AbortTasksKeeps
<1>4. CASE c.op = "abortTasksSoft"
  <2>1. Make(q, c) = AbortTasksSoft(q, c.s, c.b)
    BY <1>4 DEF Make
  <2>. QED  BY <1>4, <2>1, AbortTasksSoftKeeps
<1>5. ASSUME c.op \in {"flushIfFlowing", "queueCompletedSegment",
                       "partiallyCompleted", "completed"}
      PROVE  QInv(Make(q, c), rank) /\ Aged(q, Make(q, c))
  <2>0. c.op \notin AbortOps /\ c.op # "oneTaskLess"
    BY <1>5 DEF AbortOps
  <2>00. QInv(q, rank) /\ (Iterates(c) => After(q.calls, rank, c.b))
    BY <2>0, PopCall
  <2>1. CASE c.op = "flushIfFlowing"
    <3>1. Make(q, c) = FlushIfFlowing(q)
      BY <2>1 DEF Make
    <3>2. Kept(q, FlushIfFlowing(q))
      BY <1>0, FlushesKept
    <3>3. Aged(q, FlushIfFlowing(q))
      BY <1>0, <3>2, KeptAged
    <3>. QED  BY <2>00, <3>1, <3>3, FlushIfFlowingKeeps
  <2>2. CASE c.op = "queueCompletedSegment"
    <3>1. Make(q, c) = QueueCompletedSegment(q, c.s, c.b)
      BY <2>2 DEF Make
    <3>2. c.s \in Segs(q) /\ c.b \in Bounds(q) /\ q.segments[c.s].blockedBoundary = c.b
      BY <1>0, <2>2 DEF CallOK
    <3>. QED  BY <2>00, <3>1, <3>2, QueueCompletedKeeps
  <2>3. CASE c.op = "partiallyCompleted"
    <3>1. Make(q, c) = PartiallyCompleted(q, c.b)
      BY <2>3 DEF Make
    <3>2. c.b \in Bounds(q)
      BY <1>0, <2>3 DEF CallOK
    <3>3. Alters(q, PartiallyCompleted(q, c.b))
      BY <1>0, <3>2, AltersPartially
    <3>. QED  BY <2>00, <3>1, <3>3, AltersQInv
  <2>4. CASE c.op = "completed"
    <3>1. Make(q, c) = BoundaryCompleted(q, c.b)
      BY <2>4 DEF Make
    <3>2. c.b \in Bounds(q) /\ Iterates(c)
      BY <1>0, <2>4 DEF CallOK, Iterates
    <3>. QED  BY <2>00, <3>1, <3>2, CompletedKeeps
  <2>. QED  BY <1>5, <2>1, <2>2, <2>3, <2>4
<1>6. c.op \in {"catch", "oneTaskLess", "abortTasks", "abortTasksSoft",
                "flushIfFlowing", "queueCompletedSegment",
                "partiallyCompleted", "completed"}
  BY <1>0 DEF CallOK, Ops, AbortOps
<1>. QED  BY <1>1, <1>2, <1>3, <1>4, <1>5, <1>6

LEMMA MakeNextKeeps ==
  ASSUME NEW q, NEW rank, QInv(q, rank)
  PROVE  QInv(MakeNext(q), rank) /\ Aged(q, MakeNext(q))
<1>0. Sound(q) /\ q.calls \in Seq(CallRecord) /\ q.thrown \in BOOLEAN
  BY DEF QInv, KInv, Shape, Sound, RequestRecord
<1>1. CASE q.calls = <<>>
  <2>1. Aged(q, q)
    BY <1>0, KeptRefl, KeptAged
  <2>. QED  BY <1>1, <2>1 DEF MakeNext
<1>2. CASE q.calls # <<>>
  <2>. DEFINE c == Head(q.calls)
              calls == Tail(q.calls)
              r == [q EXCEPT !.calls = calls]
  <2>1. c \in CallRecord /\ calls \in Seq(CallRecord)
    BY <1>0, <1>2, HeadTailProperties
  <2>2. q.calls = <<c>> \o calls
    BY <1>0, <1>2
  <2>3. MakeNext(q) = IF q.thrown /\ c.op \notin {"closeIfDone", "catch"} THEN r
                      ELSE Make(r, c)
    BY <1>2 DEF MakeNext
  <2>4. r = [q EXCEPT !.calls = calls]
    OBVIOUS
  <2>. HIDE DEF c, calls, r
  <2>5. /\ Sound(r) /\ r.calls = calls /\ r.thrown = q.thrown
        /\ KInv(r, <<c>> \o calls, rank)
    BY <1>0, <2>1, <2>2, <2>4, KInvCalls DEF QInv
  <2>6. Aged(q, r)
    <3>1. /\ r.segments = q.segments /\ r.boundaries = q.boundaries
          /\ r.abortableTasks = q.abortableTasks /\ r.pingedTasks = q.pingedTasks
      BY <1>0, <2>4 DEF Sound, RequestRecord
    <3>2. Bounds(r) = Bounds(q) /\ \A set \in Sets(q) : Tasks(r, set) = Tasks(q, set)
      BY <3>1 DEF Bounds, Tasks
    <3>. QED  BY <1>0, <3>1, <3>2, SameAged
  <2>7. CASE c.op \in FlushOps
    <3>1. /\ KInv(r, calls, rank) /\ Flushing(calls) /\ CallOK(r, c)
          /\ c.op \in SendingOps => ~(r.pendingRootTasks > 0)
      BY <2>1, <2>5, <2>7, FlushMade
    <3>2. Sends(r, Make(r, c))
      BY <2>1, <2>5, <2>7, <3>1, MakeSends
    <3>3. QInv(Make(r, c), rank)
      BY <2>1, <2>5, <2>7, <3>2, SendingStep
    <3>4. Aged(q, Make(r, c))
      BY <2>5, <2>6, <3>2, SendsAged, AgedTrans
    <3>5. QInv(r, rank)
      BY <2>5, <3>1 DEF QInv
    <3>. QED  BY <2>3, <2>6, <3>3, <3>4, <3>5
  <2>8. CASE c.op \notin FlushOps /\ ~q.thrown
    <3>1. QInv(Make(r, c), rank) /\ Aged(r, Make(r, c))
      BY <1>0, <2>1, <2>5, <2>8, MakeKeeps
    <3>2. Aged(q, Make(r, c))
      BY <2>6, <3>1, AgedTrans
    <3>. QED  BY <2>3, <2>8, <3>1, <3>2
  <2>9. CASE c.op \notin FlushOps /\ q.thrown
    <3>1. Caughts(q.thrown, <<c>> \o calls)
      BY <2>5 DEF KInv, Shape
    <3>2. (<<c>> \o calls)[1] = c
      BY <2>1, FirstCall
    <3>3. c.op = "catch"
      BY <2>9, <3>1, <3>2 DEF Caughts
    <3>4. QInv(Caught(r), rank) /\ Aged(r, Caught(r))
      BY <1>0, <2>1, <2>5, <3>3, CaughtKeeps
    <3>5. MakeNext(q) = Caught(r)
      BY <2>3, <3>3 DEF Make
    <3>. QED  BY <2>6, <3>4, <3>5, AgedTrans
  <2>. QED  BY <1>0, <2>7, <2>8, <2>9
<1>. QED  BY <1>1, <1>2

-----------------------------------------------------------------------------
(* A step of the program: the calls are made until none is left.           *)
LEMMA InductionUpTo ==
  ASSUME NEW k \in Nat, NEW S, 0 \in S, \A i \in 1..k : i - 1 \in S => i \in S
  PROVE  0..k \subseteq S
<1>. DEFINE Out == {i \in 0..k : i \notin S}
<1>1. SUFFICES ASSUME Out # {} PROVE FALSE
  OBVIOUS
<1>2. Out \in SUBSET Nat
  OBVIOUS
<1>. HIDE DEF Out
<1>3. PICK m \in Out : \A i \in Out : m <= i
  BY <1>1, <1>2, LeastExists
<1>4. m \in 0..k /\ m \notin S
  BY <1>3 DEF Out
<1>5. m \in 1..k /\ m - 1 \in 0..k
  BY <1>4
<1>6. m - 1 \notin Out
  BY <1>3, <1>4
<1>7. m - 1 \in S
  BY <1>5, <1>6 DEF Out
<1>. QED  BY <1>4, <1>5, <1>7

(* One call after the other, as many as may be made in a step.             *)
LEMMA CallsMade ==
  ASSUME NEW S, NEW r \in S, \A x \in S : MakeNext(x) \in S
  PROVE  \E f \in [0..MaxCalls -> S] :
           \A n \in 0..MaxCalls : f[n] = IF n = 0 THEN r ELSE MakeNext(f[n - 1])
<1>. DEFINE Upto(k, f) ==
       \A n \in 0..k : f[n] = IF n = 0 THEN r ELSE MakeNext(f[n - 1])
     K == {k \in 0..MaxCalls : \E f \in [0..k -> S] : Upto(k, f)}
<1>1. MaxCalls \in Nat
  BY BoundsAssumption
<1>2. 0 \in K
  <2>1. [n \in 0..0 |-> r] \in [0..0 -> S] /\ Upto(0, [n \in 0..0 |-> r])
    OBVIOUS
  <2>2. 0 \in 0..MaxCalls
    BY <1>1
  <2>. QED  BY <2>1, <2>2, Zenon
<1>3. ASSUME NEW k \in 1..MaxCalls, k - 1 \in K PROVE k \in K
  <2>1. PICK f \in [0..(k - 1) -> S] : Upto(k - 1, f)
    BY <1>3
  <2>2. k - 1 \in 0..(k - 1) /\ k \notin 0..(k - 1) /\ k \in 0..MaxCalls
        /\ \A n \in 0..k : n # k => n \in 0..(k - 1) /\ (n # 0 => n - 1 \in 0..(k - 1))
    BY <1>1
  <2>3. PICK v \in S : v = MakeNext(f[k - 1])
    BY <2>1, <2>2
  <2>4. PICK g : g = [n \in 0..k |-> IF n = k THEN v ELSE f[n]]
    OBVIOUS
  <2>5. g \in [0..k -> S]
    BY <2>1, <2>2, <2>3, <2>4
  <2>6. Upto(k, g)
    <3>1. ASSUME NEW n \in 0..k, n # k
          PROVE  g[n] = IF n = 0 THEN r ELSE MakeNext(g[n - 1])
      <4>1. g[n] = f[n] /\ (n # 0 => g[n - 1] = f[n - 1])
        BY <2>2, <2>4, <3>1
      <4>. QED  BY <2>1, <2>2, <3>1, <4>1
    <3>2. g[k] = v /\ g[k - 1] = f[k - 1] /\ k # 0
      BY <2>2, <2>4
    <3>. QED  BY <2>3, <3>1, <3>2
  <2>. QED  BY <2>2, <2>5, <2>6
<1>4. 0..MaxCalls \subseteq K
  <2>. HIDE DEF K
  <2>. QED  BY <1>1, <1>2, <1>3, InductionUpTo
<1>. QED  BY <1>1, <1>4

LEMMA BecomesIn ==
  ASSUME NEW S, NEW r \in S, \A x \in S : MakeNext(x) \in S, Becomes(r)
  PROVE  \E last \in S : last.calls = <<>> /\ request' = [last EXCEPT !.room = 0]
<1>. DEFINE Step(f) == [n \in 0..MaxCalls |-> IF n = 0 THEN r ELSE MakeNext(f[n - 1])]
            g == CHOOSE after : after = Step(after)
<1>0. MaxCalls \in Nat /\ MaxCalls \in 0..MaxCalls /\ 0 \in 0..MaxCalls
      /\ \A n \in 1..MaxCalls : n # 0 /\ n - 1 \in 0..MaxCalls /\ n \in 0..MaxCalls
  BY BoundsAssumption
<1>1. PICK f \in [0..MaxCalls -> S] :
        \A n \in 0..MaxCalls : f[n] = IF n = 0 THEN r ELSE MakeNext(f[n - 1])
  BY CallsMade
<1>2. f = Step(f)
  BY <1>1
<1>3. g = Step(g)
  BY <1>2, Zenon
<1>4. g[MaxCalls].calls = <<>> /\ request' = [g[MaxCalls] EXCEPT !.room = 0]
  BY Zenon DEF Becomes
<1>. HIDE DEF g
<1>5. 0..MaxCalls \subseteq {n \in 0..MaxCalls : g[n] = f[n]}
  <2>. DEFINE N == {n \in 0..MaxCalls : g[n] = f[n]}
  <2>1. 0 \in N
    BY <1>0, <1>1, <1>3
  <2>2. ASSUME NEW n \in 1..MaxCalls, n - 1 \in N PROVE n \in N
    <3>1. g[n] = MakeNext(g[n - 1])
      BY <1>0, <1>3
    <3>2. f[n] = MakeNext(f[n - 1])
      BY <1>0, <1>1
    <3>. QED  BY <1>0, <2>2, <3>1, <3>2
  <2>. HIDE DEF N
  <2>3. 0..MaxCalls \subseteq N
    BY <1>0, <2>1, <2>2, InductionUpTo
  <2>. QED  BY <2>3 DEF N
<1>6. g[MaxCalls] = f[MaxCalls]
  BY <1>0, <1>5
<1>. QED  BY <1>0, <1>1, <1>4, <1>6

(* What the step has led to, tasks apart.                                  *)
Settled(q, p, rank) ==
  /\ QInv(p, rank) /\ Aged(q, p)
  /\ p.calls = <<>> /\ p.thrown = FALSE /\ p.room = 0

LEMMA RoomKeeps ==
  ASSUME NEW q, NEW rank, NEW room \in Int, QInv(q, rank), NEW p,
         p = [q EXCEPT !.room = room]
  PROVE  /\ QInv(p, rank) /\ Aged(q, p) /\ p.room = room /\ p.calls = q.calls
         /\ p.thrown = q.thrown
<1>1. Sound(q) /\ q.calls \in Seq(CallRecord) /\ q.thrown \in BOOLEAN
  BY DEF QInv, KInv, Shape, Sound, RequestRecord
<1>2. p \in RequestRecord
  BY <1>1 DEF Sound, RequestRecord
<1>3. /\ p.segments = q.segments /\ p.boundaries = q.boundaries
      /\ p.status = q.status /\ p.abortableTasks = q.abortableTasks
      /\ p.allPendingTasks = q.allPendingTasks
      /\ p.pendingRootTasks = q.pendingRootTasks
      /\ p.pingedTasks = q.pingedTasks
      /\ p.shellReady = q.shellReady /\ p.allReady = q.allReady
      /\ p.completedRootSegment = q.completedRootSegment
      /\ p.clientRenderedBoundaries = q.clientRenderedBoundaries
      /\ p.completedBoundaries = q.completedBoundaries
      /\ p.partialBoundaries = q.partialBoundaries
      /\ p.document = q.document /\ p.calls = q.calls /\ p.thrown = q.thrown
      /\ p.room = room
  BY <1>1 DEF Sound, RequestRecord
<1>4. Sound(p) /\ Kept(q, p)
  BY <1>1, <1>2, <1>3 DEF Sound, Pointers, Kept, Segs, Bounds, Sets
<1>5. QInv(p, rank)
  BY <1>3, <1>4, KeptKInv DEF QInv, KInv, Shape
<1>. QED  BY <1>1, <1>3, <1>4, <1>5, KeptAged

LEMMA StepSettles ==
  ASSUME NEW r, NEW rank, QInv(r, rank), Becomes(r)
  PROVE  Settled(r, request', rank)
<1>. DEFINE S == {x \in RequestRecord : QInv(x, rank) /\ Aged(r, x)}
<1>1. r \in S
  BY KeptRefl, KeptAged DEF QInv, KInv, Shape, Sound
<1>2. ASSUME NEW x \in S PROVE MakeNext(x) \in S
  <2>1. QInv(MakeNext(x), rank) /\ Aged(r, MakeNext(x))
    BY MakeNextKeeps, AgedTrans
  <2>. QED  BY <2>1 DEF QInv, KInv, Shape, Sound
<1>. HIDE DEF S
<1>3. PICK last \in S : last.calls = <<>> /\ request' = [last EXCEPT !.room = 0]
  BY <1>1, <1>2, BecomesIn
<1>4. QInv(last, rank) /\ Aged(r, last) /\ last.thrown \in BOOLEAN
  BY <1>3 DEF S, RequestRecord
<1>5. last.thrown = FALSE
  BY <1>3, <1>4 DEF QInv, KInv, Shape, Caughts
<1>. DEFINE none == 0
<1>6. none \in Int /\ request' = [last EXCEPT !.room = none]
  BY <1>3
<1>. HIDE DEF none
<1>7. QInv(request', rank) /\ Aged(last, request') /\ request'.room = none
      /\ request'.calls = last.calls /\ request'.thrown = last.thrown
  BY <1>4, <1>6, RoomKeeps
<1>8. Aged(r, request')
  BY <1>3, <1>7, AgedTrans DEF S
<1>. QED  BY <1>3, <1>5, <1>7, <1>8 DEF Settled, none

-----------------------------------------------------------------------------
(* The program between two steps.                                          *)

(* The task that is being rendered is live; in its segment or in its       *)
(* content, one in the other, are the contents of the boundaries that have *)
(* been entered, and before each is its fallback, which is not yet a task. *)
Content(q, task, outer, s) ==
  LET b == q.segments[s].blockedBoundary
  IN  /\ b # 0 /\ q.segments[s].boundary = 0
      /\ s \notin Tasks(q, q.segments[s].abortSet)
      /\ s - 1 \in Segs(q) /\ s - 1 # task
      /\ q.segments[s - 1].status = "PENDING" /\ q.segments[s - 1].boundary = b
      /\ q.segments[s - 1].abortSet = b /\ s - 1 \notin Tasks(q, b)
      /\ q.segments[s - 1].blockedBoundary = q.segments[outer].blockedBoundary

Rendering(q, st) ==
  /\ st \in Seq(Nat)
  /\ st # <<>> => st[1] \in Live(q)
  /\ \A i \in DOMAIN st :
       /\ st[i] \in Segs(q) /\ q.segments[st[i]].status = "PENDING"
       /\ q.segments[st[i]].abortSet = q.segments[st[1]].abortSet
       /\ i > 1 => Content(q, st[1], st[i - 1], st[i])
  /\ \A i, j \in DOMAIN st : st[i] = st[j] => i = j

(* A task that waits is live until it is done.                             *)
Waiting(q, tasks) ==
  \A t \in ToSet(q.pingedTasks) \cup tasks :
    t \in Segs(q) /\ (q.segments[t].status = "PENDING" => t \in Live(q))

Idle(q) == q.calls = <<>> /\ q.thrown = FALSE /\ q.room = 0

IInv ==
  /\ Idle(request) /\ \E rank : QInv(request, rank)
  /\ Rendering(request, stack) /\ Waiting(request, suspended)
  /\ loop \in Nat /\ (stack # <<>> => loop > 0)

LEMMA WaitingAged ==
  ASSUME NEW q, NEW p, NEW tasks, Waiting(q, tasks), Aged(q, p)
  PROVE  Waiting(p, tasks)
<1>1. Segs(p) = Segs(q) /\ ToSet(p.pingedTasks) = ToSet(q.pingedTasks)
  BY DEF Aged, ToSet
<1>2. ASSUME NEW t \in ToSet(p.pingedTasks) \cup tasks
      PROVE  t \in Segs(p) /\ (p.segments[t].status = "PENDING" => t \in Live(p))
  <2>1. t \in Segs(q) /\ (q.segments[t].status = "PENDING" => t \in Live(q))
    BY <1>1, <1>2 DEF Waiting
  <2>. QED  BY <1>1, <2>1 DEF Aged
<1>. QED  BY <1>2 DEF Waiting

LEMMA NothingRendered ==
  ASSUME NEW q PROVE Rendering(q, <<>>)
<1>1. <<>> \in Seq(Nat) /\ DOMAIN <<>> = {}
  OBVIOUS
<1>. QED  BY <1>1 DEF Rendering

(* What the host and the destination change between two steps.             *)
SameButHost(q, p) ==
  /\ p \in RequestRecord
  /\ p.segments = q.segments /\ p.boundaries = q.boundaries
  /\ p.status = q.status /\ p.abortableTasks = q.abortableTasks
  /\ p.allPendingTasks = q.allPendingTasks
  /\ p.pendingRootTasks = q.pendingRootTasks
  /\ p.shellReady = q.shellReady /\ p.allReady = q.allReady
  /\ p.completedRootSegment = q.completedRootSegment
  /\ p.clientRenderedBoundaries = q.clientRenderedBoundaries
  /\ p.completedBoundaries = q.completedBoundaries
  /\ p.partialBoundaries = q.partialBoundaries
  /\ p.document = q.document /\ p.calls = q.calls /\ p.thrown = q.thrown

LEMMA SameButHostKeeps ==
  ASSUME NEW q, NEW p, NEW calls, NEW rank, KInv(q, calls, rank), SameButHost(q, p)
  PROVE  /\ KInv(p, calls, rank) /\ Segs(p) = Segs(q) /\ Bounds(p) = Bounds(q)
         /\ Live(p) = Live(q) /\ \A set : Tasks(p, set) = Tasks(q, set)
<1>1. /\ Segs(p) = Segs(q) /\ Bounds(p) = Bounds(q) /\ Sets(p) = Sets(q)
      /\ \A set : Tasks(p, set) = Tasks(q, set)
  BY DEF SameButHost, Segs, Bounds, Sets, Tasks
<1>2. Live(p) = Live(q) /\ \A b : LiveOf(p, b) = LiveOf(q, b)
  BY <1>1 DEF SameButHost, Live, LiveOf
<1>3. Sound(p)
  BY <1>1 DEF KInv, Shape, Sound, Pointers, SameButHost
<1>4. Ranked(p, rank) /\ Homes(p) /\ Cursors(p, calls)
  BY <1>1 DEF KInv, Shape, Ranked, Homes, Cursors, SameButHost
<1>5. CallsOK(p, calls)
  BY <1>1 DEF KInv, Shape, CallsOK, CallOK, SameButHost
<1>6. Nested(calls, rank) /\ Caughts(p.thrown, calls)
  BY DEF KInv, Shape, SameButHost
<1>7. Roots(p, calls)
  BY <1>1 DEF KInv, Shape, Roots, SameButHost
<1>8. Counts(p, calls, 0, 0)
  BY <1>1, <1>2 DEF KInv, Counts, SameButHost
<1>9. Told(p)
  BY DEF KInv, Told, SameButHost
<1>. QED  BY <1>1, <1>2, <1>3, <1>4, <1>5, <1>6, <1>7, <1>8, <1>9 DEF KInv, Shape

(* Before a step in which the destination may take so much.                *)
Roomed(q, room) == [q EXCEPT !.room = room]

LEMMA WithRoomKeeps ==
  ASSUME NEW q, NEW rank, NEW tasks, NEW room \in Nat,
         QInv(q, rank), Idle(q), Waiting(q, tasks)
  PROVE  LET p == Roomed(q, room)
         IN  /\ QInv(p, rank) /\ p.thrown = FALSE /\ p.calls = <<>>
             /\ Waiting(p, tasks)
<1>. DEFINE p == Roomed(q, room)
<1>0. p = [q EXCEPT !.room = room]
  BY DEF Roomed
<1>. HIDE DEF p
<1>1. room \in Int /\ Sound(q)
  BY DEF QInv, KInv, Shape
<1>2. QInv(p, rank) /\ Aged(q, p) /\ p.calls = q.calls /\ p.thrown = q.thrown
  BY <1>0, <1>1, RoomKeeps
<1>3. Waiting(p, tasks)
  BY <1>2, WaitingAged
<1>. QED  BY <1>2, <1>3 DEF Idle, p

(* After a step.                                                           *)
LEMMA Steps ==
  ASSUME NEW q, NEW r, NEW rank, NEW tasks, Waiting(q, tasks),
         Aged(q, r), QInv(r, rank), Becomes(r)
  PROVE  /\ Idle(request') /\ \E k : QInv(request', k)
         /\ Waiting(request', tasks)
<1>1. Settled(r, request', rank)
  BY StepSettles
<1>2. Waiting(request', tasks)
  BY <1>1, WaitingAged DEF Settled
<1>. QED  BY <1>1, <1>2 DEF Settled, Idle

(* The steps that finish no task.                                          *)
LEMMA FlushStep ==
  ASSUME NEW q, NEW rank, NEW tasks, QInv(q, rank), q.thrown = FALSE,
         Waiting(q, tasks),
         \/ Becomes(FlushIfFlowing(q)) \/ Becomes(Pipe(q)) \/ Becomes(StartFlowing(q))
  PROVE  /\ Idle(request') /\ \E k : QInv(request', k)
         /\ Waiting(request', tasks)
<1>0. Sound(q)
  BY DEF QInv, KInv, Shape
<1>1. /\ QInv(FlushIfFlowing(q), rank) /\ QInv(Pipe(q), rank)
      /\ QInv(StartFlowing(q), rank)
  BY FlushIfFlowingKeeps, PipeKeeps, StartFlowingKeeps
<1>2. /\ Aged(q, FlushIfFlowing(q)) /\ Aged(q, Pipe(q))
      /\ Aged(q, StartFlowing(q))
  BY <1>0, FlushesKept, KeptAged
<1>3. CASE Becomes(FlushIfFlowing(q))
  BY <1>1, <1>2, <1>3, Steps
<1>4. CASE Becomes(Pipe(q))
  BY <1>1, <1>2, <1>4, Steps
<1>5. CASE Becomes(StartFlowing(q))
  BY <1>1, <1>2, <1>5, Steps
<1>. QED  BY <1>3, <1>4, <1>5

LEMMA AbortStep ==
  ASSUME NEW q, NEW rank, NEW tasks, QInv(q, rank), q.thrown = FALSE,
         q.calls = <<>>, Waiting(q, tasks), Becomes(Abort(q))
  PROVE  /\ Idle(request') /\ \E k : QInv(request', k)
         /\ Waiting(request', tasks)
<1>. DEFINE c == Call("abortTasks", 1, 0)
            d == Call("flushIfFlowing", 0, 0)
            m == Calling(q, <<d>>)
            p == Calling(m, <<c>>)
<1>0. Sound(q) /\ q \in RequestRecord
  BY DEF QInv, KInv, Shape, Sound
<1>1. c \in CallRecord /\ c.op = "abortTasks" /\ c.s = 1 /\ c.b = 0
  BY DEF Call, CallRecord, Ops, AbortOps
<1>2. d \in CallRecord /\ d.op = "flushIfFlowing" /\ CallOK(q, d)
  BY DEF Call, CallRecord, CallOK, Ops
<1>3. CallOK(q, c)
  BY DEF Call, CallRecord, CallOK, Ops, AbortOps, Sets
<1>4. Abort(q) = p
  BY <1>0, <1>1, <1>2, CallingTwo DEF Abort
<1>5. m = Calling(q, <<d>>) /\ p = Calling(m, <<c>>)
  OBVIOUS
<1>. HIDE DEF c, d, m, p
<1>6. d.op \notin FlushOps /\ d.op # "oneTaskLess" /\ ~Iterates(d) /\ d.op \notin AbortOps
  BY <1>2 DEF FlushOps, SendingOps, Iterates, AbortOps
<1>7. /\ QInv(m, rank) /\ m.thrown = FALSE /\ m.calls = <<d>> \o q.calls
      /\ m.segments = q.segments /\ m.boundaries = q.boundaries /\ Aged(q, m)
  BY <1>2, <1>5, <1>6, PushKeeps
<1>8. CallOK(m, c)
  BY <1>1, <1>3, <1>7 DEF CallOK, Segs, Bounds, Sets
<1>9. c.op \notin FlushOps /\ c.op # "oneTaskLess" /\ c.s <= 1
  BY <1>1 DEF FlushOps, SendingOps
<1>10. After(m.calls, rank, c.b)
  <2>1. m.calls = <<d>>
    BY <1>2, <1>7
  <2>2. \A j \in DOMAIN <<d>> : <<d>>[j] = d
    OBVIOUS
  <2>. QED  BY <1>6, <2>1, <2>2 DEF After
<1>11. QInv(p, rank) /\ Aged(m, p)
  BY <1>1, <1>5, <1>7, <1>8, <1>9, <1>10, PushKeeps
<1>12. Aged(q, p)
  BY <1>7, <1>11, AgedTrans
<1>. QED  BY <1>4, <1>11, <1>12, Steps

-----------------------------------------------------------------------------
(* The actions, first those of the host.                                   *)
LEMMA InitIInv ==
  ASSUME Init PROVE IInv
<1>. DEFINE segment == RootSegment
            one == 1
            p == CreateRenderTask(EmptyRequest, 1)
            rank == [b \in {0} |-> 0]
<1>1. segment \in SegmentRecord /\ segment.status = "PENDING"
      /\ segment.parentFlushed = TRUE /\ segment.children = <<>>
      /\ segment.boundary = 0 /\ segment.blockedBoundary = 0 /\ segment.abortSet = 0
  <2>. DEFINE none == <<>>
              o == [status |-> "PENDING", id |-> 0, parentFlushed |-> FALSE,
                    children |-> none, empty |-> FALSE, boundary |-> 0,
                    blockedBoundary |-> 0, abortSet |-> 0]
  <2>1. none \in Seq(Nat) /\ none = <<>>
    OBVIOUS
  <2>. HIDE DEF none
  <2>2. o \in SegmentRecord
    BY <2>1 DEF SegmentRecord
  <2>3. segment = [o EXCEPT !.parentFlushed = TRUE]
    BY <2>1 DEF RootSegment, PendingSegment
  <2>4. o.status = "PENDING" /\ o.children = none /\ o.boundary = 0
        /\ o.blockedBoundary = 0 /\ o.abortSet = 0
    OBVIOUS
  <2>. HIDE DEF o, segment
  <2>. QED  BY <2>1, <2>2, <2>3, <2>4 DEF SegmentRecord
<1>2. one = 1 /\ one \in Int
  OBVIOUS
<1>3. p = [EmptyRequest EXCEPT !.allPendingTasks = one, !.pendingRootTasks = one,
                               !.abortableTasks = {one}]
  <2>. HIDE DEF segment
  <2>1. EmptyRequest.segments[1] = segment
    BY DEF EmptyRequest, segment
  <2>2. EmptyRequest.allPendingTasks + 1 = one /\ EmptyRequest.pendingRootTasks + 1 = one
        /\ EmptyRequest.abortableTasks \cup {1} = {one}
    BY DEF EmptyRequest
  <2>3. p = LET counted == [EmptyRequest EXCEPT
                              !.allPendingTasks = EmptyRequest.allPendingTasks + 1]
                rooted == [counted EXCEPT !.pendingRootTasks = @ + 1]
            IN  [rooted EXCEPT
                   !.abortableTasks = EmptyRequest.abortableTasks \cup {1}]
    BY <1>1, <2>1 DEF CreateRenderTask, SetTasks, Tasks
  <2>. HIDE DEF one, p
  <2>. QED  BY <2>2, <2>3 DEF EmptyRequest
<1>. HIDE DEF segment, one, p
<1>4. /\ p.segments = <<segment>> /\ p.boundaries = <<>> /\ p.status = "OPEN"
      /\ p.allPendingTasks = one /\ p.pendingRootTasks = one
      /\ p.pingedTasks = <<1>> /\ p.abortableTasks = {one}
      /\ p.completedRootSegment = 0 /\ p.clientRenderedBoundaries = <<>>
      /\ p.completedBoundaries = <<>> /\ p.partialBoundaries = <<>>
      /\ p.room = 0 /\ p.calls = <<>> /\ p.thrown = FALSE
      /\ p.shellReady = 0 /\ p.allReady = 0 /\ p.document = NoDocument
  BY <1>3 DEF EmptyRequest, segment
<1>5. p \in RequestRecord
  <2>1. NoDocument \in Document
    BY DEF NoDocument, Document
  <2>2. <<segment>> \in Seq(SegmentRecord) /\ <<1>> \in Seq(Nat)
    BY <1>1
  <2>3. <<>> \in Seq(BoundaryRecord) /\ <<>> \in Seq(Nat) /\ <<>> \in Seq(CallRecord)
    OBVIOUS
  <2>4. {one} \in SUBSET Nat /\ {} \in SUBSET Failure /\ {} \in SUBSET Nat
    BY <1>2
  <2>. DEFINE none == <<>>
              first == <<segment>>
              waiting == <<1>>
              zero == 0
              nobody == {}
              ones == {one}
              o == [status |-> "OPEN", segments |-> first, boundaries |-> none,
                    allPendingTasks |-> zero, pendingRootTasks |-> zero,
                    pingedTasks |-> waiting, abortableTasks |-> nobody,
                    completedRootSegment |-> zero,
                    clientRenderedBoundaries |-> none, completedBoundaries |-> none,
                    partialBoundaries |-> none, destination |-> FALSE,
                    piped |-> FALSE, room |-> zero, ended |-> "no", calls |-> none,
                    thrown |-> FALSE, failures |-> nobody, shellReady |-> zero,
                    allReady |-> zero, document |-> NoDocument]
  <2>5. EmptyRequest = o
    BY DEF EmptyRequest, segment
  <2>6. /\ zero \in Int /\ zero \in Nat /\ first \in Seq(SegmentRecord)
        /\ waiting \in Seq(Nat) /\ none \in Seq(BoundaryRecord)
        /\ none \in Seq(Nat) /\ none \in Seq(CallRecord)
        /\ nobody \in SUBSET Nat /\ nobody \in SUBSET Failure /\ ones \in SUBSET Nat
    BY <2>2, <2>3, <2>4
  <2>7. p = [EmptyRequest EXCEPT !.allPendingTasks = one, !.pendingRootTasks = one,
                                 !.abortableTasks = ones]
    BY <1>3
  <2>. HIDE DEF none, first, waiting, zero, nobody, ones
  <2>8. o \in RequestRecord
    BY <2>1, <2>6 DEF RequestRecord
  <2>. HIDE DEF o
  <2>. QED  BY <1>2, <2>5, <2>6, <2>7, <2>8 DEF RequestRecord
<1>6. /\ Segs(p) = {1} /\ Bounds(p) = {} /\ Sets(p) = {0}
      /\ p.segments[1] = segment /\ Tasks(p, 0) = {1}
  BY <1>2, <1>4 DEF Segs, Bounds, Sets, Tasks
<1>7. Sound(p)
  BY <1>1, <1>4, <1>5, <1>6 DEF Sound, Pointers
<1>8. Ranked(p, rank) /\ Homes(p)
  BY <1>1, <1>4, <1>6 DEF Ranked, Homes
<1>9. CallsOK(p, <<>>) /\ Nested(<<>>, rank) /\ Caughts(FALSE, <<>>)
  <2>1. DOMAIN <<>> = {}
    OBVIOUS
  <2>. QED  BY <2>1 DEF CallsOK, Nested, Caughts
<1>10. Cursors(p, <<>>)
  <2>1. DOMAIN <<>> = {}
    OBVIOUS
  <2>. QED  BY <1>1, <1>6, <2>1 DEF Cursors
<1>11. Roots(p, <<>>)
  <2>1. DOMAIN <<>> = {}
    OBVIOUS
  <2>. QED  BY <1>1, <1>4, <1>6, <2>1 DEF Roots
<1>12. Live(p) = {1} /\ LiveOf(p, 0) = {1}
  BY <1>1, <1>4, <1>6 DEF Live, LiveOf
<1>13. Counts(p, <<>>, 0, 0)
  <2>1. Cardinality(Live(p)) = 1 /\ Cardinality(LiveOf(p, 0)) = 1
    BY <1>12, FS_Singleton
  <2>2. LessCalls(<<>>) = 0
    <3>1. {i \in DOMAIN <<>> : <<>>[i].op = "oneTaskLess"} = {}
      OBVIOUS
    <3>. QED  BY <3>1, FS_EmptySet DEF LessCalls
  <2>. QED  BY <1>2, <1>4, <1>6, <2>1, <2>2 DEF Counts
<1>14. Told(p)
  BY <1>2, <1>4 DEF Told
<1>15. QInv(p, rank)
  <2>. HIDE DEF rank
  <2>. QED  BY <1>4, <1>7, <1>8, <1>9, <1>10, <1>11, <1>13, <1>14
            DEF QInv, KInv, Shape
<1>16. Waiting(p, {})
  BY <1>4, <1>6, <1>12 DEF Waiting, ToSet
<1>17. request = p /\ stack = <<>> /\ suspended = {} /\ loop = 0
  BY DEF Init, p
<1>18. Idle(p)
  BY <1>4 DEF Idle
<1>. QED  BY <1>15, <1>16, <1>17, <1>18, NothingRendered DEF IInv

LEMMA PerformWorkKeeps ==
  ASSUME IInv, PerformWork PROVE IInv'
<1>1. /\ request' = request /\ stack' = stack /\ suspended' = suspended
      /\ loop' \in Nat /\ stack = <<>>
  BY DEF PerformWork, IInv
<1>. QED  BY <1>1 DEF IInv

LEMMA TaskSuspendsKeeps ==
  ASSUME IInv, TaskSuspends PROVE IInv'
<1>1. /\ request' = request /\ loop' = loop /\ stack' = <<>> /\ stack # <<>>
      /\ suspended' = suspended \cup {stack[1]}
  BY DEF TaskSuspends, TheTask
<1>2. stack[1] \in Live(request)
  BY <1>1 DEF IInv, Rendering
<1>3. stack[1] \in Segs(request)
  BY <1>2 DEF Live
<1>4. Waiting(request, suspended')
  BY <1>1, <1>2, <1>3 DEF IInv, Waiting
<1>. QED  BY <1>1, <1>4, NothingRendered DEF IInv

LEMMA FinishWorkKeeps ==
  ASSUME IInv, FinishWork PROVE IInv'
<1>1. PICK rank : QInv(request, rank)
  BY DEF IInv
<1>2. PICK room \in Rooms :
        Becomes(FlushIfFlowing([WithRoom(room) EXCEPT !.pingedTasks = <<>>]))
  BY DEF FinishWork
<1>. DEFINE o == WithRoom(room)
            p == [o EXCEPT !.pingedTasks = <<>>]
<1>3. room \in Nat /\ o = Roomed(request, room)
  BY RoomsAssumption DEF WithRoom, Roomed
<1>4. p = [o EXCEPT !.pingedTasks = <<>>] /\ Becomes(FlushIfFlowing(p))
  BY <1>2
<1>. HIDE DEF o, p
<1>5. /\ QInv(o, rank) /\ o.thrown = FALSE /\ o.calls = <<>>
      /\ Waiting(o, suspended)
  <2>1. Idle(request) /\ Waiting(request, suspended)
    BY DEF IInv
  <2>. QED  BY <1>1, <1>3, <2>1, WithRoomKeeps
<1>6. SameButHost(o, p) /\ p.pingedTasks = <<>>
  <2>. DEFINE tasks == <<>>
  <2>1. o \in RequestRecord
    BY <1>5 DEF QInv, KInv, Shape, Sound
  <2>2. p = [o EXCEPT !.pingedTasks = tasks] /\ tasks \in Seq(Nat)
    BY <1>4
  <2>. HIDE DEF tasks
  <2>3. SameButHost(o, p) /\ p.pingedTasks = tasks
    BY <2>1, <2>2 DEF SameButHost, RequestRecord
  <2>. QED  BY <2>3 DEF tasks
<1>7. /\ QInv(p, rank) /\ p.thrown = FALSE /\ p.segments = o.segments
      /\ Segs(p) = Segs(o) /\ Live(p) = Live(o)
  BY <1>5, <1>6, SameButHostKeeps DEF QInv, SameButHost
<1>8. Waiting(p, suspended)
  BY <1>5, <1>6, <1>7 DEF Waiting, ToSet
<1>9. /\ Idle(request') /\ \E k : QInv(request', k)
      /\ Waiting(request', suspended)
  BY <1>4, <1>7, <1>8, FlushStep
<1>10. suspended' = suspended /\ stack' = <<>> /\ loop' = 0
  BY DEF FinishWork, hostVars
<1>. QED  BY <1>9, <1>10, NothingRendered DEF IInv

LEMMA PipeElsewhereKeeps ==
  ASSUME IInv, PipeElsewhere PROVE IInv'
<1>1. PICK rank : QInv(request, rank)
  BY DEF IInv
<1>2. PICK room \in Rooms : Becomes(Pipe(WithRoom(room)))
  BY DEF PipeElsewhere
<1>. DEFINE o == WithRoom(room)
<1>3. room \in Nat /\ o = Roomed(request, room)
  BY RoomsAssumption DEF WithRoom, Roomed
<1>4. Becomes(Pipe(o))
  BY <1>2
<1>. HIDE DEF o
<1>5. /\ QInv(o, rank) /\ o.thrown = FALSE /\ Waiting(o, suspended)
  <2>1. Idle(request) /\ Waiting(request, suspended)
    BY DEF IInv
  <2>. QED  BY <1>1, <1>3, <2>1, WithRoomKeeps
<1>6. /\ Idle(request') /\ \E k : QInv(request', k)
      /\ Waiting(request', suspended)
  BY <1>4, <1>5, FlushStep
<1>7. suspended' = suspended /\ stack' = <<>> /\ stack = <<>> /\ loop' = 0
  BY DEF PipeElsewhere, hostVars, CanPipe, IInv
<1>. QED  BY <1>6, <1>7, NothingRendered DEF IInv

LEMMA DrainKeeps ==
  ASSUME IInv, Drain PROVE IInv'
<1>1. PICK rank : QInv(request, rank)
  BY DEF IInv
<1>2. PICK room \in Rooms : Becomes(StartFlowing(WithRoom(room)))
  BY DEF Drain
<1>. DEFINE o == WithRoom(room)
<1>3. room \in Nat /\ o = Roomed(request, room)
  BY RoomsAssumption DEF WithRoom, Roomed
<1>4. Becomes(StartFlowing(o))
  BY <1>2
<1>. HIDE DEF o
<1>5. /\ QInv(o, rank) /\ o.thrown = FALSE /\ Waiting(o, suspended)
  <2>1. Idle(request) /\ Waiting(request, suspended)
    BY DEF IInv
  <2>. QED  BY <1>1, <1>3, <2>1, WithRoomKeeps
<1>6. /\ Idle(request') /\ \E k : QInv(request', k)
      /\ Waiting(request', suspended)
  BY <1>4, <1>5, FlushStep
<1>7. suspended' = suspended /\ stack' = <<>> /\ stack = <<>> /\ loop' = 0
  BY DEF Drain, hostVars, CanDrain, IInv
<1>. QED  BY <1>6, <1>7, NothingRendered DEF IInv

LEMMA ProgramAbortsKeeps ==
  ASSUME IInv, ProgramAborts PROVE IInv'
<1>1. PICK rank : QInv(request, rank)
  BY DEF IInv
<1>2. PICK room \in Rooms : Becomes(Abort(WithRoom(room)))
  BY DEF ProgramAborts
<1>. DEFINE o == WithRoom(room)
<1>3. room \in Nat /\ o = Roomed(request, room)
  BY RoomsAssumption DEF WithRoom, Roomed
<1>4. Becomes(Abort(o))
  BY <1>2
<1>. HIDE DEF o
<1>5. /\ QInv(o, rank) /\ o.thrown = FALSE /\ o.calls = <<>>
      /\ Waiting(o, suspended)
  <2>1. Idle(request) /\ Waiting(request, suspended)
    BY DEF IInv
  <2>. QED  BY <1>1, <1>3, <2>1, WithRoomKeeps
<1>6. /\ Idle(request') /\ \E k : QInv(request', k)
      /\ Waiting(request', suspended)
  BY <1>4, <1>5, AbortStep
<1>7. suspended' = suspended /\ stack' = <<>> /\ stack = <<>> /\ loop' = 0
  BY DEF ProgramAborts, IInv
<1>. QED  BY <1>6, <1>7, NothingRendered DEF IInv

LEMMA DestinationClosesKeeps ==
  ASSUME IInv, DestinationCloses PROVE IInv'
<1>1. PICK rank : QInv(request, rank)
  BY DEF IInv
<1>. DEFINE o == [End(request, "gone") EXCEPT !.destination = FALSE]
<1>2. Becomes(Abort(o))
  BY DEF DestinationCloses
<1>3. SameButHost(request, o) /\ o.pingedTasks = request.pingedTasks
  BY <1>1 DEF QInv, KInv, Shape, Sound, SameButHost, RequestRecord, End
<1>. HIDE DEF o
<1>4. /\ QInv(o, rank) /\ o.thrown = FALSE /\ o.calls = <<>>
      /\ o.segments = request.segments
      /\ Segs(o) = Segs(request) /\ Live(o) = Live(request)
  BY <1>1, <1>3, SameButHostKeeps DEF QInv, SameButHost, IInv, Idle
<1>5. Waiting(o, suspended)
  BY <1>3, <1>4 DEF Waiting, ToSet, IInv
<1>6. /\ Idle(request') /\ \E k : QInv(request', k)
      /\ Waiting(request', suspended)
  BY <1>2, <1>4, <1>5, AbortStep
<1>7. suspended' = suspended /\ stack' = <<>> /\ stack = <<>> /\ loop' = 0
  BY DEF DestinationCloses, IInv
<1>. QED  BY <1>6, <1>7, NothingRendered DEF IInv

LEMMA RetryTaskKeeps ==
  ASSUME IInv, RetryTask PROVE IInv'
<1>1. PICK rank : QInv(request, rank)
  BY DEF IInv
<1>. DEFINE s == request.pingedTasks[loop]
<1>2. /\ request' = request /\ suspended' = suspended /\ loop' = loop + 1
      /\ stack' = IF request.segments[s].status = "PENDING" THEN <<s>> ELSE <<>>
      /\ loop \in 1..Len(request.pingedTasks)
  BY DEF RetryTask, Retrying, hostVars
<1>3. request.pingedTasks \in Seq(Nat)
  BY <1>1 DEF QInv, KInv, Shape, Sound, RequestRecord
<1>4. s \in ToSet(request.pingedTasks) /\ s \in Nat
  BY <1>2, <1>3, ElementOfSeq, LenProperties DEF ToSet
<1>5. s \in Segs(request) /\ (request.segments[s].status = "PENDING" => s \in Live(request))
  BY <1>4 DEF IInv, Waiting
<1>. HIDE DEF s
<1>6. ASSUME request.segments[s].status = "PENDING" PROVE Rendering(request, <<s>>)
  <2>1. DOMAIN <<s>> = {1} /\ <<s>>[1] = s /\ <<s>> \in Seq(Nat)
    BY <1>4
  <2>. QED  BY <1>5, <1>6, <2>1 DEF Rendering
<1>7. Rendering(request, stack')
  BY <1>2, <1>6, NothingRendered
<1>. QED  BY <1>2, <1>7 DEF IInv

LEMMA PingKeeps ==
  ASSUME IInv, NEW s \in suspended, Ping(s) PROVE IInv'
<1>1. PICK rank : QInv(request, rank)
  BY DEF IInv
<1>2. /\ suspended' = suspended \ {s} /\ stack' = <<>> /\ stack = <<>>
      /\ request' = [request EXCEPT !.pingedTasks = Append(@, s)] /\ loop' = loop
  BY DEF Ping, CanPing, IInv
<1>3. Sound(request) /\ request.pingedTasks \in Seq(Nat) /\ s \in Segs(request)
  BY <1>1 DEF QInv, KInv, Shape, Sound, RequestRecord, IInv, Waiting
<1>. DEFINE tasks == Append(request.pingedTasks, s)
<1>4. tasks \in Seq(Nat)
      /\ \A i \in DOMAIN tasks : tasks[i] = s \/ tasks[i] \in ToSet(request.pingedTasks)
  BY <1>3, Records DEF ToSet
<1>. HIDE DEF tasks
<1>5. request' = [request EXCEPT !.pingedTasks = tasks]
  BY <1>2 DEF tasks
<1>6. SameButHost(request, request') /\ request'.pingedTasks = tasks
      /\ request'.room = request.room
  BY <1>3, <1>4, <1>5 DEF Sound, SameButHost, RequestRecord
<1>7. /\ QInv(request', rank) /\ request'.segments = request.segments
      /\ Segs(request') = Segs(request) /\ Live(request') = Live(request)
  BY <1>1, <1>6, SameButHostKeeps DEF QInv, SameButHost
<1>8. ToSet(tasks) \subseteq ToSet(request.pingedTasks) \cup {s}
  BY <1>4 DEF ToSet
<1>9. Waiting(request', suspended')
  BY <1>2, <1>6, <1>7, <1>8 DEF Waiting, IInv
<1>10. Idle(request')
  BY <1>6 DEF SameButHost, IInv, Idle
<1>. QED  BY <1>2, <1>7, <1>9, <1>10, NothingRendered DEF IInv

-----------------------------------------------------------------------------
(* A task ends: it leaves its set, and its segment is not pending.         *)
LEMMA SegmentEnds ==
  ASSUME NEW q, NEW t \in Segs(q), Sound(q), NEW e, NEW segment \in SegmentRecord,
         segment.boundary = q.segments[t].boundary,
         segment.blockedBoundary = q.segments[t].blockedBoundary,
         segment.abortSet = q.segments[t].abortSet,
         segment.parentFlushed = q.segments[t].parentFlushed,
         segment.children \in {q.segments[t].children, <<>>},
         segment.status # "PENDING",
         e = [q EXCEPT !.segments[t] = segment]
  PROVE  /\ Ended(q, e, t) /\ e.calls = q.calls
         /\ \A set : Tasks(e, set) = Tasks(q, set)
<1>. DEFINE segments == [q.segments EXCEPT ![t] = segment]
<1>1. q \in RequestRecord /\ q.segments \in Seq(SegmentRecord)
      /\ q.segments[t] \in SegmentRecord
  BY Records DEF Sound, RequestRecord
<1>3. e = [q EXCEPT !.segments = segments]
  OBVIOUS
<1>4. /\ segments \in Seq(SegmentRecord) /\ DOMAIN segments = Segs(q)
      /\ \A s \in Segs(q) : segments[s] = IF s = t THEN segment ELSE q.segments[s]
  <2>1. t \in 1..Len(q.segments)
    BY <1>1, LenProperties DEF Segs
  <2>2. segments \in Seq(SegmentRecord)
    BY <1>1, <2>1, ExceptSeq
  <2>. QED  BY <2>2 DEF Segs
<1>. HIDE DEF segments
<1>5. /\ e \in RequestRecord /\ e.segments = segments /\ e.boundaries = q.boundaries
      /\ e.abortableTasks = q.abortableTasks /\ e.calls = q.calls
      /\ e.status = q.status /\ e.thrown = q.thrown
      /\ e.allPendingTasks = q.allPendingTasks
      /\ e.pendingRootTasks = q.pendingRootTasks
      /\ e.pingedTasks = q.pingedTasks
      /\ e.shellReady = q.shellReady /\ e.allReady = q.allReady
      /\ e.clientRenderedBoundaries = q.clientRenderedBoundaries
      /\ e.completedBoundaries = q.completedBoundaries
      /\ e.partialBoundaries = q.partialBoundaries
      /\ e.completedRootSegment = q.completedRootSegment
      /\ e.document = q.document
  BY ONLY <1>1, <1>3, <1>4 DEF RequestRecord
<1>6. Segs(e) = Segs(q) /\ Bounds(e) = Bounds(q) /\ \A set : Tasks(e, set) = Tasks(q, set)
  BY <1>4, <1>5 DEF Segs, Bounds, Tasks
<1>7. \A s \in Segs(q) :
        /\ e.segments[s].boundary = q.segments[s].boundary
        /\ e.segments[s].blockedBoundary = q.segments[s].blockedBoundary
        /\ e.segments[s].abortSet = q.segments[s].abortSet
        /\ e.segments[s].parentFlushed = q.segments[s].parentFlushed
        /\ e.segments[s].children \in {q.segments[s].children, <<>>}
        /\ s # t => e.segments[s].status = q.segments[s].status
  BY <1>4, <1>5
<1>8. e.segments[t].status # "PENDING"
  BY <1>4, <1>5
<1>9. Ended(q, e, t)
  BY <1>5, <1>6, <1>7, <1>8 DEF Ended
<1>. QED  BY <1>5, <1>6, <1>9

(* The segment s is complete.                                              *)
CompletedIn(q, s, empty) ==
  [q EXCEPT !.segments[s].status = "COMPLETED", !.segments[s].empty = empty]

LEMMA CompletedEnds ==
  ASSUME NEW q, NEW t \in Segs(q), Sound(q), NEW empty \in BOOLEAN
  PROVE  LET e == CompletedIn(q, t, empty)
         IN  /\ Ended(q, e, t) /\ e.calls = q.calls
             /\ \A set : Tasks(e, set) = Tasks(q, set)
<1>0. Sound(q) /\ t \in Segs(q)
  OBVIOUS
<1>. DEFINE e == CompletedIn(q, t, empty)
<1>. DEFINE segment == [[q.segments[t] EXCEPT !.status = "COMPLETED"] EXCEPT
                          !.empty = empty]
<1>1. q.segments[t] \in SegmentRecord
  BY Records
<1>2. /\ segment \in SegmentRecord /\ segment.boundary = q.segments[t].boundary
      /\ segment.blockedBoundary = q.segments[t].blockedBoundary
      /\ segment.abortSet = q.segments[t].abortSet
      /\ segment.parentFlushed = q.segments[t].parentFlushed
      /\ segment.children = q.segments[t].children
      /\ segment.status # "PENDING"
  BY <1>1 DEF SegmentRecord
<1>3. e = [q EXCEPT !.segments[t] = segment]
  <2>1. t \in DOMAIN q.segments /\ "segments" \in DOMAIN q
        /\ DOMAIN q.segments[t] = {"status", "id", "parentFlushed", "children",
                                   "empty", "boundary", "blockedBoundary",
                                   "abortSet"}
    BY <1>1 DEF Segs, SegmentRecord, Sound, RequestRecord
  <2>. QED  BY <2>1 DEF CompletedIn
<1>. HIDE DEF segment, e
<1>4. /\ Ended(q, e, t) /\ e.calls = q.calls
      /\ \A set : Tasks(e, set) = Tasks(q, set)
  BY <1>0, <1>2, <1>3, SegmentEnds
<1>. QED  BY <1>4 DEF e

(* A set without one of its tasks.                                         *)
Without(q, t, set) == SetTasks(q, set, Tasks(q, set) \ {t})

LEMMA TaskTaken ==
  ASSUME NEW q, NEW t, NEW set \in Sets(q), Sound(q), Homes(q), NEW y,
         y = Without(q, t, set)
  PROVE  /\ Sound(y) /\ y.segments = q.segments /\ y.calls = q.calls
         /\ Segs(y) = Segs(q) /\ Bounds(y) = Bounds(q) /\ Sets(y) = Sets(q)
         /\ Tasks(y, set) = Tasks(q, set) \ {t}
         /\ \A other \in Sets(q) : other # set => Tasks(y, other) = Tasks(q, other)
         /\ \A e : Ended(y, e, t) => Ended(q, e, t)
<1>1. Tasks(q, set) \ {t} \in SUBSET Nat
  BY Records DEF Homes
<1>2. /\ y \in RequestRecord /\ y.segments = q.segments
      /\ Segs(y) = Segs(q) /\ Bounds(y) = Bounds(q) /\ Sets(y) = Sets(q)
      /\ Tasks(y, set) = Tasks(q, set) \ {t}
      /\ \A other \in Sets(q) : other # set => Tasks(y, other) = Tasks(q, other)
      /\ \A b \in Bounds(q) :
           /\ y.boundaries[b].pendingTasks = q.boundaries[b].pendingTasks
           /\ y.boundaries[b].completedSegments = q.boundaries[b].completedSegments
      /\ y.status = q.status /\ y.thrown = q.thrown /\ y.calls = q.calls
      /\ y.allPendingTasks = q.allPendingTasks
      /\ y.pendingRootTasks = q.pendingRootTasks
      /\ y.pingedTasks = q.pingedTasks
      /\ y.shellReady = q.shellReady /\ y.allReady = q.allReady
      /\ y.clientRenderedBoundaries = q.clientRenderedBoundaries
      /\ y.completedBoundaries = q.completedBoundaries
      /\ y.partialBoundaries = q.partialBoundaries
      /\ y.completedRootSegment = q.completedRootSegment
      /\ y.document = q.document
  BY <1>1, SetTasksChange DEF Without
<1>0. Sound(q)
  OBVIOUS
<1>3. Sound(y)
  BY ONLY <1>0, <1>2 DEF Sound, Pointers
<1>4. ASSUME NEW e, Ended(y, e, t) PROVE Ended(q, e, t)
  <2>1. \A s \in Sets(q) : /\ Tasks(e, s) \subseteq Tasks(q, s)
                           /\ Tasks(q, s) \subseteq Tasks(e, s) \cup {t}
    BY <1>2, <1>4 DEF Ended
  <2>. QED  BY ONLY <1>2, <1>4, <2>1 DEF Ended
<1>. QED  BY <1>2, <1>3, <1>4

(* The end of a task, with no call to be made.                             *)
LEMMA TaskEnding ==
  ASSUME NEW q, NEW e, NEW t \in Live(q), NEW rank, QInv(q, rank), q.calls = <<>>,
         q.thrown = FALSE, Ended(q, e, t), e.calls = <<>>,
         t \notin Tasks(e, q.segments[t].abortSet)
  PROVE  Ending(e, rank, t) /\ Aged(q, e)
<1>1. Base(q, e.calls, rank) /\ Counts(q, e.calls, 0, 0) /\ Told(q) /\ Homes(q)
  BY DEF QInv, KInv, Shape, Base
<1>2. Sound(q) /\ Sets(e) = Sets(q) /\ DOMAIN <<>> = {}
  BY <1>1 DEF Base, Ended, Sets
<1>3. Cursors(e, e.calls)
  <2>1. ASSUME NEW set \in Sets(q), NEW s \in Tasks(e, set)
        PROVE  e.segments[s].status = "PENDING"
    <3>1. s \in Tasks(q, set) /\ s \in Segs(q) /\ q.segments[s].abortSet = set
      BY <1>1, <2>1 DEF Ended, Homes
    <3>2. s # t
      BY <2>1, <3>1
    <3>3. q.segments[s].status = "PENDING"
      BY <1>2, <2>1, <3>1 DEF QInv, KInv, Shape, Cursors
    <3>. QED  BY <3>1, <3>2, <3>3 DEF Ended
  <2>. QED  BY <1>2, <2>1 DEF Cursors
<1>4. \A b : After(e.calls, rank, b)
  BY <1>2 DEF After
<1>5. Ending(e, rank, t)
  BY <1>1, <1>3, <1>4, EndedEnding
<1>. QED  BY <1>2, <1>5, EndedAged

LEMMA CompleteTaskKeeps ==
  ASSUME IInv, CompleteTask PROVE IInv'
<1>1. PICK rank : QInv(request, rank)
  BY DEF IInv
<1>. DEFINE t == TheTask
<1>2. PICK empty \in Emptiness(t), room \in Rooms :
        Becomes(FinishedTask(
          [WithoutTask(Completed(t, empty), t) EXCEPT !.room = room], t))
  BY DEF CompleteTask
<1>. DEFINE q == request
            c == Completed(t, empty)
            set == c.segments[t].abortSet
            y == SetTasks(c, set, Tasks(c, set) \ {t})
            x == [y EXCEPT !.room = room]
<1>3. Becomes(FinishedTask(x, t))
  BY <1>2 DEF WithoutTask
<1>4. room \in Int /\ empty \in BOOLEAN
  <2>1. Emptiness(t) \subseteq BOOLEAN
    BY DEF Emptiness
  <2>2. room \in Int
    BY RoomsAssumption
  <2>. HIDE DEF t
  <2>. QED  BY <2>1, <2>2
<1>41. c = CompletedIn(q, t, empty) /\ set = c.segments[t].abortSet
  BY DEF Completed, CompletedIn
<1>42. y = Without(c, t, set)
  BY DEF Without
<1>43. x = [y EXCEPT !.room = room]
  OBVIOUS
<1>5. Sound(q) /\ Homes(q) /\ q.calls = <<>> /\ q.thrown = FALSE
      /\ Waiting(q, suspended) /\ t \in Live(q) /\ t \in Segs(q)
  <2>1. stack # <<>> /\ t = stack[1]
    BY DEF CompleteTask, TheTask
  <2>. QED  BY <1>1, <2>1 DEF QInv, KInv, Shape, IInv, Idle, Rendering, Live
<1>. HIDE DEF q, c, set, y, x, t
<1>6. Ended(q, c, t) /\ c.calls = q.calls /\ \A s : Tasks(c, s) = Tasks(q, s)
  BY <1>4, <1>41, <1>5, CompletedEnds
<1>7. Sound(c) /\ Homes(c) /\ set \in Sets(c) /\ set = q.segments[t].abortSet
  <2>1. Base(q, q.calls, rank)
    BY <1>1 DEF QInv, KInv, Shape, Base, q
  <2>2. Base(c, q.calls, rank)
    BY <1>5, <1>6, <2>1, EndedBase
  <2>3. Segs(c) = Segs(q) /\ Sound(c) /\ Homes(c)
    BY <1>6, <2>2 DEF Ended, Base
  <2>4. set = q.segments[t].abortSet
    BY <1>41, <1>5, <1>6 DEF Ended
  <2>5. set \in Sets(c)
    BY <1>41, <1>5, <2>3 DEF Sound, Pointers
  <2>. QED  BY <2>3, <2>4, <2>5
<1>8. /\ Sound(y) /\ y.segments = c.segments /\ y.calls = c.calls
      /\ Segs(y) = Segs(c) /\ Bounds(y) = Bounds(c) /\ Sets(y) = Sets(c)
      /\ Tasks(y, set) = Tasks(c, set) \ {t}
      /\ \A e : Ended(y, e, t) => Ended(c, e, t)
  BY <1>42, <1>7, TaskTaken
<1>9. Ended(y, x, t) /\ x.calls = y.calls /\ Tasks(x, set) = Tasks(y, set)
  <2>1. /\ x \in RequestRecord /\ x.segments = y.segments /\ x.boundaries = y.boundaries
        /\ x.abortableTasks = y.abortableTasks /\ x.calls = y.calls
        /\ x.status = y.status /\ x.thrown = y.thrown
        /\ x.allPendingTasks = y.allPendingTasks
        /\ x.pendingRootTasks = y.pendingRootTasks
        /\ x.pingedTasks = y.pingedTasks
        /\ x.shellReady = y.shellReady /\ x.allReady = y.allReady
        /\ x.clientRenderedBoundaries = y.clientRenderedBoundaries
        /\ x.completedBoundaries = y.completedBoundaries
        /\ x.partialBoundaries = y.partialBoundaries
        /\ x.completedRootSegment = y.completedRootSegment
        /\ x.document = y.document
    BY <1>4, <1>43, <1>8 DEF Sound, RequestRecord
  <2>2. Segs(x) = Segs(y) /\ Bounds(x) = Bounds(y) /\ \A s : Tasks(x, s) = Tasks(y, s)
    BY <2>1 DEF Segs, Bounds, Tasks
  <2>3. y.segments[t].status # "PENDING"
    BY <1>6, <1>8 DEF Ended
  <2>. QED  BY <2>1, <2>2, <2>3 DEF Ended
<1>10. Ended(q, x, t)
  <2>1. Ended(c, x, t)
    BY <1>8, <1>9
  <2>2. Sets(c) = Sets(q)
    BY <1>6 DEF Ended, Sets
  <2>. QED  BY <1>5, <1>6, <2>1, <2>2 DEF Ended
<1>11. Ending(x, rank, t) /\ Aged(q, x)
  <2>1. t \notin Tasks(x, q.segments[t].abortSet)
    BY <1>7, <1>8, <1>9
  <2>2. x.calls = <<>> /\ QInv(q, rank)
    BY <1>1, <1>5, <1>6, <1>8, <1>9 DEF q
  <2>. QED  BY <1>5, <1>10, <2>1, <2>2, TaskEnding
<1>12. QInv(FinishedTask(x, t), rank) /\ Aged(q, FinishedTask(x, t))
  BY <1>11, FinishedTaskKeeps, AgedTrans
<1>13. /\ Idle(request') /\ \E k : QInv(request', k)
       /\ Waiting(request', suspended)
  BY <1>3, <1>5, <1>12, Steps
<1>14. suspended' = suspended /\ stack' = <<>> /\ loop' = loop
  BY DEF CompleteTask, hostVars
<1>. QED  BY <1>13, <1>14, NothingRendered DEF IInv

(* The task that throws.                                                   *)
Childless(q, t) == [q EXCEPT !.segments[t].children = <<>>]
Errored(q, t) == [q EXCEPT !.segments[t].status = "ERRORED"]

LEMMA ErroredEnds ==
  ASSUME NEW q, NEW t \in Segs(q), Sound(q)
  PROVE  LET x == Childless(q, t)
             e == Errored(x, t)
         IN  /\ Ended(q, e, t) /\ e.calls = q.calls
             /\ \A set : Tasks(e, set) = Tasks(q, set)
             /\ e.segments[t].blockedBoundary = x.segments[t].blockedBoundary
<1>0. Sound(q) /\ t \in Segs(q)
  OBVIOUS
<1>. DEFINE none == <<>>
            x == Childless(q, t)
            e == Errored(x, t)
            segment == [[q.segments[t] EXCEPT !.children = none] EXCEPT
                          !.status = "ERRORED"]
<1>1. q.segments[t] \in SegmentRecord
  BY Records
<1>2. none \in Seq(Nat) /\ none = <<>>
  OBVIOUS
<1>3. x = [q EXCEPT !.segments[t].children = none]
  BY DEF Childless
<1>4. e = [x EXCEPT !.segments[t].status = "ERRORED"]
  BY DEF Errored
<1>. HIDE DEF none, x, e
<1>5. /\ segment \in SegmentRecord /\ segment.boundary = q.segments[t].boundary
      /\ segment.blockedBoundary = q.segments[t].blockedBoundary
      /\ segment.abortSet = q.segments[t].abortSet
      /\ segment.parentFlushed = q.segments[t].parentFlushed
      /\ segment.children \in {q.segments[t].children, <<>>}
      /\ segment.status # "PENDING"
  BY <1>1, <1>2 DEF SegmentRecord
<1>6. e = [q EXCEPT !.segments[t] = segment]
  <2>1. t \in DOMAIN q.segments /\ "segments" \in DOMAIN q
        /\ DOMAIN q.segments[t] = {"status", "id", "parentFlushed", "children",
                                   "empty", "boundary", "blockedBoundary",
                                   "abortSet"}
    BY <1>1 DEF Segs, SegmentRecord, Sound, RequestRecord
  <2>. QED  BY ONLY <1>3, <1>4, <2>1
<1>7. x.segments[t].blockedBoundary = q.segments[t].blockedBoundary
  <2>1. t \in DOMAIN q.segments /\ q \in RequestRecord
    BY DEF Segs, Sound
  <2>. QED  BY ONLY <1>1, <1>3, <2>1 DEF RequestRecord, SegmentRecord
<1>. HIDE DEF segment
<1>8. /\ Ended(q, e, t) /\ e.calls = q.calls
      /\ \A set : Tasks(e, set) = Tasks(q, set)
  BY <1>0, <1>5, <1>6, SegmentEnds
<1>9. e.segments[t].blockedBoundary = q.segments[t].blockedBoundary
  BY <1>0, <1>8 DEF Ended
<1>. QED  BY <1>7, <1>8, <1>9 DEF x, e

LEMMA TaskThrowsKeeps ==
  ASSUME IInv, TaskThrows PROVE IInv'
<1>1. PICK rank : QInv(request, rank)
  BY DEF IInv
<1>. DEFINE t == TheTask
<1>2. PICK room \in Rooms :
        Becomes(ErroredTask(
          [WithoutTask(WithRoom(room), t) EXCEPT !.segments[t].children = <<>>], t))
  BY DEF TaskThrows
<1>. DEFINE q == WithRoom(room)
            set == q.segments[t].abortSet
            y == Without(q, t, set)
            x == Childless(y, t)
            e == Errored(x, t)
<1>3. Becomes(ErroredTask(x, t))
  BY <1>2 DEF WithoutTask, Without, Childless
<1>4. room \in Nat /\ q = Roomed(request, room)
  BY RoomsAssumption DEF WithRoom, Roomed
<1>5. t \in Live(request)
  <2>1. stack # <<>> /\ t = stack[1]
    BY DEF TaskThrows, TheTask
  <2>. QED  BY <2>1 DEF IInv, Rendering
<1>6. set = q.segments[t].abortSet /\ y = Without(q, t, set)
  OBVIOUS
<1>7. e = [x EXCEPT !.segments[t].status = "ERRORED"]
  BY DEF Errored
<1>8. x = Childless(y, t) /\ e = Errored(x, t)
  OBVIOUS
<1>. HIDE DEF q, set, y, x, e, t
<1>9. /\ QInv(q, rank) /\ q.thrown = FALSE /\ q.calls = <<>>
      /\ Waiting(q, suspended) /\ t \in Live(q)
  <2>1. Idle(request) /\ Waiting(request, suspended)
    BY DEF IInv
  <2>2. /\ QInv(q, rank) /\ q.thrown = FALSE /\ q.calls = <<>>
        /\ Waiting(q, suspended)
    BY <1>1, <1>4, <2>1, WithRoomKeeps
  <2>3. Live(q) = Live(request)
    <3>1. q.segments = request.segments /\ q.boundaries = request.boundaries
          /\ q.abortableTasks = request.abortableTasks
      BY <1>1, <1>4 DEF Roomed, QInv, KInv, Shape, Sound, RequestRecord
    <3>. QED  BY <3>1 DEF Live, Segs, Tasks
  <2>. QED  BY <1>5, <2>2, <2>3
<1>10. Sound(q) /\ Homes(q) /\ t \in Segs(q) /\ set \in Sets(q)
  <2>1. Sound(q) /\ Homes(q) /\ t \in Segs(q)
    BY <1>9 DEF QInv, KInv, Shape, Live
  <2>. QED  BY <1>6, <2>1 DEF Sound, Pointers
<1>11. /\ Sound(y) /\ y.calls = q.calls /\ Segs(y) = Segs(q)
       /\ Tasks(y, set) = Tasks(q, set) \ {t}
       /\ \A o : Ended(y, o, t) => Ended(q, o, t)
  BY <1>6, <1>10, TaskTaken
<1>12. /\ Ended(y, e, t) /\ e.calls = y.calls /\ Tasks(e, set) = Tasks(y, set)
       /\ e.segments[t].blockedBoundary = x.segments[t].blockedBoundary
  BY <1>8, <1>10, <1>11, ErroredEnds
<1>13. Ended(q, e, t) /\ e.calls = <<>> /\ t \notin Tasks(e, q.segments[t].abortSet)
  BY <1>6, <1>9, <1>11, <1>12
<1>14. Ending(e, rank, t) /\ Aged(q, e)
  BY <1>9, <1>13, TaskEnding
<1>15. QInv(ErroredTask(x, t), rank) /\ Aged(e, ErroredTask(x, t))
  BY <1>7, <1>12, <1>14, ErroredTaskKeeps
<1>16. Aged(q, ErroredTask(x, t))
  BY <1>14, <1>15, AgedTrans
<1>17. /\ Idle(request') /\ \E k : QInv(request', k)
       /\ Waiting(request', suspended)
  BY <1>3, <1>9, <1>15, <1>16, Steps
<1>18. suspended' = suspended /\ stack' = <<>> /\ loop' = loop
  BY DEF TaskThrows, hostVars
<1>. QED  BY <1>17, <1>18, NothingRendered DEF IInv

-----------------------------------------------------------------------------
(* A task is created for a segment that has none.                          *)
Homeless(q, f) ==
  /\ f \in Segs(q) /\ q.segments[f].status = "PENDING"
  /\ f \notin Tasks(q, q.segments[f].abortSet)
  /\ q.allPendingTasks > 0
  /\ q.segments[f].blockedBoundary = 0 => q.pendingRootTasks > 0

(* What a task is counted for.                                             *)
CountedOn(q, b) ==
  LET counted == [q EXCEPT !.allPendingTasks = @ + 1]
  IN  IF b = 0 THEN [counted EXCEPT !.pendingRootTasks = @ + 1]
               ELSE [counted EXCEPT !.boundaries[b].pendingTasks = @ + 1]

LEMMA CountedOnFacts ==
  ASSUME NEW q, NEW b \in Sets(q), Sound(q)
  PROVE  LET m == CountedOn(q, b)
         IN  /\ Sound(m) /\ m.segments = q.segments /\ Bounds(m) = Bounds(q)
             /\ Segs(m) = Segs(q) /\ Sets(m) = Sets(q)
             /\ \A set \in Sets(q) : Tasks(m, set) = Tasks(q, set)
             /\ m.allPendingTasks = q.allPendingTasks + 1
             /\ m.pendingRootTasks = q.pendingRootTasks + (IF b = 0 THEN 1 ELSE 0)
             /\ \A c \in Bounds(q) : m.boundaries[c].pendingTasks
                  = q.boundaries[c].pendingTasks + (IF c = b THEN 1 ELSE 0)
             /\ m.status = q.status /\ m.thrown = q.thrown /\ m.calls = q.calls
             /\ m.pingedTasks = q.pingedTasks /\ m.room = q.room
             /\ m.shellReady = q.shellReady /\ m.allReady = q.allReady
             /\ m.completedRootSegment = q.completedRootSegment
             /\ m.document = q.document
<1>. DEFINE n == q.allPendingTasks + 1
            k == q.pendingRootTasks + 1
            o == [q EXCEPT !.allPendingTasks = n]
            m == CountedOn(q, b)
<1>0. q \in RequestRecord
  BY DEF Sound
<1>00. q.allPendingTasks \in Int /\ q.pendingRootTasks \in Int
  BY ONLY <1>0 DEF RequestRecord
<1>1. q \in RequestRecord /\ n \in Int /\ k \in Int
  BY ONLY <1>0, <1>00
<1>2. o = [q EXCEPT !.allPendingTasks = n]
  OBVIOUS
<1>3. m = IF b = 0 THEN [o EXCEPT !.pendingRootTasks = o.pendingRootTasks + 1]
          ELSE [o EXCEPT !.boundaries[b].pendingTasks = @ + 1]
  BY DEF CountedOn
<1>. HIDE DEF n, o, m
<1>4. /\ o \in RequestRecord /\ o.segments = q.segments /\ o.boundaries = q.boundaries
      /\ o.abortableTasks = q.abortableTasks /\ o.allPendingTasks = n
      /\ o.pendingRootTasks = q.pendingRootTasks
      /\ o.status = q.status /\ o.thrown = q.thrown /\ o.calls = q.calls
      /\ o.pingedTasks = q.pingedTasks /\ o.room = q.room
      /\ o.shellReady = q.shellReady /\ o.allReady = q.allReady
      /\ o.clientRenderedBoundaries = q.clientRenderedBoundaries
      /\ o.completedBoundaries = q.completedBoundaries
      /\ o.partialBoundaries = q.partialBoundaries
      /\ o.completedRootSegment = q.completedRootSegment
      /\ o.document = q.document
  BY ONLY <1>1, <1>2 DEF RequestRecord
<1>. DEFINE Rest == /\ m \in RequestRecord /\ m.segments = q.segments
                    /\ m.abortableTasks = q.abortableTasks /\ m.allPendingTasks = n
                    /\ m.status = q.status /\ m.thrown = q.thrown /\ m.calls = q.calls
                    /\ m.pingedTasks = q.pingedTasks /\ m.room = q.room
                    /\ m.shellReady = q.shellReady /\ m.allReady = q.allReady
                    /\ m.clientRenderedBoundaries = q.clientRenderedBoundaries
                    /\ m.completedBoundaries = q.completedBoundaries
                    /\ m.partialBoundaries = q.partialBoundaries
                    /\ m.completedRootSegment = q.completedRootSegment
                    /\ m.document = q.document
            Others == \A c \in Bounds(q) :
                        /\ m.boundaries[c].completedSegments
                             = q.boundaries[c].completedSegments
                        /\ m.boundaries[c].fallbackAbortableTasks
                             = q.boundaries[c].fallbackAbortableTasks
<1>5. /\ Rest /\ Others /\ Bounds(m) = Bounds(q)
      /\ m.pendingRootTasks = q.pendingRootTasks + (IF b = 0 THEN 1 ELSE 0)
      /\ \A c \in Bounds(q) : m.boundaries[c].pendingTasks
           = q.boundaries[c].pendingTasks + (IF c = b THEN 1 ELSE 0)
  <2>0. \A c \in Bounds(q) : c \in Nat \ {0} /\ q.boundaries[c] \in BoundaryRecord
    BY Records
  <2>00. \A c \in Bounds(q) : q.boundaries[c].pendingTasks \in Int
    BY <2>0 DEF BoundaryRecord
  <2>1. CASE b = 0
    <3>1. m = [o EXCEPT !.pendingRootTasks = k]
      BY <1>3, <1>4, <2>1
    <3>. HIDE DEF k
    <3>2. Rest /\ m.boundaries = q.boundaries /\ m.pendingRootTasks = k
      BY ONLY <1>1, <1>4, <3>1 DEF RequestRecord
    <3>3. Bounds(m) = Bounds(q) /\ Others
      BY <3>2 DEF Bounds
    <3>4. m.pendingRootTasks = q.pendingRootTasks + (IF b = 0 THEN 1 ELSE 0)
      BY <2>1, <3>2 DEF k
    <3>5. \A c \in Bounds(q) : m.boundaries[c].pendingTasks
            = q.boundaries[c].pendingTasks + (IF c = b THEN 1 ELSE 0)
      BY <2>0, <2>00, <2>1, <3>2
    <3>. QED  BY <3>2, <3>3, <3>4, <3>5
  <2>2. CASE b # 0
    <3>. DEFINE count == q.boundaries[b].pendingTasks + 1
                boundary == [q.boundaries[b] EXCEPT !.pendingTasks = count]
                boundaries == [q.boundaries EXCEPT ![b] = boundary]
    <3>0. b \in Bounds(q)
      BY <2>2 DEF Sets
    <3>1. q.boundaries[b] \in BoundaryRecord /\ count \in Int
      BY <2>0, <2>00, <3>0
    <3>2. m = [o EXCEPT !.boundaries = boundaries]
      BY <1>3, <1>4, <2>2
    <3>. HIDE DEF count
    <3>3. /\ boundary \in BoundaryRecord /\ boundary.pendingTasks = count
          /\ boundary.completedSegments = q.boundaries[b].completedSegments
          /\ boundary.fallbackAbortableTasks = q.boundaries[b].fallbackAbortableTasks
      BY <3>1 DEF BoundaryRecord
    <3>. HIDE DEF boundary
    <3>4. /\ boundaries \in Seq(BoundaryRecord) /\ DOMAIN boundaries = Bounds(q)
          /\ \A c \in Bounds(q) :
               boundaries[c] = IF c = b THEN boundary ELSE q.boundaries[c]
      <4>1. q.boundaries \in Seq(BoundaryRecord)
        BY <1>1 DEF RequestRecord
      <4>2. b \in 1..Len(q.boundaries)
        BY <3>0, <4>1, LenProperties DEF Bounds
      <4>3. boundaries \in Seq(BoundaryRecord)
        BY <3>3, <4>1, <4>2, ExceptSeq
      <4>. QED  BY <4>3 DEF Bounds
    <3>. HIDE DEF boundaries
    <3>5. Rest /\ m.boundaries = boundaries /\ m.pendingRootTasks = q.pendingRootTasks
      BY ONLY <1>4, <3>2, <3>4 DEF RequestRecord
    <3>6. Bounds(m) = Bounds(q) /\ Others
      BY <3>3, <3>4, <3>5 DEF Bounds
    <3>7. m.pendingRootTasks = q.pendingRootTasks + (IF b = 0 THEN 1 ELSE 0)
      BY <1>1, <2>2, <3>5 DEF RequestRecord
    <3>8. \A c \in Bounds(q) : m.boundaries[c].pendingTasks
            = q.boundaries[c].pendingTasks + (IF c = b THEN 1 ELSE 0)
      BY <2>00, <3>3, <3>4, <3>5 DEF count
    <3>. QED  BY <3>5, <3>6, <3>7, <3>8
  <2>. QED  BY <2>1, <2>2
<1>6. /\ Segs(m) = Segs(q) /\ Sets(m) = Sets(q)
      /\ \A set \in Sets(q) : Tasks(m, set) = Tasks(q, set)
  BY <1>5 DEF Segs, Sets, Tasks
<1>7. Sound(m)
  BY <1>5, <1>6 DEF Sound, Pointers
<1>. QED  BY <1>5, <1>6, <1>7 DEF m, n

LEMMA CreateTaskKeeps ==
  ASSUME NEW q, NEW rank, NEW f, KInv(q, <<>>, rank), Homeless(q, f)
  PROVE  LET p == CreateRenderTask(q, f)
             set == q.segments[f].abortSet
         IN  /\ KInv(p, <<>>, rank) /\ Live(p) = Live(q) \cup {f}
             /\ Tasks(p, set) = Tasks(q, set) \cup {f}
             /\ \A other \in Sets(q) : other # set => Tasks(p, other) = Tasks(q, other)
             /\ p.segments = q.segments /\ Segs(p) = Segs(q) /\ Bounds(p) = Bounds(q)
             /\ p.pingedTasks = q.pingedTasks /\ p.thrown = q.thrown
             /\ p.calls = q.calls /\ p.room = q.room
<1>. DEFINE b == q.segments[f].blockedBoundary
            set == q.segments[f].abortSet
            m == CountedOn(q, b)
            tasks == Tasks(q, set) \cup {f}
            p == CreateRenderTask(q, f)
<1>1. /\ Sound(q) /\ Ranked(q, rank) /\ Homes(q) /\ Cursors(q, <<>>)
      /\ Counts(q, <<>>, 0, 0) /\ Told(q) /\ Roots(q, <<>>)
      /\ Nested(<<>>, rank) /\ Caughts(q.thrown, <<>>)
  BY DEF KInv, Shape
<1>2. f \in Segs(q) /\ b \in Sets(q) /\ set \in Sets(q) /\ f \in Nat
      /\ \A c \in Sets(q) : c \in Nat
  BY <1>1, Records DEF Homeless, Sound, Pointers
<1>3. p = SetTasks(m, set, tasks)
  BY DEF CreateRenderTask, CountedOn
<1>4. /\ Sound(m) /\ m.segments = q.segments /\ Bounds(m) = Bounds(q)
      /\ Segs(m) = Segs(q) /\ Sets(m) = Sets(q)
      /\ \A c \in Sets(q) : Tasks(m, c) = Tasks(q, c)
      /\ m.allPendingTasks = q.allPendingTasks + 1
      /\ m.pendingRootTasks = q.pendingRootTasks + (IF b = 0 THEN 1 ELSE 0)
      /\ \A c \in Bounds(q) : m.boundaries[c].pendingTasks
           = q.boundaries[c].pendingTasks + (IF c = b THEN 1 ELSE 0)
      /\ m.status = q.status /\ m.thrown = q.thrown /\ m.calls = q.calls
      /\ m.pingedTasks = q.pingedTasks /\ m.room = q.room
      /\ m.shellReady = q.shellReady /\ m.allReady = q.allReady
      /\ m.completedRootSegment = q.completedRootSegment
      /\ m.document = q.document
  BY <1>1, <1>2, CountedOnFacts
<1>5. tasks \in SUBSET Nat
  BY <1>1, <1>2, Records DEF Homes
<1>6. tasks = Tasks(q, set) \cup {f}
  OBVIOUS
<1>. HIDE DEF b, set, m, tasks, p
<1>7. /\ p \in RequestRecord /\ p.segments = m.segments
      /\ Segs(p) = Segs(m) /\ Bounds(p) = Bounds(m) /\ Sets(p) = Sets(m)
      /\ Tasks(p, set) = tasks
      /\ \A other \in Sets(m) : other # set => Tasks(p, other) = Tasks(m, other)
      /\ \A c \in Bounds(m) :
           /\ p.boundaries[c].pendingTasks = m.boundaries[c].pendingTasks
           /\ p.boundaries[c].completedSegments = m.boundaries[c].completedSegments
      /\ p.status = m.status /\ p.thrown = m.thrown /\ p.calls = m.calls
      /\ p.allPendingTasks = m.allPendingTasks
      /\ p.pendingRootTasks = m.pendingRootTasks
      /\ p.pingedTasks = m.pingedTasks
      /\ p.shellReady = m.shellReady /\ p.allReady = m.allReady
      /\ p.clientRenderedBoundaries = m.clientRenderedBoundaries
      /\ p.completedBoundaries = m.completedBoundaries
      /\ p.partialBoundaries = m.partialBoundaries
      /\ p.completedRootSegment = m.completedRootSegment
      /\ p.document = m.document
  BY <1>2, <1>3, <1>4, <1>5, SetTasksChange
<1>8. p.room = m.room
  BY <1>3, <1>4 DEF SetTasks, Sound, RequestRecord
<1>9. /\ p.segments = q.segments /\ Segs(p) = Segs(q) /\ Bounds(p) = Bounds(q)
      /\ Sets(p) = Sets(q) /\ Tasks(p, set) = Tasks(q, set) \cup {f}
      /\ \A other \in Sets(q) : other # set => Tasks(p, other) = Tasks(q, other)
  BY <1>4, <1>6, <1>7
<1>10. Sound(p)
  BY <1>4, <1>7 DEF Sound, Pointers
<1>11. Ranked(p, rank) /\ Homes(p)
  <2>1. Ranked(p, rank)
    BY ONLY <1>1, <1>9 DEF Ranked
  <2>2. ASSUME NEW c \in Sets(p), NEW t \in Tasks(p, c)
        PROVE  t \in Segs(p) /\ p.segments[t].abortSet = c
    <3>1. CASE c = set
      BY ONLY <1>1, <1>2, <1>9, <2>2, <3>1 DEF Homes, set
    <3>2. CASE c # set
      BY ONLY <1>1, <1>9, <2>2, <3>2 DEF Homes
    <3>. QED  BY <3>1, <3>2
  <2>. QED  BY <2>1, <2>2 DEF Homes
<1>12. Cursors(p, <<>>) /\ CallsOK(p, <<>>)
  <2>1. DOMAIN <<>> = {}
    OBVIOUS
  <2>. QED  BY <1>1, <1>9, <2>1 DEF Cursors, CallsOK, Homeless
<1>13. Live(p) = Live(q) \cup {f} /\ f \notin Live(q)
       /\ \A c : LiveOf(p, c) = IF c = b THEN LiveOf(q, c) \cup {f} ELSE LiveOf(q, c)
  <2>1. Live(p) = Live(q) \cup {f}
    BY <1>1, <1>2, <1>9 DEF Live, Homeless, Sound, Pointers, set
  <2>2. f \notin Live(q)
    BY DEF Live, Homeless
  <2>. QED  BY <1>9, <2>1, <2>2 DEF LiveOf, b
<1>14. /\ Cardinality(Live(p)) = Cardinality(Live(q)) + 1
       /\ \A c : Cardinality(LiveOf(p, c))
            = Cardinality(LiveOf(q, c)) + (IF c = b THEN 1 ELSE 0)
       /\ Cardinality(Live(q)) \in Nat /\ \A c : Cardinality(LiveOf(q, c)) \in Nat
  <2>1. /\ IsFiniteSet(Live(q)) /\ Cardinality(Live(q)) \in Nat
        /\ \A c : IsFiniteSet(LiveOf(q, c)) /\ Cardinality(LiveOf(q, c)) \in Nat
    BY <1>1, LiveFinite
  <2>2. \A c : f \notin LiveOf(q, c)
    BY <1>13 DEF LiveOf
  <2>3. Cardinality(Live(p)) = Cardinality(Live(q)) + 1
    BY <1>13, <2>1, FS_AddElement
  <2>4. ASSUME NEW c
        PROVE  Cardinality(LiveOf(p, c))
                 = Cardinality(LiveOf(q, c)) + (IF c = b THEN 1 ELSE 0)
    <3>1. Cardinality(LiveOf(q, c) \cup {f}) = Cardinality(LiveOf(q, c)) + 1
      BY <2>1, <2>2, FS_AddElement
    <3>2. Cardinality(LiveOf(q, c)) \in Nat
      BY <2>1
    <3>3. CASE c = b
      <4>1. LiveOf(p, c) = LiveOf(q, c) \cup {f}
        BY <1>13, <3>3
      <4>. QED  BY <3>1, <3>3, <4>1
    <3>4. CASE c # b
      <4>1. LiveOf(p, c) = LiveOf(q, c)
        BY <1>13, <3>4
      <4>. QED  BY ONLY <3>2, <3>4, <4>1
    <3>. QED  BY <3>3, <3>4
  <2>. QED  BY <2>1, <2>3, <2>4
<1>15. LessCalls(<<>>) \in Nat
  <2>1. <<>> \in Seq(CallRecord)
    OBVIOUS
  <2>. QED  BY <2>1, LessCallsNat
<1>16. Counts(p, <<>>, 0, 0)
  <2>1. ASSUME NEW c \in Bounds(p)
        PROVE  p.boundaries[c].pendingTasks
                 = Cardinality(LiveOf(p, c)) + (IF c = 0 THEN 0 ELSE 0)
    <3>1. q.boundaries[c].pendingTasks
            = Cardinality(LiveOf(q, c)) + (IF c = 0 THEN 0 ELSE 0)
      BY <1>1, <1>9, <2>1 DEF Counts
    <3>2. p.boundaries[c].pendingTasks
            = q.boundaries[c].pendingTasks + (IF c = b THEN 1 ELSE 0)
      BY <1>4, <1>7, <1>9, <2>1
    <3>. QED  BY <1>14, <3>1, <3>2
  <2>2. /\ q.allPendingTasks >= Cardinality(Live(q)) + LessCalls(<<>>) + 0
        /\ q.pendingRootTasks >= Cardinality(LiveOf(q, 0)) + (IF 0 = 0 THEN 0 ELSE 0)
        /\ q.status = "OPEN" =>
             /\ q.allPendingTasks = Cardinality(Live(q)) + LessCalls(<<>>) + 0
             /\ q.pendingRootTasks
                  = Cardinality(LiveOf(q, 0)) + (IF 0 = 0 THEN 0 ELSE 0)
    BY <1>1 DEF Counts
  <2>3. /\ p.allPendingTasks = q.allPendingTasks + 1 /\ p.status = q.status
        /\ p.pendingRootTasks = q.pendingRootTasks + (IF 0 = b THEN 1 ELSE 0)
        /\ q.allPendingTasks \in Int /\ q.pendingRootTasks \in Int
    BY <1>1, <1>4, <1>7 DEF Sound, RequestRecord
  <2>4. /\ p.allPendingTasks >= Cardinality(Live(p)) + LessCalls(<<>>) + 0
        /\ p.status = "OPEN" =>
             p.allPendingTasks = Cardinality(Live(p)) + LessCalls(<<>>) + 0
    BY <1>14, <1>15, <2>2, <2>3
  <2>5. /\ p.pendingRootTasks >= Cardinality(LiveOf(p, 0)) + (IF 0 = 0 THEN 0 ELSE 0)
        /\ p.status = "OPEN" => p.pendingRootTasks
             = Cardinality(LiveOf(p, 0)) + (IF 0 = 0 THEN 0 ELSE 0)
    BY <1>14, <2>2, <2>3
  <2>. QED  BY <2>1, <2>4, <2>5 DEF Counts
<1>17. Told(p)
  <2>1. q.allPendingTasks > 0 /\ q.allPendingTasks \in Int /\ q.pendingRootTasks \in Int
        /\ (b = 0 => q.pendingRootTasks > 0)
    BY <1>1 DEF Homeless, Sound, RequestRecord, b
  <2>2. /\ p.allPendingTasks = q.allPendingTasks + 1
        /\ p.pendingRootTasks = q.pendingRootTasks + (IF b = 0 THEN 1 ELSE 0)
        /\ p.allReady = q.allReady /\ p.shellReady = q.shellReady
    BY <1>4, <1>7
  <2>. QED  BY <1>1, <2>1, <2>2 DEF Told
<1>18. Roots(p, <<>>)
  <2>1. p.pendingRootTasks > 0 => q.pendingRootTasks > 0
    <3>1. q.pendingRootTasks \in Int /\ (b = 0 => q.pendingRootTasks > 0)
      BY <1>1 DEF Homeless, Sound, RequestRecord, b
    <3>2. p.pendingRootTasks = q.pendingRootTasks + (IF b = 0 THEN 1 ELSE 0)
      BY <1>4, <1>7
    <3>. QED  BY <3>1, <3>2
  <2>. QED  BY <1>1, <1>4, <1>7, <1>9, <2>1 DEF Roots
<1>19. KInv(p, <<>>, rank)
  <2>1. p.thrown = q.thrown
    BY <1>4, <1>7
  <2>. QED  BY <1>1, <1>10, <1>11, <1>12, <1>16, <1>17, <1>18, <2>1
            DEF KInv, Shape
<1>. QED  BY <1>4, <1>7, <1>8, <1>9, <1>13, <1>19 DEF p, set

-----------------------------------------------------------------------------
(* What is rendered stays so: segment done is not pending any more, and f  *)
(* becomes a task.                                                         *)
Stays(q, p, f, done) ==
  /\ \A t \in Segs(q) :
       /\ t \in Segs(p)
       /\ p.segments[t].boundary = q.segments[t].boundary
       /\ p.segments[t].blockedBoundary = q.segments[t].blockedBoundary
       /\ p.segments[t].abortSet = q.segments[t].abortSet
       /\ q.segments[t].status = "PENDING" /\ t # done
            => p.segments[t].status = "PENDING"
  /\ \A set \in Sets(q) : /\ Tasks(q, set) \subseteq Tasks(p, set)
                          /\ Tasks(p, set) \subseteq Tasks(q, set) \cup {f}

LEMMA StaysLive ==
  ASSUME NEW q, NEW p, NEW f, NEW done, Stays(q, p, f, done), Sound(q),
         NEW t \in Live(q), t # done
  PROVE  t \in Live(p)
<1>1. t \in Segs(q) /\ q.segments[t].status = "PENDING"
      /\ q.segments[t].abortSet \in Sets(q) /\ t \in Tasks(q, q.segments[t].abortSet)
  BY DEF Live, Sound, Pointers
<1>. QED  BY <1>1 DEF Stays, Live

LEMMA RenderingKept ==
  ASSUME NEW q, NEW p, NEW f, NEW done, NEW st, NEW k \in 0..Len(st),
         Rendering(q, st), Sound(q), Stays(q, p, f, done),
         \A i \in 1..k : /\ st[i] # done
                         /\ i > 1 => st[i] # f /\ st[i] - 1 # f /\ st[i] - 1 # done
  PROVE  Rendering(p, SubSeq(st, 1, k))
<1>. DEFINE sub == SubSeq(st, 1, k)
<1>1. st \in Seq(Nat) /\ Len(st) \in Nat /\ DOMAIN st = 1..Len(st)
  BY LenProperties DEF Rendering
<1>2. /\ sub \in Seq(Nat) /\ DOMAIN sub = 1..k /\ \A i \in 1..k : sub[i] = st[i]
      /\ 1..k \subseteq DOMAIN st /\ k \in Nat
  BY <1>1
<1>. HIDE DEF sub
<1>3. ASSUME sub # <<>> PROVE 1 \in 1..k /\ sub[1] \in Live(p)
  <2>1. 1 \in 1..k
    BY <1>2, <1>3
  <2>2. st[1] \in Live(q) /\ st[1] # done
    BY <1>1, <1>2, <2>1 DEF Rendering
  <2>. QED  BY <1>2, <2>1, <2>2, StaysLive
<1>4. ASSUME NEW i \in DOMAIN sub
      PROVE  /\ sub[i] \in Segs(p) /\ p.segments[sub[i]].status = "PENDING"
             /\ p.segments[sub[i]].abortSet = p.segments[sub[1]].abortSet
             /\ i > 1 => Content(p, sub[1], sub[i - 1], sub[i])
  <2>1. i \in 1..k /\ i \in DOMAIN st /\ 1 \in 1..k /\ 1 \in DOMAIN st
    BY <1>2
  <2>2. sub[i] = st[i] /\ sub[1] = st[1]
    BY <1>2, <2>1
  <2>3. st[i] \in Segs(q) /\ st[1] \in Segs(q) /\ q.segments[st[i]].status = "PENDING"
        /\ q.segments[st[i]].abortSet = q.segments[st[1]].abortSet
    BY <2>1 DEF Rendering
  <2>4. ASSUME i > 1 PROVE Content(p, sub[1], sub[i - 1], sub[i])
    <3>1. i - 1 \in 1..k /\ i - 1 \in DOMAIN st
      BY <1>2, <2>1, <2>4
    <3>2. sub[i - 1] = st[i - 1] /\ st[i - 1] \in Segs(q)
      BY <1>2, <3>1 DEF Rendering
    <3>3. Content(q, st[1], st[i - 1], st[i])
      BY <2>1, <2>4 DEF Rendering
    <3>4. st[i] # done /\ st[i] # f /\ st[i] - 1 # f /\ st[i] - 1 # done
      BY <2>1, <2>4
    <3>5. /\ q.segments[st[i]].abortSet \in Sets(q)
          /\ q.segments[st[i]].blockedBoundary \in Sets(q)
      BY <2>3 DEF Sound, Pointers
    <3>6. Content(p, st[1], st[i - 1], st[i])
      BY <2>3, <3>2, <3>3, <3>4, <3>5 DEF Content, Stays
    <3>. QED  BY <2>2, <3>2, <3>6
  <2>. QED  BY <2>1, <2>2, <2>3, <2>4 DEF Stays
<1>5. \A i, j \in DOMAIN sub : sub[i] = sub[j] => i = j
  BY <1>2 DEF Rendering
<1>6. Rendering(p, sub)
  BY <1>2, <1>3, <1>4, <1>5 DEF Rendering
<1>. QED  BY <1>6 DEF sub

(* A boundary's content is entered.                                        *)
LEMMA RenderingMore ==
  ASSUME NEW q, NEW st, Rendering(q, st), st # <<>>, NEW s \in Segs(q), s \in Nat,
         q.segments[s].status = "PENDING",
         q.segments[s].abortSet = q.segments[st[1]].abortSet,
         Content(q, st[1], st[Len(st)], s), \A i \in DOMAIN st : st[i] # s
  PROVE  Rendering(q, Append(st, s))
<1>. DEFINE more == Append(st, s)
<1>1. st \in Seq(Nat) /\ Len(st) \in Nat /\ Len(st) >= 1 /\ DOMAIN st = 1..Len(st)
  BY LenProperties DEF Rendering
<1>2. /\ more \in Seq(Nat) /\ DOMAIN more = 1..(Len(st) + 1) /\ more # <<>>
      /\ \A i \in 1..Len(st) : more[i] = st[i] /\ more[Len(st) + 1] = s
  BY <1>1
<1>3. more[1] = st[1] /\ more[Len(st) + 1] = s /\ more[Len(st)] = st[Len(st)]
  BY <1>1, <1>2
<1>. HIDE DEF more
<1>4. ASSUME NEW i \in DOMAIN more
      PROVE  /\ more[i] \in Segs(q) /\ q.segments[more[i]].status = "PENDING"
             /\ q.segments[more[i]].abortSet = q.segments[more[1]].abortSet
             /\ i > 1 => Content(q, more[1], more[i - 1], more[i])
  <2>1. CASE i = Len(st) + 1
    <3>1. i - 1 = Len(st) /\ more[i] = s
      BY <1>1, <1>3, <2>1
    <3>. QED  BY <1>3, <3>1
  <2>2. CASE i # Len(st) + 1
    <3>1. i \in DOMAIN st /\ more[i] = st[i] /\ (i > 1 => i - 1 \in 1..Len(st))
      BY <1>1, <1>2, <2>2
    <3>2. i > 1 => more[i - 1] = st[i - 1]
      BY <1>2, <3>1
    <3>. QED  BY <1>3, <3>1, <3>2 DEF Rendering
  <2>. QED  BY <2>1, <2>2
<1>5. \A i, j \in DOMAIN more : more[i] = more[j] => i = j
  <2>1. \A i \in DOMAIN more : \/ i \in DOMAIN st /\ more[i] = st[i]
                               \/ i = Len(st) + 1 /\ more[i] = s
    BY <1>1, <1>2, <1>3
  <2>. QED  BY <2>1 DEF Rendering
<1>6. Rendering(q, more)
  BY <1>1, <1>2, <1>3, <1>4, <1>5 DEF Rendering
<1>. QED  BY <1>6 DEF more

(* While a task is live, not all is ready.                                 *)
LEMMA TaskPending ==
  ASSUME NEW q, NEW rank, KInv(q, <<>>, rank), NEW t \in Live(q)
  PROVE  /\ q.allPendingTasks > 0
         /\ q.segments[t].blockedBoundary = 0 => q.pendingRootTasks > 0
<1>1. Sound(q) /\ q.allPendingTasks \in Int /\ q.pendingRootTasks \in Int
  BY DEF KInv, Shape, Sound, RequestRecord
<1>2. LessCalls(<<>>) \in Nat
  <2>1. <<>> \in Seq(CallRecord)
    OBVIOUS
  <2>. QED  BY <2>1, LessCallsNat
<1>3. /\ IsFiniteSet(Live(q)) /\ Cardinality(Live(q)) \in Nat
      /\ IsFiniteSet(LiveOf(q, 0)) /\ Cardinality(LiveOf(q, 0)) \in Nat
  BY <1>1, LiveFinite
<1>4. Cardinality(Live(q)) > 0
  BY <1>3, FS_EmptySet
<1>5. q.segments[t].blockedBoundary = 0 => Cardinality(LiveOf(q, 0)) > 0
  <2>1. q.segments[t].blockedBoundary = 0 => t \in LiveOf(q, 0)
    BY DEF LiveOf
  <2>. QED  BY <1>3, <2>1, FS_EmptySet
<1>6. /\ q.allPendingTasks >= Cardinality(Live(q)) + LessCalls(<<>>) + 0
      /\ q.pendingRootTasks >= Cardinality(LiveOf(q, 0)) + (IF 0 = 0 THEN 0 ELSE 0)
  BY DEF KInv, Counts
<1>. QED  BY <1>1, <1>2, <1>3, <1>4, <1>5, <1>6

-----------------------------------------------------------------------------
(* There are segments and boundaries more, and no task.                    *)
Grown(q, p) ==
  /\ Sound(p) /\ Segs(q) \subseteq Segs(p) /\ Bounds(q) \subseteq Bounds(p)
  /\ \A t \in Segs(q) :
       /\ p.segments[t].status = q.segments[t].status
       /\ p.segments[t].boundary = q.segments[t].boundary
       /\ p.segments[t].blockedBoundary = q.segments[t].blockedBoundary
       /\ p.segments[t].abortSet = q.segments[t].abortSet
       /\ p.segments[t].parentFlushed = q.segments[t].parentFlushed
  /\ \A t \in Segs(p) \ Segs(q) :
       p.segments[t].blockedBoundary = 0 => ~p.segments[t].parentFlushed
  /\ \A b \in Bounds(q) : p.boundaries[b].pendingTasks = q.boundaries[b].pendingTasks
  /\ \A set \in Sets(q) : Tasks(p, set) = Tasks(q, set)
  /\ \A b \in Bounds(p) \ Bounds(q) :
       p.boundaries[b].pendingTasks = 0 /\ Tasks(p, b) = {}
  /\ p.status = q.status /\ p.thrown = q.thrown
  /\ p.allPendingTasks = q.allPendingTasks
  /\ p.pendingRootTasks = q.pendingRootTasks
  /\ p.shellReady = q.shellReady /\ p.allReady = q.allReady
  /\ p.completedRootSegment = q.completedRootSegment
  /\ p.document = q.document

LEMMA GrownKeeps ==
  ASSUME NEW q, NEW p, NEW rank, NEW more, KInv(q, <<>>, rank), Grown(q, p),
         Ranked(p, more)
  PROVE  /\ KInv(p, <<>>, more) /\ Live(p) = Live(q)
         /\ \A f, done : Stays(q, p, f, done)
<1>1. /\ Sound(q) /\ Homes(q) /\ Cursors(q, <<>>) /\ Counts(q, <<>>, 0, 0)
      /\ Told(q) /\ Roots(q, <<>>) /\ Caughts(q.thrown, <<>>) /\ Sound(p)
  BY DEF KInv, Shape, Grown
<1>2. DOMAIN <<>> = {}
  OBVIOUS
<1>3. ASSUME NEW set \in Sets(p), NEW t \in Tasks(p, set)
      PROVE  set \in Sets(q) /\ t \in Tasks(q, set) /\ t \in Segs(q)
             /\ p.segments[t].abortSet = set /\ p.segments[t].status = "PENDING"
  <2>1. set \in Sets(q) /\ t \in Tasks(q, set)
    BY <1>3 DEF Grown, Sets
  <2>2. t \in Segs(q) /\ q.segments[t].abortSet = set
    BY <1>1, <2>1 DEF Homes
  <2>3. q.segments[t].status = "PENDING"
    BY <1>1, <1>2, <2>1 DEF Cursors
  <2>. QED  BY <2>1, <2>2, <2>3 DEF Grown
<1>4. Homes(p) /\ Cursors(p, <<>>)
  BY <1>2, <1>3 DEF Homes, Cursors, Grown
<1>5. CallsOK(p, <<>>) /\ Nested(<<>>, more) /\ Caughts(p.thrown, <<>>)
  BY <1>1, <1>2 DEF CallsOK, Nested, Grown
<1>6. Roots(p, <<>>)
  BY <1>1, <1>2 DEF Roots, Grown
<1>7. Live(p) = Live(q)
  <2>1. ASSUME NEW t \in Live(p) PROVE t \in Live(q)
    <3>1. t \in Segs(p) /\ p.segments[t].abortSet \in Sets(p)
          /\ t \in Tasks(p, p.segments[t].abortSet)
          /\ p.segments[t].status = "PENDING"
      BY <1>1 DEF Live, Sound, Pointers
    <3>2. t \in Segs(q) /\ t \in Tasks(q, p.segments[t].abortSet)
      BY <1>3, <3>1
    <3>. QED  BY <3>1, <3>2 DEF Live, Grown
  <2>2. ASSUME NEW t \in Live(q) PROVE t \in Live(p)
    <3>1. t \in Segs(q) /\ q.segments[t].abortSet \in Sets(q)
          /\ t \in Tasks(q, q.segments[t].abortSet)
          /\ q.segments[t].status = "PENDING"
      BY <1>1 DEF Live, Sound, Pointers
    <3>. QED  BY <3>1 DEF Live, Grown
  <2>. QED  BY <2>1, <2>2
<1>8. \A b : LiveOf(p, b) = LiveOf(q, b)
  <2>1. \A t \in Live(q) : p.segments[t].blockedBoundary = q.segments[t].blockedBoundary
    BY DEF Live, Grown
  <2>. QED  BY <1>7, <2>1 DEF LiveOf
<1>9. \A b \in Bounds(p) \ Bounds(q) : b # 0 /\ LiveOf(q, b) = {}
  <2>1. \A b \in Bounds(p) : b # 0
    BY <1>1, Records
  <2>. QED  BY <1>1, <2>1 DEF LiveOf, Live, Sound, Pointers, Sets
<1>10. Counts(p, <<>>, 0, 0)
  <2>1. ASSUME NEW b \in Bounds(p)
        PROVE  p.boundaries[b].pendingTasks
                 = Cardinality(LiveOf(p, b)) + (IF b = 0 THEN 0 ELSE 0)
    <3>1. CASE b \in Bounds(q)
      <4>1. q.boundaries[b].pendingTasks
              = Cardinality(LiveOf(q, b)) + (IF b = 0 THEN 0 ELSE 0)
        BY <1>1, <3>1 DEF Counts
      <4>2. p.boundaries[b].pendingTasks = q.boundaries[b].pendingTasks
        BY <3>1 DEF Grown
      <4>. QED  BY <1>8, <4>1, <4>2
    <3>2. CASE b \notin Bounds(q)
      <4>1. Cardinality(LiveOf(p, b)) = 0
        BY <1>8, <1>9, <2>1, <3>2, FS_EmptySet
      <4>2. p.boundaries[b].pendingTasks = 0
        BY <2>1, <3>2 DEF Grown
      <4>. QED  BY <4>1, <4>2
    <3>. QED  BY <3>1, <3>2
  <2>. QED  BY <1>1, <1>7, <1>8, <2>1 DEF Counts, Grown
<1>11. Told(p)
  BY <1>1 DEF Told, Grown
<1>12. KInv(p, <<>>, more)
  BY <1>1, <1>4, <1>5, <1>6, <1>10, <1>11 DEF KInv, Shape
<1>13. \A f, done : Stays(q, p, f, done)
  BY DEF Stays, Grown
<1>. QED  BY <1>7, <1>12, <1>13

(* Segments are added, the first as a child of s.                          *)
Extended(q, s, new) ==
  LET parent == [q EXCEPT !.segments[s].children = Append(@, Len(q.segments) + 1)]
  IN  [parent EXCEPT !.segments = @ \o new]

(* The n segments of q are still there, but for the child of s.            *)
IsExtended(q, p, s, new) ==
  LET n == Len(q.segments)
  IN  /\ n \in Nat /\ Segs(q) = 1..n /\ p \in RequestRecord
      /\ Len(new) \in Nat /\ Segs(p) = 1..(n + Len(new))
      /\ \A t \in Segs(q) :
           /\ p.segments[t].status = q.segments[t].status
           /\ p.segments[t].boundary = q.segments[t].boundary
           /\ p.segments[t].blockedBoundary = q.segments[t].blockedBoundary
           /\ p.segments[t].abortSet = q.segments[t].abortSet
           /\ p.segments[t].parentFlushed = q.segments[t].parentFlushed
           /\ \A i \in DOMAIN p.segments[t].children :
                \/ /\ i \in DOMAIN q.segments[t].children
                   /\ p.segments[t].children[i] = q.segments[t].children[i]
                \/ t = s /\ p.segments[t].children[i] = n + 1
      /\ \A i \in 1..Len(new) : p.segments[n + i] = new[i]
      /\ p.boundaries = q.boundaries
      /\ p.status = q.status /\ p.abortableTasks = q.abortableTasks
      /\ p.allPendingTasks = q.allPendingTasks
      /\ p.pendingRootTasks = q.pendingRootTasks
      /\ p.shellReady = q.shellReady /\ p.allReady = q.allReady
      /\ p.completedRootSegment = q.completedRootSegment
      /\ p.clientRenderedBoundaries = q.clientRenderedBoundaries
      /\ p.completedBoundaries = q.completedBoundaries
      /\ p.partialBoundaries = q.partialBoundaries
      /\ p.pingedTasks = q.pingedTasks
      /\ p.document = q.document /\ p.calls = q.calls /\ p.thrown = q.thrown
      /\ p.room = q.room

LEMMA ExtendedFacts ==
  ASSUME NEW q, NEW s \in Segs(q), NEW new \in Seq(SegmentRecord), Sound(q)
  PROVE  IsExtended(q, Extended(q, s, new), s, new)
<1>. DEFINE n == Len(q.segments)
            children == Append(q.segments[s].children, n + 1)
            segment == [q.segments[s] EXCEPT !.children = children]
            old == [q.segments EXCEPT ![s] = segment]
            segments == old \o new
            p == Extended(q, s, new)
<1>1. q \in RequestRecord /\ q.segments \in Seq(SegmentRecord)
      /\ \A t \in Segs(q) : q.segments[t] \in SegmentRecord
  BY Records DEF Sound, RequestRecord
<1>2. n \in Nat /\ Segs(q) = 1..n /\ s \in 1..n
  BY <1>1, LenProperties DEF Segs
<1>3. q.segments[s] \in SegmentRecord /\ q.segments[s].children \in Seq(Nat)
      /\ n + 1 \in Nat
  <2>. HIDE DEF n
  <2>1. q.segments[s] \in SegmentRecord /\ n + 1 \in Nat
    BY <1>1, <1>2
  <2>. QED  BY ONLY <2>1 DEF SegmentRecord
<1>4. /\ children \in Seq(Nat)
      /\ \A i \in DOMAIN children :
           \/ /\ i \in DOMAIN q.segments[s].children
              /\ children[i] = q.segments[s].children[i]
           \/ children[i] = n + 1
  <2>. DEFINE m == n + 1
  <2>. HIDE DEF m
  <2>1. \A kids \in Seq(Nat) : 
          /\ Append(kids, m) \in Seq(Nat)
          /\ \A i \in DOMAIN Append(kids, m) :
               \/ i \in DOMAIN kids /\ Append(kids, m)[i] = kids[i]
               \/ Append(kids, m)[i] = m
    BY <1>3 DEF m
  <2>. QED  BY <1>3, <2>1 DEF m
<1>5. p = [q EXCEPT !.segments = segments]
  <2>1. /\ s \in DOMAIN q.segments /\ "segments" \in DOMAIN q
        /\ "children" \in DOMAIN q.segments[s]
    BY <1>1, <1>3 DEF RequestRecord, SegmentRecord, Segs
  <2>. QED  BY <2>1 DEF Extended
<1>. HIDE DEF n, children
<1>6. /\ segment \in SegmentRecord /\ segment.status = q.segments[s].status
      /\ segment.boundary = q.segments[s].boundary
      /\ segment.blockedBoundary = q.segments[s].blockedBoundary
      /\ segment.abortSet = q.segments[s].abortSet
      /\ segment.parentFlushed = q.segments[s].parentFlushed
      /\ segment.children = children
  BY <1>3, <1>4 DEF SegmentRecord
<1>. HIDE DEF segment
<1>7. /\ old \in Seq(SegmentRecord) /\ Len(old) = n
      /\ \A t \in Segs(q) : old[t] = IF t = s THEN segment ELSE q.segments[t]
  BY <1>1, <1>2, <1>6, ExceptSeq DEF n
<1>. HIDE DEF old
<1>8. /\ segments \in Seq(SegmentRecord) /\ DOMAIN segments = 1..(n + Len(new))
      /\ Len(new) \in Nat
      /\ \A t \in Segs(q) : segments[t] = old[t]
      /\ \A i \in 1..Len(new) : segments[n + i] = new[i]
  <2>1. /\ segments \in Seq(SegmentRecord) /\ Len(segments) = n + Len(new)
        /\ \A i \in 1..(n + Len(new)) :
             segments[i] = IF i <= n THEN old[i] ELSE new[i - n]
    BY <1>7, ConcatProperties
  <2>2. Len(new) \in Nat /\ DOMAIN segments = 1..Len(segments)
    BY <2>1, LenProperties
  <2>. HIDE DEF segments
  <2>3. \A t \in Segs(q) : segments[t] = old[t]
    BY <1>2, <2>1, <2>2
  <2>4. ASSUME NEW i \in 1..Len(new) PROVE segments[n + i] = new[i]
    <3>1. n + i \in 1..(n + Len(new)) /\ ~(n + i <= n) /\ (n + i) - n = i
      BY <1>2, <2>2
    <3>. QED  BY <2>1, <3>1
  <2>. QED  BY <2>1, <2>2, <2>3, <2>4
<1>. HIDE DEF segments, p
<1>9. /\ p \in RequestRecord /\ p.segments = segments /\ p.boundaries = q.boundaries
      /\ p.status = q.status /\ p.abortableTasks = q.abortableTasks
      /\ p.allPendingTasks = q.allPendingTasks
      /\ p.pendingRootTasks = q.pendingRootTasks
      /\ p.shellReady = q.shellReady /\ p.allReady = q.allReady
      /\ p.completedRootSegment = q.completedRootSegment
      /\ p.clientRenderedBoundaries = q.clientRenderedBoundaries
      /\ p.completedBoundaries = q.completedBoundaries
      /\ p.partialBoundaries = q.partialBoundaries
      /\ p.pingedTasks = q.pingedTasks
      /\ p.document = q.document /\ p.calls = q.calls /\ p.thrown = q.thrown
      /\ p.room = q.room
  BY ONLY <1>1, <1>5, <1>8 DEF RequestRecord
<1>10. ASSUME NEW t \in Segs(q)
       PROVE  /\ p.segments[t].status = q.segments[t].status
              /\ p.segments[t].boundary = q.segments[t].boundary
              /\ p.segments[t].blockedBoundary = q.segments[t].blockedBoundary
              /\ p.segments[t].abortSet = q.segments[t].abortSet
              /\ p.segments[t].parentFlushed = q.segments[t].parentFlushed
              /\ \A i \in DOMAIN p.segments[t].children :
                   \/ /\ i \in DOMAIN q.segments[t].children
                      /\ p.segments[t].children[i] = q.segments[t].children[i]
                   \/ t = s /\ p.segments[t].children[i] = n + 1
  <2>1. p.segments[t] = old[t]
    BY <1>8, <1>9
  <2>2. CASE t = s
    <3>1. p.segments[t] = segment
      BY <1>7, <2>1, <2>2
    <3>. QED  BY ONLY <1>4, <1>6, <2>2, <3>1
  <2>3. CASE t # s
    <3>1. p.segments[t] = q.segments[t]
      BY <1>7, <2>1, <2>3
    <3>. QED  BY ONLY <3>1
  <2>. QED  BY <2>2, <2>3
<1>11. Segs(p) = 1..(n + Len(new)) /\ \A i \in 1..Len(new) : p.segments[n + i] = new[i]
  BY <1>8, <1>9 DEF Segs
<1>12. IsExtended(q, p, s, new)
  BY ONLY <1>2, <1>8, <1>9, <1>10, <1>11 DEF IsExtended, n
<1>. QED  BY <1>12 DEF p

-----------------------------------------------------------------------------
(* What is known of the segment being rendered.                            *)
Rendered1(q, st, s) ==
  /\ st # <<>> /\ Len(st) \in Nat \ {0} /\ DOMAIN st = 1..Len(st)
  /\ s = st[Len(st)] /\ s \in Segs(q) /\ q.segments[s].status = "PENDING"
  /\ st[1] \in Live(q) /\ st[1] \in Segs(q)
  /\ q.segments[s].abortSet = q.segments[st[1]].abortSet
  /\ q.segments[s].blockedBoundary \in Sets(q)
  /\ q.segments[s].abortSet \in Sets(q)
  /\ \A i \in 1..Len(st) : st[i] \in Segs(q)
  /\ q.allPendingTasks > 0

LEMMA RenderedFacts ==
  ASSUME NEW q, NEW rank, NEW st, KInv(q, <<>>, rank), Rendering(q, st), st # <<>>
  PROVE  /\ Rendered1(q, st, Last(st)) /\ Head(st) = st[1]
         /\ \A i \in 1..Len(st) :
              q.segments[st[i]].blockedBoundary = 0 => q.pendingRootTasks > 0
<1>1. st \in Seq(Nat) /\ Len(st) \in Nat \ {0} /\ DOMAIN st = 1..Len(st)
  BY LenProperties DEF Rendering
<1>2. 1 \in DOMAIN st /\ Len(st) \in DOMAIN st /\ Last(st) = st[Len(st)]
      /\ Head(st) = st[1]
  BY <1>1 DEF Last
<1>3. Sound(q) /\ st[1] \in Live(q)
  BY DEF KInv, Shape, Rendering
<1>4. Rendered1(q, st, Last(st))
  <2>1. q.allPendingTasks > 0
    BY <1>3, TaskPending
  <2>2. Last(st) \in Segs(q) /\ \A i \in 1..Len(st) : st[i] \in Segs(q)
    BY <1>1, <1>2 DEF Rendering
  <2>3. /\ q.segments[Last(st)].blockedBoundary \in Sets(q)
        /\ q.segments[Last(st)].abortSet \in Sets(q)
    BY <1>3, <2>2 DEF Sound, Pointers
  <2>. QED  BY <1>1, <1>2, <1>3, <2>1, <2>2, <2>3 DEF Rendering, Rendered1
<1>5. ASSUME NEW i \in 1..Len(st), q.segments[st[i]].blockedBoundary = 0
      PROVE  q.pendingRootTasks > 0
  <2>1. CASE i = 1
    BY <1>3, <1>5, <2>1, TaskPending
  <2>2. CASE i # 1
    <3>1. Content(q, st[1], st[i - 1], st[i])
      BY <1>1, <2>2 DEF Rendering
    <3>. QED  BY <1>5, <3>1 DEF Content
  <2>. QED  BY <2>1, <2>2
<1>. QED  BY <1>2, <1>4, <1>5

(* A hole in the segment.                                                  *)
LEMMA HoleGrown ==
  ASSUME NEW q, NEW rank, NEW s \in Segs(q), KInv(q, <<>>, rank), NEW m,
         NEW a, a = q.segments[s].abortSet,
         m = Extended(q, s, <<PendingSegment(0, q.segments[s].blockedBoundary, a)>>)
  PROVE  /\ Grown(q, m) /\ Ranked(m, rank) /\ m.pingedTasks = q.pingedTasks
         /\ m.calls = q.calls /\ m.room = q.room
         /\ LET f == Len(q.segments) + 1
            IN  /\ f \in Segs(m) /\ f \notin Segs(q) /\ f \in Nat
                /\ m.segments[f].status = "PENDING" /\ m.segments[f].abortSet = a
                /\ m.segments[f].blockedBoundary = q.segments[s].blockedBoundary
<1>. DEFINE new == PendingSegment(0, q.segments[s].blockedBoundary, a)
            f == Len(q.segments) + 1
<1>1. Sound(q) /\ Ranked(q, rank)
  BY DEF KInv, Shape
<1>2. /\ q.segments[s].blockedBoundary \in Sets(q) /\ a \in Sets(q)
      /\ \A set \in Sets(q) : set \in Nat
  BY <1>1, Records DEF Sound, Pointers
<1>3. /\ new \in SegmentRecord /\ new.status = "PENDING" /\ new.boundary = 0
      /\ new.blockedBoundary = q.segments[s].blockedBoundary /\ new.abortSet = a
      /\ new.children = <<>> /\ new.parentFlushed = FALSE
  BY <1>2 DEF PendingSegment, SegmentRecord
<1>. HIDE DEF new
<1>4. <<new>> \in Seq(SegmentRecord) /\ Len(<<new>>) = 1 /\ <<new>>[1] = new
  BY <1>3
<1>5. m = Extended(q, s, <<new>>)
  BY DEF new
<1>60. IsExtended(q, m, s, <<new>>)
  BY <1>1, <1>4, <1>5, ExtendedFacts
<1>. DEFINE n == Len(q.segments)
<1>6. /\ n \in Nat /\ Segs(q) = 1..n /\ m \in RequestRecord
      /\ Segs(m) = 1..(n + 1)
      /\ \A t \in Segs(q) :
           /\ m.segments[t].status = q.segments[t].status
           /\ m.segments[t].boundary = q.segments[t].boundary
           /\ m.segments[t].blockedBoundary = q.segments[t].blockedBoundary
           /\ m.segments[t].abortSet = q.segments[t].abortSet
           /\ m.segments[t].parentFlushed = q.segments[t].parentFlushed
           /\ \A i \in DOMAIN m.segments[t].children :
                \/ /\ i \in DOMAIN q.segments[t].children
                   /\ m.segments[t].children[i] = q.segments[t].children[i]
                \/ t = s /\ m.segments[t].children[i] = n + 1
      /\ m.segments[n + 1] = new
      /\ m.boundaries = q.boundaries
      /\ m.status = q.status /\ m.abortableTasks = q.abortableTasks
      /\ m.allPendingTasks = q.allPendingTasks
      /\ m.pendingRootTasks = q.pendingRootTasks
      /\ m.shellReady = q.shellReady /\ m.allReady = q.allReady
      /\ m.completedRootSegment = q.completedRootSegment
      /\ m.clientRenderedBoundaries = q.clientRenderedBoundaries
      /\ m.completedBoundaries = q.completedBoundaries
      /\ m.partialBoundaries = q.partialBoundaries
      /\ m.pingedTasks = q.pingedTasks
      /\ m.document = q.document /\ m.calls = q.calls /\ m.thrown = q.thrown
      /\ m.room = q.room
  BY ONLY <1>4, <1>60 DEF IsExtended
<1>7. /\ f \in Nat /\ Segs(m) = Segs(q) \cup {f} /\ f \notin Segs(q)
      /\ m.segments[f] = new
  BY ONLY <1>6
<1>. HIDE DEF f
<1>8. Bounds(m) = Bounds(q) /\ Sets(m) = Sets(q) /\ \A set : Tasks(m, set) = Tasks(q, set)
  BY <1>6, Zenon DEF Bounds, Sets, Tasks
<1>9. ASSUME NEW t \in Segs(m), NEW i \in DOMAIN m.segments[t].children
      PROVE  /\ m.segments[t].children[i] \in Segs(m)
             /\ m.segments[m.segments[t].children[i]].blockedBoundary
                  = m.segments[t].blockedBoundary
  <2>1. t # f
    BY <1>3, <1>7, <1>9
  <2>2. t \in Segs(q)
    BY <1>7, <2>1
  <2>. DEFINE c == m.segments[t].children[i]
  <2>3. \/ i \in DOMAIN q.segments[t].children /\ c = q.segments[t].children[i]
        \/ t = s /\ c = f
    BY <1>6, <1>9, <2>2, Zenon DEF f
  <2>4. CASE i \in DOMAIN q.segments[t].children /\ c = q.segments[t].children[i]
    <3>1. c \in Segs(q)
          /\ q.segments[c].blockedBoundary = q.segments[t].blockedBoundary
      BY <1>1, <2>2, <2>4 DEF Sound, Pointers
    <3>. QED  BY <1>6, <1>7, <2>2, <3>1, Zenon
  <2>5. CASE t = s /\ c = f
    BY <1>3, <1>6, <1>7, <2>5, Zenon
  <2>. QED  BY <2>3, <2>4, <2>5, Zenon
<1>10. Sound(m)
  <2>1. ASSUME NEW t \in Segs(m)
        PROVE  /\ m.segments[t].boundary \in Sets(m)
               /\ m.segments[t].blockedBoundary \in Sets(m)
               /\ m.segments[t].abortSet \in Sets(m)
    <3>1. CASE t = f
      BY <1>2, <1>3, <1>7, <1>8, <3>1 DEF Sets
    <3>2. CASE t \in Segs(q)
      BY <1>1, <1>6, <1>8, <3>2, Zenon DEF Sound, Pointers
    <3>. QED  BY <1>7, <3>1, <3>2
  <2>2. \A b \in Bounds(m) : \A i \in DOMAIN m.boundaries[b].completedSegments :
          m.boundaries[b].completedSegments[i] \in Segs(m)
    BY <1>1, <1>6, <1>7, <1>8, Zenon DEF Sound, Pointers
  <2>3. /\ \A i \in DOMAIN m.clientRenderedBoundaries :
             m.clientRenderedBoundaries[i] \in Bounds(m)
        /\ \A i \in DOMAIN m.completedBoundaries :
             m.completedBoundaries[i] \in Bounds(m)
        /\ \A i \in DOMAIN m.partialBoundaries : m.partialBoundaries[i] \in Bounds(m)
        /\ m.completedRootSegment \in {0} \cup Segs(m)
    BY <1>1, <1>6, <1>7, <1>8, Zenon DEF Sound, Pointers
  <2>. QED  BY ONLY <1>6, <1>9, <2>1, <2>2, <2>3 DEF Sound, Pointers
<1>11. Ranked(m, rank)
  <2>1. ASSUME NEW t \in Segs(m), m.segments[t].blockedBoundary # 0
        PROVE  rank[m.segments[t].abortSet] < rank[m.segments[t].blockedBoundary]
    <3>1. CASE t = f
      <4>1. q.segments[s].blockedBoundary # 0
        BY <1>3, <1>7, <2>1, <3>1
      <4>2. rank[a] < rank[q.segments[s].blockedBoundary]
        BY <1>1, <4>1 DEF Ranked
      <4>. QED  BY <1>3, <1>7, <3>1, <4>2
    <3>2. CASE t \in Segs(q)
      BY <1>1, <1>6, <2>1, <3>2, Zenon DEF Ranked
    <3>. QED  BY <1>7, <3>1, <3>2
  <2>. QED  BY <1>1, <1>8, <2>1, Zenon DEF Ranked
<1>12. Grown(q, m)
  BY ONLY <1>3, <1>6, <1>7, <1>8, <1>10 DEF Grown
<1>. QED  BY <1>3, <1>6, <1>7, <1>11, <1>12, Zenon DEF f

LEMMA SpawnSuspendedTaskKeeps ==
  ASSUME IInv, SpawnSuspendedTask PROVE IInv'
<1>. DEFINE q == request
            s == Rendered
            f == Len(q.segments) + 1
            a == q.segments[s].abortSet
            new == PendingSegment(0, q.segments[s].blockedBoundary, a)
            m == Extended(q, s, <<new>>)
<1>1. PICK rank : QInv(q, rank)
  BY DEF IInv
<1>2. KInv(q, <<>>, rank) /\ Idle(q) /\ Rendering(q, stack) /\ Waiting(q, suspended)
      /\ stack # <<>> /\ Sound(q) /\ Homes(q)
  BY <1>1 DEF QInv, KInv, Shape, IInv, Idle, SpawnSuspendedTask
<1>3. /\ Rendered1(q, stack, s) /\ TheTask = stack[1]
      /\ \A i \in 1..Len(stack) :
           q.segments[stack[i]].blockedBoundary = 0 => q.pendingRootTasks > 0
  BY <1>2, RenderedFacts DEF Rendered, TheTask
<1>4. request' = CreateRenderTask(m, f) /\ suspended' = suspended \cup {f}
      /\ stack' = stack /\ loop' = loop
  <2>1. /\ request' = CreateRenderTask(Child(request, Rendered,
             <<PendingSegment(0, request.segments[Rendered].blockedBoundary,
                              request.segments[TheTask].abortSet)>>), Fresh)
        /\ suspended' = suspended \cup {Fresh} /\ stack' = stack /\ loop' = loop
    BY DEF SpawnSuspendedTask
  <2>2. request.segments[TheTask].abortSet = a
    BY <1>3 DEF Rendered1
  <2>. QED  BY <2>1, <2>2 DEF Child, Extended, Fresh
<1>5. /\ s \in Segs(q) /\ a = q.segments[s].abortSet
      /\ m = Extended(q, s, <<PendingSegment(0, q.segments[s].blockedBoundary, a)>>)
  BY <1>3 DEF Rendered1
<1>6. f = Len(q.segments) + 1
  OBVIOUS
<1>. HIDE DEF q, s, f, a, m
<1>7. /\ Grown(q, m) /\ Ranked(m, rank) /\ m.pingedTasks = q.pingedTasks
      /\ m.calls = q.calls /\ m.room = q.room
      /\ f \in Segs(m) /\ f \notin Segs(q) /\ f \in Nat
      /\ m.segments[f].status = "PENDING" /\ m.segments[f].abortSet = a
      /\ m.segments[f].blockedBoundary = q.segments[s].blockedBoundary
  BY <1>2, <1>5, <1>6, HoleGrown
<1>8. KInv(m, <<>>, rank) /\ Live(m) = Live(q) /\ Stays(q, m, f, 0)
  BY <1>2, <1>7, GrownKeeps
<1>9. Homeless(m, f)
  <2>1. f \notin Tasks(m, a)
    BY <1>2, <1>3, <1>5, <1>7, Zenon DEF Grown, Rendered1, Homes
  <2>2. m.allPendingTasks > 0
    BY <1>3, <1>7 DEF Grown, Rendered1
  <2>3. q.segments[s].blockedBoundary = 0 => m.pendingRootTasks > 0
    <3>1. Len(stack) \in 1..Len(stack) /\ s = stack[Len(stack)]
      BY <1>3 DEF Rendered1
    <3>. QED  BY <1>3, <1>7, <3>1 DEF Grown
  <2>. QED  BY <1>7, <2>1, <2>2, <2>3 DEF Homeless
<1>. DEFINE p == CreateRenderTask(m, f)
<1>91. LET set == m.segments[f].abortSet
       IN  /\ KInv(p, <<>>, rank) /\ Live(p) = Live(m) \cup {f}
           /\ Tasks(p, set) = Tasks(m, set) \cup {f}
           /\ \A other \in Sets(m) : other # set => Tasks(p, other) = Tasks(m, other)
           /\ p.segments = m.segments /\ Segs(p) = Segs(m) /\ Bounds(p) = Bounds(m)
           /\ p.pingedTasks = m.pingedTasks /\ p.thrown = m.thrown
           /\ p.calls = m.calls /\ p.room = m.room
  BY <1>8, <1>9, CreateTaskKeeps
<1>10. /\ KInv(p, <<>>, rank) /\ Live(p) = Live(m) \cup {f}
       /\ Tasks(p, a) = Tasks(m, a) \cup {f}
       /\ \A other \in Sets(m) : other # a => Tasks(p, other) = Tasks(m, other)
       /\ p.segments = m.segments /\ Segs(p) = Segs(m) /\ Bounds(p) = Bounds(m)
       /\ p.pingedTasks = m.pingedTasks /\ p.thrown = m.thrown
       /\ p.calls = m.calls /\ p.room = m.room
  BY <1>7, <1>91
<1>11. request' = p
  BY <1>4
<1>. HIDE DEF p
<1>12. Stays(q, p, f, 0)
  <2>1. Sets(q) \subseteq Sets(m) /\ \A t \in Segs(q) : t \in Segs(m)
    BY <1>7 DEF Grown, Sets
  <2>2. ASSUME NEW set \in Sets(q)
        PROVE  Tasks(q, set) \subseteq Tasks(p, set)
               /\ Tasks(p, set) \subseteq Tasks(q, set) \cup {f}
    <3>1. Tasks(m, set) = Tasks(q, set) /\ set \in Sets(m)
      BY <1>7, <2>1 DEF Grown
    <3>. QED  BY <1>10, <3>1
  <2>. QED  BY <1>8, <1>10, <2>1, <2>2 DEF Stays
<1>13. Rendering(p, stack)
  <2>1. stack \in Seq(Nat) /\ Len(stack) \in 0..Len(stack)
    BY <1>2 DEF Rendering
  <2>2. SubSeq(stack, 1, Len(stack)) = stack
    BY <2>1
  <2>3. ASSUME NEW i \in 1..Len(stack)
        PROVE  /\ stack[i] # 0
               /\ i > 1 => stack[i] # f /\ stack[i] - 1 # f /\ stack[i] - 1 # 0
    <3>1. stack[i] \in Segs(q) /\ i \in DOMAIN stack
      BY <1>3 DEF Rendered1
    <3>2. i > 1 => stack[i] - 1 \in Segs(q)
      BY <1>2, <3>1 DEF Rendering, Content
    <3>3. 0 \notin Segs(q)
      BY <1>2, Records
    <3>. QED  BY <1>7, <3>1, <3>2, <3>3
  <2>4. Rendering(p, SubSeq(stack, 1, Len(stack)))
    BY <1>2, <1>12, <2>1, <2>3, RenderingKept
  <2>. QED  BY <2>2, <2>4
<1>14. Waiting(p, suspended \cup {f})
  <2>1. ASSUME NEW t \in ToSet(p.pingedTasks) \cup (suspended \cup {f})
        PROVE  t \in Segs(p) /\ (p.segments[t].status = "PENDING" => t \in Live(p))
    <3>1. CASE t = f
      BY <1>7, <1>10, <3>1
    <3>2. CASE t # f
      <4>1. t \in ToSet(q.pingedTasks) \cup suspended
        BY <1>7, <1>10, <2>1, <3>2
      <4>2. t \in Segs(q) /\ (q.segments[t].status = "PENDING" => t \in Live(q))
        BY <1>2, <4>1 DEF Waiting
      <4>. QED  BY <1>7, <1>8, <1>10, <4>2 DEF Grown
    <3>. QED  BY <3>1, <3>2
  <2>. QED  BY <2>1 DEF Waiting
<1>15. Idle(p)
  BY <1>2, <1>7, <1>10 DEF Idle, Grown
<1>16. QInv(p, rank)
  BY <1>10, <1>15 DEF QInv, Idle
<1>. QED  BY <1>4, <1>11, <1>13, <1>14, <1>15, <1>16 DEF IInv

-----------------------------------------------------------------------------
(* A boundary is entered: its fallback's segment and its content's.        *)
FallbackSegment(q, s) ==
  PendingSegment(Len(q.boundaries) + 1, q.segments[s].blockedBoundary,
                 Len(q.boundaries) + 1)
ContentSegment(q, a) ==
  [PendingSegment(0, Len(q.boundaries) + 1, a) EXCEPT !.parentFlushed = TRUE]
NewBoundary(q, s, a) ==
  SuspenseBoundary([blockedBoundary |-> q.segments[s].blockedBoundary, abortSet |-> a])
WithBoundary(q, boundary) == [q EXCEPT !.boundaries = Append(@, boundary)]
Entered(q, s, a) ==
  WithBoundary(Extended(q, s, <<FallbackSegment(q, s), ContentSegment(q, a)>>),
               NewBoundary(q, s, a))

(* It is aborted after the set that its content is in.                     *)
NewRank(q, rank, a) ==
  [x \in Sets(q) \cup {Len(q.boundaries) + 1} |->
     IF x \in Sets(q) THEN 2 * rank[x] ELSE 2 * rank[a] + 1]

LEMMA WithBoundaryFacts ==
  ASSUME NEW q \in RequestRecord, NEW boundary \in BoundaryRecord,
         NEW p, p = WithBoundary(q, boundary), NEW b, b = Len(q.boundaries) + 1
  PROVE  /\ p \in RequestRecord /\ p.segments = q.segments /\ b \in Nat \ {0}
         /\ Bounds(p) = Bounds(q) \cup {b} /\ b \notin Bounds(q)
         /\ \A c \in Bounds(q) : p.boundaries[c] = q.boundaries[c]
         /\ p.boundaries[b] = boundary
         /\ p.status = q.status /\ p.abortableTasks = q.abortableTasks
         /\ p.allPendingTasks = q.allPendingTasks
         /\ p.pendingRootTasks = q.pendingRootTasks
         /\ p.shellReady = q.shellReady /\ p.allReady = q.allReady
         /\ p.completedRootSegment = q.completedRootSegment
         /\ p.clientRenderedBoundaries = q.clientRenderedBoundaries
         /\ p.completedBoundaries = q.completedBoundaries
         /\ p.partialBoundaries = q.partialBoundaries
         /\ p.pingedTasks = q.pingedTasks
         /\ p.document = q.document /\ p.calls = q.calls /\ p.thrown = q.thrown
         /\ p.room = q.room
<1>. DEFINE k == Len(q.boundaries)
            more == Append(q.boundaries, boundary)
<1>1. q.boundaries \in Seq(BoundaryRecord)
  BY DEF RequestRecord
<1>2. k \in Nat /\ Bounds(q) = 1..k
  BY <1>1, LenProperties DEF Bounds
<1>3. /\ more \in Seq(BoundaryRecord) /\ Len(more) = k + 1 /\ DOMAIN more = 1..(k + 1)
      /\ \A c \in 1..k : more[c] = q.boundaries[c]
      /\ more[k + 1] = boundary
  <2>1. /\ more \in Seq(BoundaryRecord) /\ Len(more) = k + 1
        /\ \A c \in 1..k : more[c] = q.boundaries[c]
        /\ more[k + 1] = boundary
    BY <1>1, AppendProperties
  <2>. QED  BY <2>1, LenProperties
<1>4. p = [q EXCEPT !.boundaries = more]
  BY DEF WithBoundary, RequestRecord
<1>5. q \in RequestRecord /\ b = k + 1
  OBVIOUS
<1>. HIDE DEF k, more
<1>6. /\ p \in RequestRecord /\ p.segments = q.segments /\ p.boundaries = more
      /\ p.status = q.status /\ p.abortableTasks = q.abortableTasks
      /\ p.allPendingTasks = q.allPendingTasks
      /\ p.pendingRootTasks = q.pendingRootTasks
      /\ p.shellReady = q.shellReady /\ p.allReady = q.allReady
      /\ p.completedRootSegment = q.completedRootSegment
      /\ p.clientRenderedBoundaries = q.clientRenderedBoundaries
      /\ p.completedBoundaries = q.completedBoundaries
      /\ p.partialBoundaries = q.partialBoundaries
      /\ p.pingedTasks = q.pingedTasks
      /\ p.document = q.document /\ p.calls = q.calls /\ p.thrown = q.thrown
      /\ p.room = q.room
  BY ONLY <1>3, <1>4, <1>5 DEF RequestRecord
<1>7. /\ Bounds(p) = Bounds(q) \cup {k + 1} /\ k + 1 \notin Bounds(q)
      /\ k + 1 \in Nat \ {0}
      /\ \A c \in Bounds(q) : p.boundaries[c] = q.boundaries[c]
      /\ p.boundaries[k + 1] = boundary
  <2>1. Bounds(p) = 1..(k + 1)
    BY <1>3, <1>6 DEF Bounds
  <2>. QED  BY ONLY <1>2, <1>3, <1>6, <2>1
<1>. QED  BY ONLY <1>5, <1>6, <1>7

(* The boundary is there, with neither task nor segment complete.          *)
IsEntered(q, p, rank, s, a) ==
  LET b == Len(q.boundaries) + 1
      n == Len(q.segments)
      fallback == p.segments[n + 1]
      content == p.segments[n + 2]
  IN  /\ Grown(q, p) /\ Ranked(p, NewRank(q, rank, a))
      /\ p.pingedTasks = q.pingedTasks /\ p.calls = q.calls /\ p.room = q.room
      /\ b # 0 /\ Tasks(p, b) = {} /\ n \in Nat
      /\ Segs(p) = Segs(q) \cup {n + 1, n + 2}
      /\ n + 1 \notin Segs(q) /\ n + 2 \notin Segs(q)
      /\ fallback.status = "PENDING" /\ fallback.boundary = b
      /\ fallback.abortSet = b
      /\ fallback.blockedBoundary = q.segments[s].blockedBoundary
      /\ content.status = "PENDING" /\ content.boundary = 0
      /\ content.abortSet = a /\ content.blockedBoundary = b

LEMMA EnteredGrown ==
  ASSUME NEW q, NEW rank, NEW s \in Segs(q), KInv(q, <<>>, rank), NEW p,
         NEW a, a = q.segments[s].abortSet, p = Entered(q, s, a)
  PROVE  IsEntered(q, p, rank, s, a)
<1>. DEFINE b == Len(q.boundaries) + 1
            n == Len(q.segments)
            o == q.segments[s].blockedBoundary
            fallback == FallbackSegment(q, s)
            content == ContentSegment(q, a)
            boundary == NewBoundary(q, s, a)
            new == <<fallback, content>>
            e == Extended(q, s, new)
            more == NewRank(q, rank, a)
<1>0. s \in Segs(q) /\ a = q.segments[s].abortSet
  OBVIOUS
<1>1. Sound(q) /\ Ranked(q, rank) /\ q \in RequestRecord
      /\ q.boundaries \in Seq(BoundaryRecord)
  BY DEF KInv, Shape, Sound, RequestRecord
<1>2. /\ o \in Sets(q) /\ a \in Sets(q) /\ b \in Nat \ {0}
      /\ \A set \in Sets(q) : set \in Nat
  <2>1. b \in Nat \ {0}
    BY <1>1, LenProperties
  <2>. QED  BY <1>1, <2>1, Records DEF Sound, Pointers
<1>3. /\ fallback \in SegmentRecord /\ fallback.status = "PENDING"
      /\ fallback.boundary = b /\ fallback.blockedBoundary = o
      /\ fallback.abortSet = b /\ fallback.children = <<>>
      /\ fallback.parentFlushed = FALSE
  <2>. HIDE DEF b, o
  <2>1. fallback = PendingSegment(b, o, b)
    BY DEF FallbackSegment, b, o
  <2>. QED  BY <1>2, <2>1 DEF PendingSegment, SegmentRecord
<1>4. /\ content \in SegmentRecord /\ content.status = "PENDING"
      /\ content.boundary = 0 /\ content.blockedBoundary = b
      /\ content.abortSet = a /\ content.children = <<>>
  <2>. HIDE DEF b
  <2>1. content = [PendingSegment(0, b, a) EXCEPT !.parentFlushed = TRUE]
    BY DEF ContentSegment, b
  <2>2. /\ PendingSegment(0, b, a) \in SegmentRecord
        /\ PendingSegment(0, b, a).status = "PENDING"
        /\ PendingSegment(0, b, a).boundary = 0
        /\ PendingSegment(0, b, a).blockedBoundary = b
        /\ PendingSegment(0, b, a).abortSet = a
        /\ PendingSegment(0, b, a).children = <<>>
    BY <1>2 DEF PendingSegment, SegmentRecord
  <2>. DEFINE pending == PendingSegment(0, b, a)
  <2>. HIDE DEF pending
  <2>3. content = [pending EXCEPT !.parentFlushed = TRUE]
    BY <2>1 DEF pending
  <2>4. /\ pending \in SegmentRecord /\ pending.status = "PENDING"
        /\ pending.boundary = 0 /\ pending.blockedBoundary = b
        /\ pending.abortSet = a /\ pending.children = <<>>
    BY <2>2 DEF pending
  <2>. HIDE DEF content
  <2>. QED  BY ONLY <2>3, <2>4 DEF SegmentRecord
<1>5. boundary \in BoundaryRecord /\ boundary.pendingTasks = 0
      /\ boundary.completedSegments = <<>> /\ boundary.fallbackAbortableTasks = {}
  <2>. HIDE DEF o
  <2>1. boundary = SuspenseBoundary([blockedBoundary |-> o, abortSet |-> a])
    BY DEF NewBoundary, o
  <2>. QED  BY <1>2, <2>1 DEF SuspenseBoundary, BoundaryRecord
<1>6. new \in Seq(SegmentRecord) /\ Len(new) = 2 /\ new[1] = fallback /\ new[2] = content
  BY <1>3, <1>4
<1>7. p = WithBoundary(e, boundary)
  BY DEF Entered
<1>8. IsExtended(q, e, s, new)
  BY <1>0, <1>1, <1>6, ExtendedFacts
<1>. HIDE DEF fallback, content, boundary, o, new, e
<1>9. /\ n \in Nat /\ Segs(q) = 1..n /\ e \in RequestRecord
      /\ Segs(e) = 1..(n + 2)
      /\ \A t \in Segs(q) :
           /\ e.segments[t].status = q.segments[t].status
           /\ e.segments[t].boundary = q.segments[t].boundary
           /\ e.segments[t].blockedBoundary = q.segments[t].blockedBoundary
           /\ e.segments[t].abortSet = q.segments[t].abortSet
           /\ e.segments[t].parentFlushed = q.segments[t].parentFlushed
           /\ \A i \in DOMAIN e.segments[t].children :
                \/ /\ i \in DOMAIN q.segments[t].children
                   /\ e.segments[t].children[i] = q.segments[t].children[i]
                \/ t = s /\ e.segments[t].children[i] = n + 1
      /\ e.segments[n + 1] = fallback /\ e.segments[n + 2] = content
      /\ e.boundaries = q.boundaries
      /\ e.status = q.status /\ e.abortableTasks = q.abortableTasks
      /\ e.allPendingTasks = q.allPendingTasks
      /\ e.pendingRootTasks = q.pendingRootTasks
      /\ e.shellReady = q.shellReady /\ e.allReady = q.allReady
      /\ e.completedRootSegment = q.completedRootSegment
      /\ e.clientRenderedBoundaries = q.clientRenderedBoundaries
      /\ e.completedBoundaries = q.completedBoundaries
      /\ e.partialBoundaries = q.partialBoundaries
      /\ e.pingedTasks = q.pingedTasks
      /\ e.document = q.document /\ e.calls = q.calls /\ e.thrown = q.thrown
      /\ e.room = q.room
  BY ONLY <1>6, <1>8 DEF IsExtended
<1>10. /\ p \in RequestRecord /\ p.segments = e.segments
       /\ Bounds(p) = Bounds(e) \cup {b} /\ b \notin Bounds(e)
       /\ \A c \in Bounds(e) : p.boundaries[c] = e.boundaries[c]
       /\ p.boundaries[b] = boundary
       /\ p.status = e.status /\ p.abortableTasks = e.abortableTasks
       /\ p.allPendingTasks = e.allPendingTasks
       /\ p.pendingRootTasks = e.pendingRootTasks
       /\ p.shellReady = e.shellReady /\ p.allReady = e.allReady
       /\ p.completedRootSegment = e.completedRootSegment
       /\ p.clientRenderedBoundaries = e.clientRenderedBoundaries
       /\ p.completedBoundaries = e.completedBoundaries
       /\ p.partialBoundaries = e.partialBoundaries
       /\ p.pingedTasks = e.pingedTasks
       /\ p.document = e.document /\ p.calls = e.calls /\ p.thrown = e.thrown
       /\ p.room = e.room
  <2>1. b = Len(e.boundaries) + 1
    BY <1>9
  <2>. HIDE DEF b
  <2>. QED  BY <1>5, <1>7, <1>9, <2>1, WithBoundaryFacts
<1>. HIDE DEF b
<1>11. /\ Segs(p) = Segs(q) \cup {n + 1, n + 2} /\ n + 1 \notin Segs(q)
       /\ n + 2 \notin Segs(q) /\ n + 1 # n + 2
       /\ p.segments[n + 1] = fallback /\ p.segments[n + 2] = content
  <2>1. Segs(p) = Segs(e)
    BY <1>10 DEF Segs
  <2>. HIDE DEF n
  <2>. QED  BY ONLY <1>9, <1>10, <2>1
<1>. DEFINE f == n + 1
            g == n + 2
<1>. HIDE DEF f, g
<1>110. /\ Segs(p) = Segs(q) \cup {f, g} /\ f \notin Segs(q) /\ g \notin Segs(q)
        /\ f # g /\ p.segments[f] = fallback /\ p.segments[g] = content
  BY <1>11 DEF f, g
<1>12. ASSUME NEW t \in Segs(q)
       PROVE  /\ p.segments[t].status = q.segments[t].status
              /\ p.segments[t].boundary = q.segments[t].boundary
              /\ p.segments[t].blockedBoundary = q.segments[t].blockedBoundary
              /\ p.segments[t].abortSet = q.segments[t].abortSet
              /\ p.segments[t].parentFlushed = q.segments[t].parentFlushed
              /\ \A i \in DOMAIN p.segments[t].children :
                   \/ /\ i \in DOMAIN q.segments[t].children
                      /\ p.segments[t].children[i] = q.segments[t].children[i]
                   \/ t = s /\ p.segments[t].children[i] = f
  <2>1. p.segments[t] = e.segments[t]
    BY ONLY <1>10
  <2>. QED  BY <1>9, <2>1 DEF f
<1>13. /\ Bounds(p) = Bounds(q) \cup {b} /\ b \notin Bounds(q)
       /\ Sets(p) = Sets(q) \cup {b} /\ b \notin Sets(q)
       /\ \A c \in Bounds(q) : p.boundaries[c] = q.boundaries[c]
       /\ \A set \in Sets(q) : Tasks(p, set) = Tasks(q, set)
       /\ Tasks(p, b) = {}
  <2>1. Bounds(e) = Bounds(q)
    BY <1>9 DEF Bounds
  <2>2. /\ Bounds(p) = Bounds(q) \cup {b} /\ b \notin Bounds(q)
        /\ \A c \in Bounds(q) : p.boundaries[c] = q.boundaries[c]
        /\ p.abortableTasks = q.abortableTasks
    BY ONLY <1>9, <1>10, <2>1
  <2>3. Sets(p) = Sets(q) \cup {b} /\ b \notin Sets(q)
    BY <1>2, <2>2 DEF Sets
  <2>4. \A set \in Sets(q) : Tasks(p, set) = Tasks(q, set)
    BY ONLY <2>2 DEF Tasks, Sets
  <2>5. Tasks(p, b) = {}
    BY ONLY <1>2, <1>5, <1>10 DEF Tasks
  <2>. QED  BY <2>2, <2>3, <2>4, <2>5
<1>14. ASSUME NEW t \in Segs(p), NEW i \in DOMAIN p.segments[t].children
       PROVE  /\ p.segments[t].children[i] \in Segs(p)
              /\ p.segments[p.segments[t].children[i]].blockedBoundary
                   = p.segments[t].blockedBoundary
  <2>1. t # f /\ t # g
    BY <1>3, <1>4, <1>110, <1>14
  <2>2. t \in Segs(q)
    BY <1>110, <2>1
  <2>. DEFINE c == p.segments[t].children[i]
  <2>3. \/ i \in DOMAIN q.segments[t].children /\ c = q.segments[t].children[i]
        \/ t = s /\ c = f
    BY <1>12, <1>14, <2>2
  <2>4. CASE i \in DOMAIN q.segments[t].children /\ c = q.segments[t].children[i]
    <3>1. c \in Segs(q)
          /\ q.segments[c].blockedBoundary = q.segments[t].blockedBoundary
      BY <1>1, <2>2, <2>4 DEF Sound, Pointers
    <3>. QED  BY <1>12, <1>110, <2>2, <3>1, Zenon
  <2>5. CASE t = s /\ c = f
    <3>1. p.segments[s].blockedBoundary = o
      BY <1>0, <1>12 DEF o
    <3>. QED  BY <1>3, <1>110, <2>5, <3>1
  <2>. QED  BY <2>3, <2>4, <2>5, Zenon
<1>15. Sound(p)
  <2>1. ASSUME NEW t \in Segs(p)
        PROVE  /\ p.segments[t].boundary \in Sets(p)
               /\ p.segments[t].blockedBoundary \in Sets(p)
               /\ p.segments[t].abortSet \in Sets(p)
    <3>1. CASE t = f
      BY ONLY <1>2, <1>3, <1>110, <1>13, <3>1
    <3>2. CASE t = g
      BY ONLY <1>2, <1>4, <1>110, <1>13, <3>2 DEF Sets
    <3>3. CASE t \in Segs(q)
      BY <1>1, <1>12, <1>13, <3>3 DEF Sound, Pointers
    <3>. QED  BY <1>110, <3>1, <3>2, <3>3
  <2>2. ASSUME NEW c \in Bounds(p), NEW i \in DOMAIN p.boundaries[c].completedSegments
        PROVE  p.boundaries[c].completedSegments[i] \in Segs(p)
    <3>1. c # b
      BY <1>5, <1>10, <2>2
    <3>2. c \in Bounds(q) /\ p.boundaries[c] = q.boundaries[c]
      BY <1>13, <3>1
    <3>. QED  BY <1>1, <1>110, <2>2, <3>2 DEF Sound, Pointers
  <2>3. /\ \A i \in DOMAIN p.clientRenderedBoundaries :
             p.clientRenderedBoundaries[i] \in Bounds(p)
        /\ \A i \in DOMAIN p.completedBoundaries :
             p.completedBoundaries[i] \in Bounds(p)
        /\ \A i \in DOMAIN p.partialBoundaries : p.partialBoundaries[i] \in Bounds(p)
        /\ p.completedRootSegment \in {0} \cup Segs(p)
    <3>1. /\ p.clientRenderedBoundaries = q.clientRenderedBoundaries
          /\ p.completedBoundaries = q.completedBoundaries
          /\ p.partialBoundaries = q.partialBoundaries
          /\ p.completedRootSegment = q.completedRootSegment
      BY ONLY <1>9, <1>10
    <3>. QED  BY <1>1, <1>110, <1>13, <3>1 DEF Sound, Pointers
  <2>. QED  BY ONLY <1>10, <1>14, <2>1, <2>2, <2>3 DEF Sound, Pointers
<1>16. Ranked(p, more)
  <2>1. /\ more \in [Sets(p) -> Nat]
        /\ \A x \in Sets(q) : more[x] = 2 * rank[x] /\ rank[x] \in Nat
        /\ more[b] = 2 * rank[a] + 1
    <3>1. \A x \in Sets(q) : rank[x] \in Nat
      BY <1>1 DEF Ranked
    <3>. QED  BY <1>2, <1>13, <3>1 DEF NewRank, b
  <2>. HIDE DEF more
  <2>2. more[0] = 0 /\ 0 \in Sets(q)
    BY <1>1, <2>1 DEF Ranked, Sets
  <2>3. \A c \in Bounds(p) : more[c] > 0
    <3>1. more[b] > 0
      BY <1>2, <2>1
    <3>2. ASSUME NEW c \in Bounds(q) PROVE more[c] > 0
      <4>1. c \in Sets(q) /\ rank[c] > 0
        BY <1>1 DEF Ranked, Sets
      <4>. QED  BY <2>1, <4>1
    <3>. QED  BY <1>13, <3>1, <3>2
  <2>4. ASSUME NEW t \in Segs(p), p.segments[t].blockedBoundary # 0
        PROVE  more[p.segments[t].abortSet] < more[p.segments[t].blockedBoundary]
    <3>1. CASE t = f
      <4>1. p.segments[t].abortSet = b /\ p.segments[t].blockedBoundary = o /\ o # 0
        BY <1>3, <1>110, <2>4, <3>1
      <4>2. rank[a] < rank[o]
        BY <1>0, <1>1, <4>1 DEF Ranked, o
      <4>3. 2 * rank[a] + 1 < 2 * rank[o]
        BY <1>2, <2>1, <4>2
      <4>. QED  BY <1>2, <2>1, <4>1, <4>3
    <3>2. CASE t = g
      <4>1. p.segments[t].abortSet = a /\ p.segments[t].blockedBoundary = b
        BY <1>4, <1>110, <3>2
      <4>. QED  BY <1>2, <2>1, <4>1
    <3>3. CASE t \in Segs(q)
      <4>. DEFINE x == q.segments[t].abortSet
                  y == q.segments[t].blockedBoundary
      <4>1. x \in Sets(q) /\ y \in Sets(q) /\ p.segments[t].abortSet = x
            /\ p.segments[t].blockedBoundary = y
        BY <1>1, <1>12, <3>3 DEF Sound, Pointers
      <4>2. rank[x] < rank[y]
        BY <1>1, <2>4, <3>3, <4>1 DEF Ranked
      <4>. HIDE DEF x, y
      <4>. QED  BY <2>1, <4>1, <4>2
    <3>. QED  BY <1>110, <3>1, <3>2, <3>3
  <2>. QED  BY <2>1, <2>2, <2>3, <2>4, Zenon DEF Ranked
<1>17. Grown(q, p)
  <2>1. /\ p.status = q.status /\ p.thrown = q.thrown
        /\ p.allPendingTasks = q.allPendingTasks
        /\ p.pendingRootTasks = q.pendingRootTasks
        /\ p.shellReady = q.shellReady /\ p.allReady = q.allReady
        /\ p.completedRootSegment = q.completedRootSegment
        /\ p.document = q.document
    BY ONLY <1>9, <1>10
  <2>2. \A t \in Segs(p) \ Segs(q) :
          p.segments[t].blockedBoundary = 0 => ~p.segments[t].parentFlushed
    BY ONLY <1>2, <1>3, <1>4, <1>110
  <2>3. \A c \in Bounds(p) \ Bounds(q) :
          p.boundaries[c].pendingTasks = 0 /\ Tasks(p, c) = {}
    BY ONLY <1>5, <1>10, <1>13
  <2>. QED  BY ONLY <1>110, <1>12, <1>13, <1>15, <2>1, <2>2, <2>3 DEF Grown
<1>18. p.pingedTasks = q.pingedTasks /\ p.calls = q.calls /\ p.room = q.room
  BY ONLY <1>9, <1>10
<1>. QED
  BY ONLY <1>2, <1>3, <1>4, <1>9, <1>11, <1>13, <1>16, <1>17, <1>18 DEF IsEntered, b, o

LEMMA EnterBoundaryKeeps ==
  ASSUME IInv, EnterBoundary PROVE IInv'
<1>. DEFINE q == request
            s == Rendered
            a == q.segments[s].abortSet
            p == Entered(q, s, a)
            n == Len(q.segments)
            b == Len(q.boundaries) + 1
<1>1. PICK rank : QInv(q, rank)
  BY DEF IInv
<1>2. KInv(q, <<>>, rank) /\ Idle(q) /\ Rendering(q, stack) /\ Waiting(q, suspended)
      /\ stack # <<>> /\ Sound(q) /\ Homes(q)
  BY <1>1 DEF QInv, KInv, Shape, IInv, Idle, EnterBoundary
<1>3. Rendered1(q, stack, s) /\ TheTask = stack[1]
  BY <1>2, RenderedFacts DEF Rendered, TheTask
<1>4. request' = p /\ suspended' = suspended /\ stack' = Append(stack, n + 2)
      /\ loop' = loop
  <2>. DEFINE o == request.segments[Rendered].blockedBoundary
              c == Len(request.boundaries) + 1
              x == request.segments[TheTask].abortSet
              fallback == PendingSegment(c, o, c)
              content == [PendingSegment(0, c, x) EXCEPT !.parentFlushed = TRUE]
              y == content.abortSet
              new == SuspenseBoundary([blockedBoundary |-> o, abortSet |-> y])
  <2>1. /\ request' = [Child(request, Rendered, <<fallback, content>>) EXCEPT
                         !.boundaries = Append(@, new)]
        /\ stack' = Append(stack, Fresh + 1)
        /\ loop' = loop /\ suspended' = suspended
    BY DEF EnterBoundary, hostVars
  <2>2. x = a
    BY <1>3 DEF Rendered1
  <2>3. fallback = FallbackSegment(q, s) /\ content = ContentSegment(q, a)
    BY <2>2 DEF FallbackSegment, ContentSegment
  <2>4. y = a
    BY <2>2 DEF PendingSegment
  <2>5. new = NewBoundary(q, s, a)
    BY <2>4 DEF NewBoundary
  <2>6. Child(request, Rendered, <<fallback, content>>)
          = Extended(q, s, <<FallbackSegment(q, s), ContentSegment(q, a)>>)
    BY <2>3 DEF Child, Extended, Fresh
  <2>7. Fresh + 1 = n + 2
    BY <1>2 DEF Fresh, Sound, RequestRecord
  <2>. HIDE DEF new, content, fallback
  <2>. QED  BY <2>1, <2>5, <2>6, <2>7 DEF Entered, WithBoundary
<1>5. s \in Segs(q) /\ a = q.segments[s].abortSet /\ p = Entered(q, s, a)
      /\ b = Len(q.boundaries) + 1 /\ n = Len(q.segments)
  BY <1>3 DEF Rendered1
<1>. HIDE DEF q, s, a, p, n, b
<1>. DEFINE f == n + 1
            g == n + 2
            more == NewRank(q, rank, a)
<1>60. IsEntered(q, p, rank, s, a)
  BY <1>2, <1>5, EnteredGrown
<1>6. /\ Grown(q, p) /\ Ranked(p, more)
      /\ p.pingedTasks = q.pingedTasks /\ p.calls = q.calls /\ p.room = q.room
      /\ b # 0 /\ Tasks(p, b) = {} /\ n \in Nat
      /\ Segs(p) = Segs(q) \cup {f, g} /\ f \notin Segs(q) /\ g \notin Segs(q)
      /\ p.segments[f].status = "PENDING" /\ p.segments[f].boundary = b
      /\ p.segments[f].abortSet = b
      /\ p.segments[f].blockedBoundary = q.segments[s].blockedBoundary
      /\ p.segments[g].status = "PENDING" /\ p.segments[g].boundary = 0
      /\ p.segments[g].abortSet = a /\ p.segments[g].blockedBoundary = b
  BY ONLY <1>5, <1>60 DEF IsEntered
<1>7. f \in Nat /\ g \in Nat /\ g - 1 = f /\ f # g
  BY <1>6
<1>. HIDE DEF f, g, more
<1>8. KInv(p, <<>>, more) /\ Live(p) = Live(q) /\ Stays(q, p, f, g)
  BY <1>2, <1>6, GrownKeeps
<1>9. Idle(p)
  BY <1>2, <1>6 DEF Idle, Grown
<1>10. Waiting(p, suspended)
  <2>1. ASSUME NEW t \in ToSet(p.pingedTasks) \cup suspended
        PROVE  t \in Segs(p) /\ (p.segments[t].status = "PENDING" => t \in Live(p))
    <3>1. t \in Segs(q) /\ (q.segments[t].status = "PENDING" => t \in Live(q))
      BY <1>2, <1>6, <2>1 DEF Waiting
    <3>. QED  BY <1>6, <1>8, <3>1 DEF Grown
  <2>. QED  BY <2>1 DEF Waiting
<1>11. stack \in Seq(Nat) /\ Len(stack) \in 0..Len(stack)
       /\ SubSeq(stack, 1, Len(stack)) = stack
  BY <1>2 DEF Rendering
<1>12. Rendering(p, stack)
  <2>1. ASSUME NEW i \in 1..Len(stack)
        PROVE  /\ stack[i] # g
               /\ i > 1 => stack[i] # f /\ stack[i] - 1 # f /\ stack[i] - 1 # g
    <3>1. stack[i] \in Segs(q) /\ i \in DOMAIN stack
      BY <1>3 DEF Rendered1
    <3>2. i > 1 => stack[i] - 1 \in Segs(q)
      BY <1>2, <3>1 DEF Rendering, Content
    <3>. QED  BY <1>6, <3>1, <3>2
  <2>2. Rendering(p, SubSeq(stack, 1, Len(stack)))
    BY <1>2, <1>8, <1>11, <2>1, RenderingKept
  <2>. QED  BY <1>11, <2>2
<1>13. Rendering(p, Append(stack, g))
  <2>1. \A i \in DOMAIN stack : stack[i] # g
    BY <1>3, <1>6 DEF Rendered1
  <2>2. a \in Sets(q) /\ stack[1] \in Segs(q) /\ s = stack[Len(stack)]
        /\ q.segments[stack[1]].abortSet = a /\ s \in Segs(q)
    BY <1>3, <1>5 DEF Rendered1
  <2>3. p.segments[g].abortSet = p.segments[stack[1]].abortSet
    BY <1>6, <2>2 DEF Grown
  <2>4. g \notin Tasks(p, a)
    BY <1>2, <1>6, <2>2 DEF Grown, Homes
  <2>5. p.segments[s].blockedBoundary = q.segments[s].blockedBoundary
    BY <1>6, <2>2 DEF Grown
  <2>6. Content(p, stack[1], stack[Len(stack)], g)
    BY <1>6, <1>7, <2>2, <2>4, <2>5 DEF Content
  <2>. QED  BY <1>2, <1>6, <1>7, <1>12, <2>1, <2>3, <2>6, RenderingMore
<1>14. QInv(p, more)
  BY <1>8, <1>9 DEF QInv, Idle
<1>15. stack' = Append(stack, g)
  BY <1>4 DEF g
<1>16. loop \in Nat /\ loop > 0
  BY <1>2 DEF IInv
<1>. QED  BY <1>4, <1>9, <1>10, <1>13, <1>14, <1>15, <1>16 DEF IInv

-----------------------------------------------------------------------------
(* The content ends.                                                       *)
LEMMA EndedKeeps ==
  ASSUME NEW q, NEW e, NEW rank, NEW s \in Segs(q), KInv(q, <<>>, rank),
         Ended(q, e, s), s \notin Tasks(q, q.segments[s].abortSet),
         \A set : Tasks(e, set) = Tasks(q, set)
  PROVE  /\ KInv(e, <<>>, rank) /\ Live(e) = Live(q)
         /\ \A f : Stays(q, e, f, s)
<1>1. Base(q, <<>>, rank) /\ Sound(q) /\ Homes(q) /\ Cursors(q, <<>>)
      /\ Counts(q, <<>>, 0, 0) /\ Told(q)
  BY DEF KInv, Shape, Base
<1>2. Base(e, <<>>, rank)
  BY <1>1, EndedBase
<1>3. \A set \in Sets(q) : s \notin Tasks(q, set)
  BY <1>1 DEF Homes
<1>4. Segs(e) = Segs(q) /\ Bounds(e) = Bounds(q) /\ Sets(e) = Sets(q)
  BY DEF Ended, Sets
<1>5. Cursors(e, <<>>)
  <2>1. DOMAIN <<>> = {}
    OBVIOUS
  <2>2. ASSUME NEW set \in Sets(q), NEW t \in Tasks(q, set)
        PROVE  e.segments[t].status = "PENDING"
    <3>1. t \in Segs(q) /\ t # s /\ q.segments[t].status = "PENDING"
      BY <1>1, <1>3, <2>1, <2>2 DEF Homes, Cursors
    <3>. QED  BY <3>1 DEF Ended
  <2>. QED  BY <1>4, <2>1, <2>2 DEF Cursors
<1>6. Live(e) = Live(q)
  BY <1>4 DEF Live, Ended
<1>7. \A b : LiveOf(e, b) = LiveOf(q, b)
  <2>1. \A t \in Live(q) : e.segments[t].blockedBoundary = q.segments[t].blockedBoundary
    BY DEF Live, Ended
  <2>. QED  BY <1>6, <2>1 DEF LiveOf
<1>8. Counts(e, <<>>, 0, 0) /\ Told(e)
  BY <1>1, <1>4, <1>6, <1>7 DEF Counts, Told, Ended
<1>9. KInv(e, <<>>, rank)
  BY <1>2, <1>5, <1>8 DEF KInv, Shape, Base
<1>10. \A f : Stays(q, e, f, s)
  BY <1>4 DEF Stays, Ended
<1>. QED  BY <1>6, <1>9, <1>10

LEMMA PingFallbackKeeps ==
  ASSUME NEW q, NEW rank, NEW f \in Nat, NEW p, KInv(q, <<>>, rank), Homeless(q, f),
         p = PingFallback(q, f)
  PROVE  /\ KInv(p, <<>>, rank) /\ Live(p) = Live(q) \cup {f}
         /\ ToSet(p.pingedTasks) \subseteq ToSet(q.pingedTasks) \cup {f}
         /\ Segs(p) = Segs(q) /\ p.segments = q.segments
         /\ p.thrown = q.thrown /\ p.calls = q.calls /\ p.room = q.room
         /\ \A done : Stays(q, p, f, done)
<1>. DEFINE c == CreateRenderTask(q, f)
            set == q.segments[f].abortSet
<1>1. /\ KInv(c, <<>>, rank) /\ Live(c) = Live(q) \cup {f}
      /\ Tasks(c, set) = Tasks(q, set) \cup {f}
      /\ \A other \in Sets(q) : other # set => Tasks(c, other) = Tasks(q, other)
      /\ c.segments = q.segments /\ Segs(c) = Segs(q) /\ Bounds(c) = Bounds(q)
      /\ c.pingedTasks = q.pingedTasks /\ c.thrown = q.thrown
      /\ c.calls = q.calls /\ c.room = q.room
  BY CreateTaskKeeps
<1>2. p = [c EXCEPT !.pingedTasks = Append(@, f)]
  BY DEF PingFallback
<1>3. f \in Nat
  OBVIOUS
<1>. HIDE DEF c, set
<1>. DEFINE tasks == Append(c.pingedTasks, f)
<1>4. c \in RequestRecord /\ c.pingedTasks \in Seq(Nat)
  BY <1>1 DEF KInv, Shape, Sound, RequestRecord
<1>5. tasks \in Seq(Nat)
      /\ \A i \in DOMAIN tasks : tasks[i] = f \/ tasks[i] \in ToSet(c.pingedTasks)
  BY <1>3, <1>4 DEF ToSet
<1>6. p = [c EXCEPT !.pingedTasks = tasks]
  BY <1>2
<1>. HIDE DEF tasks
<1>7. SameButHost(c, p) /\ p.pingedTasks = tasks /\ p.room = c.room
  BY ONLY <1>4, <1>5, <1>6 DEF SameButHost, RequestRecord
<1>8. /\ KInv(p, <<>>, rank) /\ Segs(p) = Segs(c) /\ Live(p) = Live(c)
      /\ \A other : Tasks(p, other) = Tasks(c, other)
  BY <1>1, <1>7, SameButHostKeeps
<1>9. ToSet(tasks) \subseteq ToSet(q.pingedTasks) \cup {f}
  BY <1>1, <1>5 DEF ToSet
<1>10. p.segments = q.segments /\ p.thrown = q.thrown /\ p.calls = q.calls
       /\ p.room = q.room
  BY <1>1, <1>7 DEF SameButHost
<1>11. \A done : Stays(q, p, f, done)
  <2>1. ASSUME NEW other \in Sets(q)
        PROVE  Tasks(q, other) \subseteq Tasks(p, other)
               /\ Tasks(p, other) \subseteq Tasks(q, other) \cup {f}
    BY <1>1, <1>8
  <2>. QED  BY <1>1, <1>8, <1>10, <2>1 DEF Stays
<1>. QED  BY <1>1, <1>7, <1>8, <1>9, <1>10, <1>11

(* The content that is being rendered, s, and the fallback before it.      *)
ContentIn(q, st, s) ==
  LET b == q.segments[s].blockedBoundary
      f == s - 1
  IN  /\ s \in Segs(q) /\ s \in Nat \ {0} /\ b \in Bounds(q)
      /\ s \notin Tasks(q, q.segments[s].abortSet)
      /\ f \in Segs(q) /\ f \in Nat /\ f # s /\ q.segments[f].status = "PENDING"
      /\ q.segments[f].abortSet = b /\ f \notin Tasks(q, b)
      /\ q.allPendingTasks > 0
      /\ q.segments[f].blockedBoundary = 0 => q.pendingRootTasks > 0
      /\ Len(st) \in Nat /\ Len(st) - 1 \in 0..Len(st)
      /\ Front(st) = SubSeq(st, 1, Len(st) - 1)
      /\ \A i \in 1..(Len(st) - 1) :
           /\ st[i] # s
           /\ i > 1 => st[i] # f /\ st[i] - 1 # f /\ st[i] - 1 # s

LEMMA ContentFacts ==
  ASSUME NEW q, NEW rank, NEW st, NEW s, KInv(q, <<>>, rank), Rendering(q, st),
         Len(st) > 1, s = Last(st)
  PROVE  ContentIn(q, st, s) /\ st # <<>>
<1>1. st \in Seq(Nat) /\ Len(st) \in Nat /\ DOMAIN st = 1..Len(st)
  BY LenProperties DEF Rendering
<1>2. st # <<>> /\ s = st[Len(st)] /\ Front(st) = SubSeq(st, 1, Len(st) - 1)
      /\ Len(st) \in DOMAIN st /\ Len(st) - 1 \in DOMAIN st /\ 1 \in DOMAIN st
      /\ Len(st) - 1 \in 0..Len(st)
  BY <1>1 DEF Last, Front
<1>3. Rendered1(q, st, s)
      /\ \A i \in 1..Len(st) :
           q.segments[st[i]].blockedBoundary = 0 => q.pendingRootTasks > 0
  BY <1>2, RenderedFacts
<1>. DEFINE b == q.segments[s].blockedBoundary
            f == s - 1
            outer == st[Len(st) - 1]
<1>4. Content(q, st[1], outer, s) /\ s \in Segs(q) /\ Sound(q)
  BY <1>2 DEF Rendering, KInv, Shape
<1>5. s \in Nat \ {0} /\ f \in Nat /\ f # s
  <2>1. s \in Nat \ {0}
    BY <1>4, Records
  <2>. QED  BY <2>1
<1>6. b \in Bounds(q)
  BY <1>3, <1>4 DEF Rendered1, Content, Sets
<1>7. q.segments[f].blockedBoundary = 0 => q.pendingRootTasks > 0
  BY <1>1, <1>2, <1>3, <1>4, Zenon DEF Content
<1>8. ASSUME NEW i \in 1..(Len(st) - 1)
      PROVE  /\ st[i] # s
             /\ i > 1 => st[i] # f /\ st[i] - 1 # f /\ st[i] - 1 # s
  <2>1. i \in DOMAIN st /\ i # Len(st)
    <3>1. \A k \in Nat : \A j \in 1..(k - 1) : j \in 1..k /\ j # k
      OBVIOUS
    <3>2. i \in 1..Len(st) /\ i # Len(st)
      BY <1>1, <3>1, Zenon
    <3>. QED  BY <1>1, <3>2, Zenon
  <2>2. st[i] # s /\ st[i] \in Segs(q)
    BY <1>2, <2>1 DEF Rendering
  <2>3. st[i] \in Nat
    BY <1>4, <2>2, Records
  <2>4. ASSUME i > 1 PROVE st[i] # f /\ st[i] - 1 # f /\ st[i] - 1 # s
    <3>1. Content(q, st[1], st[i - 1], st[i])
      BY <2>1, <2>4 DEF Rendering
    <3>2. q.segments[st[i]].boundary = 0 /\ q.segments[f].boundary # 0
          /\ q.segments[s].boundary = 0 /\ q.segments[st[i] - 1].boundary # 0
      BY <1>4, <3>1 DEF Content
    <3>3. st[i] - 1 # f
      BY <1>5, <2>2, <2>3
    <3>. QED  BY <3>2, <3>3
  <2>. QED  BY <2>2, <2>4
<1>9. /\ s \notin Tasks(q, q.segments[s].abortSet) /\ f \in Segs(q)
      /\ q.segments[f].status = "PENDING"
      /\ q.segments[f].abortSet = b /\ f \notin Tasks(q, b)
  BY <1>4 DEF Content
<1>10. q.allPendingTasks > 0
  BY <1>3 DEF Rendered1
<1>. HIDE DEF b, f
<1>11. ContentIn(q, st, s)
  BY ONLY <1>1, <1>2, <1>4, <1>5, <1>6, <1>7, <1>8, <1>9, <1>10 DEF ContentIn, b, f
<1>. QED  BY <1>2, <1>11

(* Only segment s is not pending any more.                                 *)
Ahead(q, x, s) ==
  /\ \A f : Stays(q, x, f, s)
  /\ Segs(x) = Segs(q) /\ Bounds(x) = Bounds(q) /\ Live(x) = Live(q)
  /\ \A t \in Segs(q) :
       x.segments[t].status = "PENDING" => q.segments[t].status = "PENDING"
  /\ x.allPendingTasks = q.allPendingTasks
  /\ x.pendingRootTasks = q.pendingRootTasks /\ x.pingedTasks = q.pingedTasks

LEMMA AheadEnded ==
  ASSUME NEW q, NEW e, NEW rank, NEW s \in Segs(q), KInv(q, <<>>, rank),
         Ended(q, e, s), s \notin Tasks(q, q.segments[s].abortSet),
         \A set : Tasks(e, set) = Tasks(q, set)
  PROVE  KInv(e, <<>>, rank) /\ Ahead(q, e, s)
<1>1. /\ KInv(e, <<>>, rank) /\ Live(e) = Live(q)
      /\ \A f : Stays(q, e, f, s)
  BY EndedKeeps
<1>. QED  BY <1>1 DEF Ahead, Ended

LEMMA AheadKept ==
  ASSUME NEW q, NEW x, NEW y, NEW s, Ahead(q, x, s), Sound(x), Kept(x, y)
  PROVE  Ahead(q, y, s)
<1>1. Live(y) = Live(x) /\ Segs(y) = Segs(x) /\ Bounds(y) = Bounds(x)
      /\ Sets(x) = Sets(q) /\ Segs(x) = Segs(q)
      /\ \A set \in Sets(x) : Tasks(y, set) = Tasks(x, set)
  BY KeptLive, KeptTasks DEF Kept, Ahead, Sets
<1>2. ASSUME NEW f PROVE Stays(q, y, f, s)
  <2>1. Stays(q, x, f, s)
    BY DEF Ahead
  <2>. QED  BY <1>1, <2>1 DEF Stays, Kept
<1>. QED  BY <1>1, <1>2 DEF Ahead, Kept

LEMMA ContentEnded ==
  ASSUME NEW q, NEW st, NEW s, NEW tasks, NEW p, NEW x, ContentIn(q, st, s),
         Rendering(q, st), Waiting(q, tasks), Sound(q), Ahead(q, x, s),
         \/ p = x
         \/ /\ Stays(x, p, s - 1, s) /\ p.segments = x.segments
            /\ Live(p) = Live(x) \cup {s - 1}
            /\ ToSet(p.pingedTasks) \subseteq ToSet(x.pingedTasks) \cup {s - 1}
  PROVE  Rendering(p, Front(st)) /\ Waiting(p, tasks)
<1>. DEFINE f == s - 1
<1>1. Segs(x) = Segs(q) /\ Sets(x) = Sets(q) /\ Segs(p) = Segs(x)
  BY DEF Ahead, Sets, Segs
<1>2. Stays(q, x, f, s)
  BY DEF Ahead
<1>3. Stays(q, p, f, s)
  <2>1. CASE p = x
    BY <1>2, <2>1
  <2>2. CASE Stays(x, p, f, s)
    <3>. HIDE DEF f
    <3>1. ASSUME NEW set \in Sets(q)
          PROVE  Tasks(q, set) \subseteq Tasks(p, set)
                 /\ Tasks(p, set) \subseteq Tasks(q, set) \cup {f}
      BY <1>1, <1>2, <2>2 DEF Stays
    <3>. QED  BY <1>1, <1>2, <2>2, <3>1 DEF Stays
  <2>. QED  BY <2>1, <2>2
<1>4. Rendering(p, Front(st))
  <2>1. Len(st) - 1 \in 0..Len(st) /\ Front(st) = SubSeq(st, 1, Len(st) - 1)
        /\ \A i \in 1..(Len(st) - 1) :
             /\ st[i] # s
             /\ i > 1 => st[i] # f /\ st[i] - 1 # f /\ st[i] - 1 # s
    BY DEF ContentIn
  <2>. DEFINE k == Len(st) - 1
  <2>. HIDE DEF k, f
  <2>2. k \in 0..Len(st) /\ Front(st) = SubSeq(st, 1, k)
        /\ \A i \in 1..k : /\ st[i] # s
                           /\ i > 1 => st[i] # f /\ st[i] - 1 # f /\ st[i] - 1 # s
    BY <2>1 DEF k
  <2>3. Rendering(p, SubSeq(st, 1, k))
    BY <1>3, <2>2, RenderingKept
  <2>. QED  BY <2>2, <2>3
<1>5. ASSUME NEW t \in ToSet(p.pingedTasks) \cup tasks
      PROVE  t \in Segs(p) /\ (p.segments[t].status = "PENDING" => t \in Live(p))
  <2>1. CASE t = f /\ t \in Live(p)
    BY <2>1 DEF Live
  <2>2. CASE t \in ToSet(x.pingedTasks) \cup tasks
    <3>1. t \in ToSet(q.pingedTasks) \cup tasks
      BY <2>2 DEF Ahead
    <3>2. t \in Segs(q) /\ (q.segments[t].status = "PENDING" => t \in Live(q))
      BY <3>1 DEF Waiting
    <3>3. t \in Segs(p) /\ (p.segments[t].status = "PENDING"
                              => q.segments[t].status = "PENDING")
      BY <1>1, <3>2 DEF Ahead
    <3>4. t \in Live(q) => t \in Live(p)
      BY DEF Ahead
    <3>. QED  BY <3>2, <3>3, <3>4
  <2>. QED  BY <1>5, <2>1, <2>2
<1>. QED  BY <1>4, <1>5 DEF Waiting

LEMMA FallbackHomeless ==
  ASSUME NEW q, NEW st, NEW s, NEW x, ContentIn(q, st, s), Ahead(q, x, s)
  PROVE  Homeless(x, s - 1)
<1>. DEFINE f == s - 1
            b == q.segments[s].blockedBoundary
<1>1. /\ b \in Bounds(q) /\ f \in Segs(q) /\ f # s /\ q.segments[f].status = "PENDING"
      /\ q.segments[f].abortSet = b /\ f \notin Tasks(q, b)
      /\ q.allPendingTasks > 0
      /\ q.segments[f].blockedBoundary = 0 => q.pendingRootTasks > 0
  BY DEF ContentIn
<1>2. Stays(q, x, s, s)
  BY DEF Ahead
<1>. HIDE DEF f, b
<1>3. /\ f \in Segs(x) /\ x.segments[f].status = "PENDING" /\ x.segments[f].abortSet = b
      /\ x.segments[f].blockedBoundary = q.segments[f].blockedBoundary
  BY <1>1, <1>2 DEF Stays
<1>4. f \notin Tasks(x, b)
  BY <1>1, <1>2 DEF Stays, Sets
<1>5. Homeless(x, f)
  BY <1>1, <1>3, <1>4 DEF Homeless, Ahead
<1>. QED  BY <1>5 DEF f

(* ... and the fallback becomes a task.                                    *)
LEMMA FallbackPinged ==
  ASSUME NEW q, NEW rank, NEW st, NEW s, NEW tasks, NEW x, NEW p, ContentIn(q, st, s),
         Rendering(q, st), Waiting(q, tasks), Sound(q), Ahead(q, x, s),
         KInv(x, <<>>, rank), p = PingFallback(x, s - 1)
  PROVE  /\ KInv(p, <<>>, rank) /\ Rendering(p, Front(st)) /\ Waiting(p, tasks)
         /\ p.thrown = x.thrown /\ p.calls = x.calls /\ p.room = x.room
<1>. DEFINE f == s - 1
<1>1. Homeless(x, f) /\ f \in Nat /\ p = PingFallback(x, f)
  BY FallbackHomeless DEF ContentIn
<1>. HIDE DEF f
<1>2. /\ KInv(p, <<>>, rank) /\ Live(p) = Live(x) \cup {f}
      /\ ToSet(p.pingedTasks) \subseteq ToSet(x.pingedTasks) \cup {f}
      /\ Segs(p) = Segs(x) /\ p.segments = x.segments
      /\ p.thrown = x.thrown /\ p.calls = x.calls /\ p.room = x.room
      /\ Stays(x, p, f, s)
  BY <1>1, PingFallbackKeeps
<1>3. Rendering(p, Front(st)) /\ Waiting(p, tasks)
  BY <1>2, ContentEnded DEF f
<1>. QED  BY <1>2, <1>3

(* The boundary will be rendered by the client.                            *)
LEMMA ContentThrowsKeeps ==
  ASSUME IInv, ContentThrows PROVE IInv'
<1>. DEFINE q == request
            s == Rendered
            b == q.segments[s].blockedBoundary
            e == [q EXCEPT !.segments[s].status = "ERRORED"]
            x == [e EXCEPT !.boundaries[b].status = "CLIENT_RENDERED"]
            p == PingFallback(x, s - 1)
<1>1. PICK rank : QInv(q, rank)
  BY DEF IInv
<1>2. KInv(q, <<>>, rank) /\ Idle(q) /\ Rendering(q, stack) /\ Waiting(q, suspended)
      /\ Len(stack) > 1 /\ Sound(q) /\ loop \in Nat /\ (stack # <<>> => loop > 0)
  BY <1>1 DEF QInv, KInv, Shape, IInv, Idle, ContentThrows
<1>3. ContentIn(q, stack, s) /\ stack # <<>>
  BY <1>2, ContentFacts DEF Rendered
<1>4. /\ s \in Segs(q) /\ b \in Bounds(q) /\ s \notin Tasks(q, q.segments[s].abortSet)
  BY <1>3 DEF ContentIn
<1>5. request' = p /\ stack' = Front(stack) /\ loop' = loop /\ suspended' = suspended
  BY DEF ContentThrows, hostVars
<1>6. e = [q EXCEPT !.segments[s].status = "ERRORED"]
      /\ x = [e EXCEPT !.boundaries[b].status = "CLIENT_RENDERED"]
  OBVIOUS
<1>61. p = PingFallback(x, s - 1)
  OBVIOUS
<1>. HIDE DEF q, s, b, e, x, p
<1>7. /\ Ended(q, e, s) /\ e.calls = q.calls /\ \A set : Tasks(e, set) = Tasks(q, set)
  <2>1. "ERRORED" \in {"COMPLETED", "FLUSHED", "ABORTED", "ERRORED"}
    OBVIOUS
  <2>. QED  BY <1>2, <1>4, <1>6, <2>1, StatusChange
<1>8. KInv(e, <<>>, rank) /\ Ahead(q, e, s)
  BY <1>2, <1>4, <1>7, AheadEnded
<1>9. KInv(x, <<>>, rank) /\ Ahead(q, x, s) /\ x.thrown = e.thrown /\ x.calls = e.calls
      /\ x.room = e.room
  <2>1. b \in Bounds(e) /\ Sound(e)
    BY <1>4, <1>8 DEF Ahead, KInv, Shape
  <2>. DEFINE y == [e EXCEPT !.boundaries[b].status = "CLIENT_RENDERED"]
  <2>2. Alters(e, y)
    BY <2>1, AltersStatus
  <2>3. y = x
    BY <1>6
  <2>4. x.room = e.room
    BY <1>6, <2>1 DEF Sound, RequestRecord
  <2>. HIDE DEF y
  <2>5. KInv(x, <<>>, rank) /\ Kept(e, x) /\ x.thrown = e.thrown /\ x.calls = e.calls
    BY <1>8, <2>2, <2>3, AltersKInv DEF Alters, Sends
  <2>. QED  BY <1>8, <2>1, <2>4, <2>5, AheadKept
<1>10. /\ KInv(p, <<>>, rank) /\ Rendering(p, Front(stack)) /\ Waiting(p, suspended)
       /\ p.thrown = x.thrown /\ p.calls = x.calls /\ p.room = x.room
  BY <1>2, <1>3, <1>61, <1>9, FallbackPinged
<1>11. e.room = q.room /\ e.thrown = q.thrown
  <2>1. q \in RequestRecord
    BY <1>2 DEF Sound
  <2>. QED  BY ONLY <1>6, <2>1 DEF RequestRecord
<1>12. Idle(p)
  BY <1>2, <1>7, <1>9, <1>10, <1>11 DEF Idle
<1>13. QInv(p, rank)
  BY <1>10, <1>12 DEF QInv, Idle
<1>. QED  BY <1>2, <1>3, <1>5, <1>10, <1>12, <1>13 DEF IInv

-----------------------------------------------------------------------------
(* The content ends, and two calls follow.                                 *)
Pops(x, c, calls, rank, rest) ==
  /\ MakeNext(x) = Make(rest, c) /\ Sound(rest)
  /\ rest.calls = calls /\ rest.thrown = FALSE
  /\ Kept(x, rest) /\ KInv(rest, <<>>, rank)

LEMMA MakesFirst ==
  ASSUME NEW x, NEW c, c \in CallRecord, NEW calls, calls \in Seq(CallRecord),
         NEW rank, KInv(x, <<>>, rank), x.thrown = FALSE, x.calls = <<c>> \o calls
  PROVE  \E rest : Pops(x, c, calls, rank, rest)
<1>. DEFINE rest == [x EXCEPT !.calls = calls]
<1>0. Sound(x)
  BY DEF KInv, Shape
<1>1. /\ <<c>> \o calls # <<>> /\ Head(<<c>> \o calls) = c
      /\ Tail(<<c>> \o calls) = calls
  OBVIOUS
<1>2. rest = [x EXCEPT !.calls = Tail(@)]
  BY <1>1
<1>3. MakeNext(x) = Make(rest, c)
  BY <1>1, <1>2 DEF MakeNext
<1>4. rest = [x EXCEPT !.calls = calls]
  OBVIOUS
<1>. HIDE DEF rest
<1>5. /\ Sound(rest) /\ rest.calls = calls /\ rest.thrown = x.thrown
      /\ KInv(rest, <<>>, rank)
  BY <1>0, <1>4, KInvCalls
<1>6. /\ rest.segments = x.segments /\ rest.boundaries = x.boundaries
      /\ rest.status = x.status /\ rest.abortableTasks = x.abortableTasks
      /\ rest.allPendingTasks = x.allPendingTasks
      /\ rest.pendingRootTasks = x.pendingRootTasks
      /\ rest.pingedTasks = x.pingedTasks
      /\ rest.shellReady = x.shellReady /\ rest.allReady = x.allReady
      /\ rest.completedRootSegment = x.completedRootSegment
      /\ rest.document = x.document
  BY <1>0, <1>4 DEF Sound, RequestRecord
<1>7. Kept(x, rest)
  BY <1>6 DEF Kept, Segs, Bounds
<1>. QED  BY <1>3, <1>5, <1>7 DEF Pops

ContentCall(s, b) == Call("contentQueued", s, b)
SegmentCall(s, b) == Call("queueCompletedSegment", s, b)

(* One of the calls is next ...                                            *)
InContent(q, s, rank, x) ==
  LET b == q.segments[s].blockedBoundary
  IN  /\ KInv(x, <<>>, rank) /\ x.thrown = FALSE /\ Ahead(q, x, s)
      /\ \/ x.calls = <<ContentCall(s, b)>>
         \/ \E child \in Segs(q) :
              /\ q.segments[child].blockedBoundary = b
              /\ x.calls = <<SegmentCall(child, b)>> \o <<ContentCall(s, b)>>

(* ... or both have been made.                                             *)
OutOfContent(st, tasks, rank, x) ==
  /\ KInv(x, <<>>, rank) /\ x.thrown = FALSE /\ x.calls = <<>>
  /\ Rendering(x, Front(st)) /\ Waiting(x, tasks)

LEMMA NoCaughts == Caughts(FALSE, <<>>)
<1>1. DOMAIN <<>> = {}
  OBVIOUS
<1>. QED  BY <1>1 DEF Caughts

LEMMA ContentCalls ==
  ASSUME NEW q, NEW s \in Segs(q), NEW b \in Bounds(q), Sound(q)
  PROVE  /\ LET c == ContentCall(s, b)
            IN  c \in CallRecord /\ c.op = "contentQueued" /\ c.s = s /\ c.b = b
         /\ LET c == SegmentCall(s, b)
            IN  /\ c \in CallRecord /\ c.op = "queueCompletedSegment"
                /\ c.s = s /\ c.b = b
<1>1. s \in Nat /\ b \in Nat
  BY Records
<1>2. ASSUME NEW c, c = ContentCall(s, b)
      PROVE  c \in CallRecord /\ c.op = "contentQueued" /\ c.s = s /\ c.b = b
  BY <1>1, <1>2 DEF ContentCall, Call, CallRecord
<1>3. ASSUME NEW c, c = SegmentCall(s, b)
      PROVE  /\ c \in CallRecord /\ c.op = "queueCompletedSegment"
             /\ c.s = s /\ c.b = b
  BY <1>1, <1>3, CallType, OpNames DEF SegmentCall
<1>. QED  BY <1>2, <1>3

LEMMA SegmentQueued ==
  ASSUME NEW q, NEW s, NEW rank, NEW x, NEW b, b = q.segments[s].blockedBoundary,
         Sound(q), s \in Segs(q), b \in Bounds(q), NEW child \in Segs(q),
         KInv(x, <<>>, rank), x.thrown = FALSE, Ahead(q, x, s),
         q.segments[child].blockedBoundary = b,
         x.calls = <<SegmentCall(child, b)>> \o <<ContentCall(s, b)>>
  PROVE  InContent(q, s, rank, MakeNext(x))
<1>. DEFINE c == SegmentCall(child, b)
            d == ContentCall(s, b)
<1>1. /\ c \in CallRecord /\ c.op = "queueCompletedSegment" /\ c.s = child /\ c.b = b
      /\ d \in CallRecord
  BY ContentCalls
<1>2. x.calls = <<c>> \o <<d>>
  OBVIOUS
<1>21. c = SegmentCall(child, b) /\ d = ContentCall(s, b)
  OBVIOUS
<1>. HIDE DEF c, d
<1>. DEFINE calls == <<d>>
<1>3. calls \in Seq(CallRecord) /\ x.calls = <<c>> \o calls
  BY <1>1, <1>2
<1>. HIDE DEF calls
<1>30. KInv(x, <<>>, rank) /\ x.thrown = FALSE /\ c \in CallRecord
  BY <1>1
<1>31. PICK rest : Pops(x, c, calls, rank, rest)
  BY ONLY <1>3, <1>30, MakesFirst
<1>4. /\ MakeNext(x) = Make(rest, c) /\ Sound(rest)
      /\ rest.calls = <<d>> /\ rest.thrown = FALSE
      /\ Kept(x, rest) /\ KInv(rest, <<>>, rank)
  BY <1>31 DEF calls, Pops
<1>. DEFINE p == QueueCompletedSegment(rest, child, b)
<1>5. MakeNext(x) = p
  BY <1>1, <1>4 DEF Make
<1>6. Ahead(q, rest, s)
  BY <1>4, AheadKept DEF KInv, Shape
<1>7. /\ child \in Segs(rest) /\ b \in Bounds(rest) /\ Segs(rest) = Segs(q)
      /\ \A t \in Segs(q) :
           rest.segments[t].blockedBoundary = q.segments[t].blockedBoundary
  <2>1. Stays(q, rest, s, s)
    BY <1>6 DEF Ahead
  <2>. QED  BY <1>6, <2>1 DEF Ahead, Stays
<1>8. \/ Alters(rest, p)
      \/ \E o, other :
           /\ Alters(rest, o) /\ other \in Segs(rest)
           /\ rest.segments[other].blockedBoundary = b
           /\ p = Calling(o, <<SegmentCall(other, b)>>)
  BY <1>4, <1>7, QueueCases DEF SegmentCall
<1>. HIDE DEF p
<1>9. ASSUME NEW o, Alters(rest, o)
      PROVE  /\ KInv(o, <<>>, rank) /\ o.thrown = FALSE /\ o.calls = <<d>>
             /\ Ahead(q, o, s) /\ Sound(o)
  <2>1. KInv(o, <<>>, rank) /\ Kept(rest, o) /\ o.thrown = FALSE /\ o.calls = <<d>>
    BY <1>4, <1>9, AltersKInv DEF Alters, Sends
  <2>. QED  BY <1>4, <1>6, <2>1, AheadKept DEF KInv, Shape
<1>10. CASE Alters(rest, p)
  <2>1. /\ KInv(p, <<>>, rank) /\ p.thrown = FALSE /\ p.calls = <<d>>
        /\ Ahead(q, p, s)
    BY <1>9, <1>10
  <2>. QED  BY <1>21, <1>5, <2>1 DEF InContent
<1>11. ASSUME NEW o, NEW other \in Segs(rest), Alters(rest, o),
              rest.segments[other].blockedBoundary = b,
              p = Calling(o, <<SegmentCall(other, b)>>)
       PROVE  InContent(q, s, rank, MakeNext(x))
  <2>1. /\ KInv(o, <<>>, rank) /\ o.thrown = FALSE /\ o.calls = <<d>>
        /\ Ahead(q, o, s) /\ Sound(o)
    BY <1>9, <1>11
  <2>2. other \in Segs(q) /\ q.segments[other].blockedBoundary = b
    BY <1>7, <1>11
  <2>3. SegmentCall(other, b) \in CallRecord
    BY <2>2, ContentCalls
  <2>. DEFINE new == <<SegmentCall(other, b)>>
  <2>4. new \in Seq(CallRecord)
    BY <2>3
  <2>5. p = Calling(o, new)
    BY <1>11
  <2>. HIDE DEF new
  <2>6. Kept(o, p) /\ Sound(p) /\ p.calls = new \o <<d>> /\ p.thrown = FALSE
    BY <2>1, <2>4, <2>5, CallingKept
  <2>7. KInv(p, <<>>, rank)
    BY <2>1, <2>6, NoCaughts, KeptKInv
  <2>8. Ahead(q, p, s)
    BY <2>1, <2>6, AheadKept
  <2>9. p.calls = <<SegmentCall(other, b)>> \o <<ContentCall(s, b)>>
    BY <1>21, <2>6 DEF new
  <2>. QED  BY <1>5, <2>2, <2>6, <2>7, <2>8, <2>9 DEF InContent
<1>. QED  BY <1>8, <1>10, <1>11

(* No task of the boundary is left, or its fallback is to be rendered.     *)
LEMMA ContentQueuedEnds ==
  ASSUME NEW q, NEW st, NEW tasks, NEW s, NEW rank, NEW x,
         NEW b, b = q.segments[s].blockedBoundary, Sound(q),
         ContentIn(q, st, s), Rendering(q, st), Waiting(q, tasks),
         KInv(x, <<>>, rank), x.thrown = FALSE, Ahead(q, x, s),
         x.calls = <<ContentCall(s, b)>>
  PROVE  OutOfContent(st, tasks, rank, MakeNext(x))
<1>. DEFINE c == ContentCall(s, b)
<1>0. s \in Segs(q) /\ b \in Bounds(q)
  BY DEF ContentIn
<1>1. c \in CallRecord /\ c.op = "contentQueued" /\ c.s = s /\ c.b = b
  BY <1>0, ContentCalls
<1>2. x.calls = <<c>>
  OBVIOUS
<1>. HIDE DEF c
<1>. DEFINE none == <<>>
<1>3. none \in Seq(CallRecord) /\ none = <<>>
  OBVIOUS
<1>. HIDE DEF none
<1>31. x.calls = <<c>> \o none
  BY <1>1, <1>2, <1>3
<1>32. KInv(x, <<>>, rank) /\ x.thrown = FALSE /\ c \in CallRecord
  BY <1>1
<1>33. PICK rest : Pops(x, c, none, rank, rest)
  BY ONLY <1>3, <1>31, <1>32, MakesFirst
<1>4. /\ MakeNext(x) = Make(rest, c) /\ Sound(rest)
      /\ rest.calls = none /\ rest.thrown = FALSE
      /\ Kept(x, rest) /\ KInv(rest, <<>>, rank)
  BY <1>33 DEF Pops
<1>5. MakeNext(x) = ContentQueued(rest, s, b)
  BY <1>1, <1>4 DEF Make
<1>6. Ahead(q, rest, s)
  BY <1>4, AheadKept DEF KInv, Shape
<1>7. CASE rest.boundaries[b].pendingTasks = 0
  <2>. DEFINE p == [rest EXCEPT !.boundaries[b].status = "COMPLETED"]
  <2>1. MakeNext(x) = p
    BY <1>5, <1>7 DEF ContentQueued
  <2>2. b \in Bounds(rest)
    BY <1>0, <1>6 DEF Ahead
  <2>3. Alters(rest, p)
    BY <1>4, <2>2, AltersStatus
  <2>. HIDE DEF p
  <2>4. KInv(p, <<>>, rank) /\ Kept(rest, p) /\ p.thrown = FALSE /\ p.calls = none
    BY <1>4, <2>3, AltersKInv DEF Alters, Sends
  <2>5. Ahead(q, p, s)
    BY <1>4, <1>6, <2>4, AheadKept
  <2>6. Rendering(p, Front(st)) /\ Waiting(p, tasks)
    BY <2>5, ContentEnded
  <2>. QED  BY <1>3, <2>1, <2>4, <2>6 DEF OutOfContent
<1>8. CASE rest.boundaries[b].pendingTasks # 0
  <2>. DEFINE p == PingFallback(rest, s - 1)
  <2>1. MakeNext(x) = p
    BY <1>5, <1>8 DEF ContentQueued
  <2>2. p = PingFallback(rest, s - 1)
    OBVIOUS
  <2>. HIDE DEF p
  <2>3. /\ ContentIn(q, st, s) /\ Rendering(q, st) /\ Waiting(q, tasks) /\ Sound(q)
        /\ KInv(rest, <<>>, rank)
    BY <1>4
  <2>4. /\ KInv(p, <<>>, rank) /\ Rendering(p, Front(st)) /\ Waiting(p, tasks)
        /\ p.thrown = rest.thrown /\ p.calls = rest.calls
    BY ONLY <1>6, <2>2, <2>3, FallbackPinged
  <2>. QED  BY <1>3, <1>4, <2>1, <2>4 DEF OutOfContent
<1>. QED  BY <1>7, <1>8

LEMMA ContentStep ==
  ASSUME NEW q, NEW st, NEW tasks, NEW s, NEW rank, NEW x, Sound(q),
         ContentIn(q, st, s), Rendering(q, st), Waiting(q, tasks),
         InContent(q, s, rank, x) \/ OutOfContent(st, tasks, rank, x)
  PROVE  \/ InContent(q, s, rank, MakeNext(x))
         \/ OutOfContent(st, tasks, rank, MakeNext(x))
<1>1. CASE OutOfContent(st, tasks, rank, x)
  BY <1>1 DEF OutOfContent, MakeNext
<1>2. CASE InContent(q, s, rank, x)
  <2>1. PICK b : b = q.segments[s].blockedBoundary
    OBVIOUS
  <2>2. s \in Segs(q) /\ b \in Bounds(q)
    BY <2>1 DEF ContentIn
  <2>3. /\ KInv(x, <<>>, rank) /\ x.thrown = FALSE /\ Ahead(q, x, s)
        /\ \/ x.calls = <<ContentCall(s, b)>>
           \/ \E child \in Segs(q) :
                /\ q.segments[child].blockedBoundary = b
                /\ x.calls = <<SegmentCall(child, b)>> \o <<ContentCall(s, b)>>
    BY <1>2, <2>1 DEF InContent
  <2>4. CASE x.calls = <<ContentCall(s, b)>>
    BY <2>1, <2>3, <2>4, ContentQueuedEnds
  <2>5. ASSUME NEW child \in Segs(q), q.segments[child].blockedBoundary = b,
               x.calls = <<SegmentCall(child, b)>> \o <<ContentCall(s, b)>>
        PROVE  InContent(q, s, rank, MakeNext(x))
    BY <2>1, <2>2, <2>3, <2>5, SegmentQueued, Zenon
  <2>. QED  BY <2>3, <2>4, <2>5
<1>. QED  BY <1>1, <1>2

LEMMA ContentStarts ==
  ASSUME NEW q, NEW st, NEW s, NEW rank, NEW empty \in BOOLEAN, NEW b,
         b = q.segments[s].blockedBoundary, KInv(q, <<>>, rank), Idle(q),
         ContentIn(q, st, s), NEW r,
         r = Calling(CompletedIn(q, s, empty), <<SegmentCall(s, b), ContentCall(s, b)>>)
  PROVE  InContent(q, s, rank, r)
<1>1. Sound(q) /\ s \in Segs(q) /\ b \in Bounds(q)
      /\ s \notin Tasks(q, q.segments[s].abortSet) /\ q.calls = <<>> /\ q.thrown = FALSE
  BY DEF ContentIn, KInv, Shape, Idle
<1>. DEFINE e == CompletedIn(q, s, empty)
            c == SegmentCall(s, b)
            d == ContentCall(s, b)
<1>2. Ended(q, e, s) /\ e.calls = q.calls /\ \A set : Tasks(e, set) = Tasks(q, set)
  BY <1>1, CompletedEnds
<1>3. e.thrown = q.thrown
  <2>1. q \in RequestRecord
    BY <1>1 DEF Sound
  <2>. QED  BY ONLY <2>1 DEF CompletedIn, RequestRecord
<1>4. c \in CallRecord /\ d \in CallRecord
  BY <1>1, ContentCalls
<1>5. r = Calling(e, <<c, d>>)
  OBVIOUS
<1>. HIDE DEF e
<1>6. KInv(e, <<>>, rank) /\ Ahead(q, e, s)
  BY <1>1, <1>2, AheadEnded
<1>. DEFINE new == <<c, d>>
            none == <<>>
<1>61. c = SegmentCall(s, b) /\ d = ContentCall(s, b)
  OBVIOUS
<1>. HIDE DEF c, d
<1>7. new \in Seq(CallRecord) /\ new = <<c>> \o <<d>> /\ new \o none = new
      /\ none = <<>>
  <2>1. new \in Seq(CallRecord) /\ new \o none = new
    BY <1>4
  <2>2. new = <<c>> \o <<d>>
    <3>. DEFINE both == <<c>> \o <<d>>
    <3>1. Len(new) = 2 /\ new[1] = c /\ new[2] = d
      OBVIOUS
    <3>2. both \in Seq(CallRecord) /\ Len(both) = 2 /\ both[1] = c /\ both[2] = d
      BY <1>4
    <3>. HIDE DEF both, new
    <3>3. new = both
      BY <2>1, <3>1, <3>2, SeqEqual
    <3>. QED  BY <3>3 DEF both
  <2>. QED  BY <2>1, <2>2
<1>8. r = Calling(e, new) /\ e.calls = none
  BY <1>1, <1>2, <1>5
<1>. HIDE DEF new, none
<1>9. Sound(e)
  BY <1>6 DEF KInv, Shape
<1>10. Kept(e, r) /\ Sound(r) /\ r.calls = new /\ r.thrown = FALSE
  BY ONLY <1>1, <1>3, <1>7, <1>8, <1>9, CallingKept
<1>11. KInv(r, <<>>, rank) /\ Ahead(q, r, s)
  BY ONLY <1>6, <1>9, <1>10, NoCaughts, KeptKInv, AheadKept
<1>12. r.calls = <<SegmentCall(s, b)>> \o <<ContentCall(s, b)>>
  BY <1>7, <1>10, <1>61
<1>. QED  BY <1>1, <1>10, <1>11, <1>12 DEF InContent

LEMMA FinishContentKeeps ==
  ASSUME IInv, FinishContent PROVE IInv'
<1>. DEFINE q == request
            s == Rendered
            b == q.segments[s].blockedBoundary
<1>1. PICK rank : QInv(q, rank)
  BY DEF IInv
<1>2. KInv(q, <<>>, rank) /\ Idle(q) /\ Rendering(q, stack) /\ Waiting(q, suspended)
      /\ Len(stack) > 1 /\ Sound(q) /\ loop \in Nat /\ (stack # <<>> => loop > 0)
  BY <1>1 DEF QInv, KInv, Shape, IInv, Idle, FinishContent
<1>3. ContentIn(q, stack, s) /\ stack # <<>>
  BY <1>2, ContentFacts DEF Rendered
<1>4. PICK empty \in Emptiness(s) :
        Becomes(Calling(Completed(s, empty),
                        <<Call("queueCompletedSegment", s, b),
                          Call("contentQueued", s, b)>>))
  BY DEF FinishContent
<1>5. stack' = Front(stack) /\ loop' = loop /\ suspended' = suspended
  BY DEF FinishContent, hostVars
<1>6. empty \in BOOLEAN
  BY DEF Emptiness
<1>. DEFINE r == Calling(CompletedIn(q, s, empty),
                         <<SegmentCall(s, b), ContentCall(s, b)>>)
<1>7. Becomes(r)
  BY <1>4 DEF Completed, CompletedIn, SegmentCall, ContentCall
<1>8. b = q.segments[s].blockedBoundary
      /\ r = Calling(CompletedIn(q, s, empty), <<SegmentCall(s, b), ContentCall(s, b)>>)
  OBVIOUS
<1>. HIDE DEF q, s, b, r
<1>9. InContent(q, s, rank, r)
  BY <1>2, <1>3, <1>6, <1>8, ContentStarts
<1>. DEFINE S == {x \in RequestRecord :
                    \/ InContent(q, s, rank, x)
                    \/ OutOfContent(stack, suspended, rank, x)}
<1>10. ASSUME NEW x, \/ InContent(q, s, rank, x)
                     \/ OutOfContent(stack, suspended, rank, x)
       PROVE  x \in S
  BY <1>10 DEF InContent, OutOfContent, KInv, Shape, Sound
<1>11. r \in S
  BY <1>9, <1>10
<1>12. ASSUME NEW x \in S PROVE MakeNext(x) \in S
  <2>1. \/ InContent(q, s, rank, MakeNext(x))
        \/ OutOfContent(stack, suspended, rank, MakeNext(x))
    BY <1>2, <1>3, ContentStep
  <2>. QED  BY <1>10, <2>1
<1>. HIDE DEF S
<1>13. PICK last \in S : last.calls = <<>> /\ request' = [last EXCEPT !.room = 0]
  BY <1>7, <1>11, <1>12, BecomesIn
<1>14. OutOfContent(stack, suspended, rank, last)
  <2>1. ASSUME InContent(q, s, rank, last) PROVE FALSE
    <3>1. PICK c \in Segs(q) :
            \/ last.calls = <<ContentCall(s, b)>>
            \/ last.calls = <<SegmentCall(c, b)>> \o <<ContentCall(s, b)>>
      BY <1>3, <1>8, <2>1 DEF InContent, ContentIn
    <3>2. <<ContentCall(s, b)>> # <<>>
          /\ <<SegmentCall(c, b)>> \o <<ContentCall(s, b)>> # <<>>
      OBVIOUS
    <3>. QED  BY <1>13, <3>1, <3>2
  <2>. QED  BY <2>1 DEF S
<1>. DEFINE none == 0
<1>15. none \in Int /\ request' = [last EXCEPT !.room = none]
  BY <1>13
<1>. HIDE DEF none
<1>16. QInv(last, rank) /\ last.thrown = FALSE /\ last.calls = <<>>
       /\ Rendering(last, Front(stack)) /\ Waiting(last, suspended)
  BY <1>14 DEF OutOfContent, QInv
<1>17. QInv(request', rank) /\ request'.room = none
       /\ request'.calls = last.calls /\ request'.thrown = last.thrown
       /\ Aged(last, request')
  BY <1>15, <1>16, RoomKeeps
<1>18. Waiting(request', suspended)
  BY <1>16, <1>17, WaitingAged
<1>19. Idle(request')
  BY <1>16, <1>17 DEF Idle, none
<1>20. Rendering(request', Front(stack))
  <2>1. last \in RequestRecord
    BY <1>16 DEF QInv, KInv, Shape, Sound
  <2>2. /\ request'.segments = last.segments /\ request'.boundaries = last.boundaries
        /\ request'.abortableTasks = last.abortableTasks
    BY <1>15, <2>1 DEF RequestRecord
  <2>. QED  BY <1>16, <2>2 DEF Rendering, Content, Live, Segs, Tasks
<1>. QED  BY <1>2, <1>3, <1>5, <1>17, <1>18, <1>19, <1>20 DEF IInv

-----------------------------------------------------------------------------
(* Every step keeps the invariant.                                         *)
LEMMA NextKeeps ==
  ASSUME IInv, [Next]_vars PROVE IInv'
<1>1. CASE UNCHANGED vars
  BY <1>1 DEF IInv, vars
<1>2. CASE Work
  BY <1>2, PerformWorkKeeps, RetryTaskKeeps, FinishWorkKeeps DEF Work
<1>3. CASE Render
  BY <1>3, SpawnSuspendedTaskKeeps, EnterBoundaryKeeps, FinishContentKeeps,
     ContentThrowsKeeps, CompleteTaskKeeps, TaskThrowsKeeps, TaskSuspendsKeeps DEF Render
<1>4. CASE PipeElsewhere \/ Drain \/ ProgramAborts \/ DestinationCloses
  BY <1>4, PipeElsewhereKeeps, DrainKeeps, ProgramAbortsKeeps, DestinationClosesKeeps
<1>5. CASE \E s \in suspended : Ping(s)
  BY <1>5, PingKeeps
<1>. QED  BY <1>1, <1>2, <1>3, <1>4, <1>5 DEF Next

(* Whatever is rendered, suspends, fails, is aborted and is flushed, and   *)
(* in whatever order, the invariant holds between two steps: performWork,  *)
(* retryTask, the functions that render, pingTask, startFlowing and abort. *)
THEOREM FizzInvariant == Spec => []IInv
<1>1. Init => IInv
  BY InitIInv
<1>2. IInv /\ [Next]_vars => IInv'
  BY NextKeeps
<1>. QED  BY <1>1, <1>2, PTL DEF Spec

LEMMA CountedFacts ==
  ASSUME IInv
  PROVE  /\ Sound(request) /\ SegmentIds = Segs(request) /\ BoundaryIds = Bounds(request)
         /\ LiveTasks = Live(request) /\ Idle(request)
         /\ \A b : LiveTasksOf(b) = LiveOf(request, b)
         /\ IsFiniteSet(Live(request)) /\ Cardinality(Live(request)) \in Nat
         /\ \A b : Cardinality(LiveOf(request, b)) \in Nat
         /\ \A b \in Bounds(request) :
              request.boundaries[b].pendingTasks = Cardinality(LiveOf(request, b))
         /\ request.allPendingTasks >= Cardinality(Live(request))
         /\ request.pendingRootTasks >= Cardinality(LiveOf(request, 0))
         /\ request.status = "OPEN" =>
              /\ request.allPendingTasks = Cardinality(Live(request))
              /\ request.pendingRootTasks = Cardinality(LiveOf(request, 0))
         /\ Roots(request, <<>>) /\ Told(request)
<1>1. PICK rank : QInv(request, rank)
  BY DEF IInv
<1>2. Sound(request) /\ Idle(request) /\ KInv(request, <<>>, rank)
  BY <1>1 DEF QInv, KInv, Shape, IInv, Idle
<1>3. /\ request.segments \in Seq(SegmentRecord)
      /\ request.boundaries \in Seq(BoundaryRecord)
      /\ request.allPendingTasks \in Int /\ request.pendingRootTasks \in Int
  BY <1>2 DEF Sound, RequestRecord
<1>4. SegmentIds = Segs(request) /\ BoundaryIds = Bounds(request)
  BY <1>3, LenProperties DEF SegmentIds, BoundaryIds, Segs, Bounds
<1>5. LiveTasks = Live(request)
  BY <1>4 DEF LiveTasks, Live
<1>6. \A b : LiveTasksOf(b) = LiveOf(request, b)
  BY <1>5 DEF LiveTasksOf, LiveOf
<1>7. IsFiniteSet(Live(request)) /\ \A b : IsFiniteSet(LiveOf(request, b))
  BY <1>2, LiveFinite
<1>8. Cardinality(Live(request)) \in Nat /\ \A b : Cardinality(LiveOf(request, b)) \in Nat
  BY <1>7, FS_CardinalityType
<1>9. LessCalls(<<>>) = 0
  <2>1. {i \in DOMAIN <<>> : <<>>[i].op = "oneTaskLess"} = {}
    OBVIOUS
  <2>. QED  BY <2>1, FS_EmptySet DEF LessCalls
<1>10. /\ \A b \in Bounds(request) :
            request.boundaries[b].pendingTasks = Cardinality(LiveOf(request, b))
       /\ request.allPendingTasks >= Cardinality(Live(request))
       /\ request.pendingRootTasks >= Cardinality(LiveOf(request, 0))
       /\ request.status = "OPEN" =>
            /\ request.allPendingTasks = Cardinality(Live(request))
            /\ request.pendingRootTasks = Cardinality(LiveOf(request, 0))
  <2>1. Counts(request, <<>>, 0, 0)
    BY <1>2 DEF KInv
  <2>2. \A n \in Nat : n + 0 = n /\ (n + 0) + 0 = n
    OBVIOUS
  <2>3. \A b \in Bounds(request) :
          request.boundaries[b].pendingTasks = Cardinality(LiveOf(request, b))
    BY <1>8, <2>1, <2>2 DEF Counts
  <2>. QED  BY <1>8, <1>9, <2>1, <2>2, <2>3 DEF Counts
<1>. QED  BY <1>2, <1>4, <1>5, <1>6, <1>7, <1>8, <1>10 DEF KInv, Shape

(* The three counters of tasks agree with the abort sets.                  *)
THEOREM FizzTasksAreCounted == Spec => []TasksAreCounted
<1>1. IInv => TasksAreCounted
  BY CountedFacts DEF TasksAreCounted
<1>. QED  BY <1>1, FizzInvariant, PTL

(* The program is told once that the shell is ready (completeShell), and   *)
(* before any of it is sent, and once that all is ready (completeAll),     *)
(* when no task is left, whatever is aborted meanwhile.                    *)
THEOREM FizzAnnouncedOnce == Spec => []AnnouncedOnce
<1>1. ASSUME IInv PROVE AnnouncedOnce
  <2>1. /\ Sound(request) /\ LiveTasks = Live(request) /\ IsFiniteSet(Live(request))
        /\ Cardinality(Live(request)) \in Nat
        /\ Cardinality(LiveOf(request, 0)) \in Nat
        /\ request.pendingRootTasks >= Cardinality(LiveOf(request, 0))
        /\ request.status = "OPEN" => request.allPendingTasks = Cardinality(Live(request))
        /\ Roots(request, <<>>) /\ Told(request)
    BY <1>1, CountedFacts
  <2>2. request.pendingRootTasks \in Int
    BY <2>1 DEF Sound, RequestRecord
  <2>3. request.shellReady <= 1 /\ request.allReady <= 1
    BY <2>1 DEF Told
  <2>4. ASSUME request.document # NoDocument PROVE request.shellReady = 1
    <3>1. ~(request.pendingRootTasks > 0)
      BY <2>1, <2>4 DEF Roots
    <3>2. request.pendingRootTasks = 0
      BY <2>1, <2>2, <3>1
    <3>. QED  BY <2>1, <3>2 DEF Told
  <2>5. ASSUME request.allReady = 1, request.status = "OPEN" PROVE LiveTasks = {}
    <3>1. request.allPendingTasks = 0
      BY <2>1, <2>5 DEF Told
    <3>. QED  BY <2>1, <2>5, <3>1, FS_EmptySet
  <2>. QED  BY <2>3, <2>4, <2>5 DEF AnnouncedOnce
<1>. QED  BY <1>1, FizzInvariant, PTL

(* Type correctness: what is numbered exists, and no call is left between  *)
(* two steps.                                                              *)
THEOREM FizzTypeOK == Spec => []TypeOK
<1>1. ASSUME IInv PROVE TypeOK
  <2>1. /\ Sound(request) /\ SegmentIds = Segs(request) /\ BoundaryIds = Bounds(request)
        /\ Idle(request) /\ \A b : Cardinality(LiveOf(request, b)) \in Nat
        /\ \A b \in Bounds(request) :
             request.boundaries[b].pendingTasks = Cardinality(LiveOf(request, b))
    BY <1>1, CountedFacts
  <2>2. /\ request.status \in {"OPEN", "CLOSING", "CLOSED"}
        /\ request.ended \in {"no", "closed", "error", "gone"}
    BY <2>1 DEF Sound, RequestRecord
  <2>3. ASSUME NEW s \in SegmentIds
        PROVE  /\ request.segments[s].status \in
                    {"PENDING", "COMPLETED", "FLUSHED", "ABORTED", "ERRORED"}
               /\ request.segments[s].id \in Nat
               /\ request.segments[s].boundary \in {0} \cup BoundaryIds
               /\ ToSet(request.segments[s].children) \subseteq SegmentIds
    <3>1. s \in Segs(request) /\ request.segments[s] \in SegmentRecord
      BY <2>1, Records
    <3>2. ToSet(request.segments[s].children) \subseteq SegmentIds
      BY <2>1, <3>1 DEF ToSet, Sound, Pointers
    <3>. QED  BY <2>1, <3>1, <3>2 DEF SegmentRecord, Sound, Pointers, Sets
  <2>4. ASSUME NEW b \in BoundaryIds
        PROVE  /\ request.boundaries[b].status \in
                    {"PENDING", "COMPLETED", "CLIENT_RENDERED"}
               /\ request.boundaries[b].pendingTasks \in Nat
               /\ ToSet(request.boundaries[b].completedSegments) \subseteq SegmentIds
    <3>1. b \in Bounds(request) /\ request.boundaries[b] \in BoundaryRecord
      BY <2>1, Records
    <3>2. ToSet(request.boundaries[b].completedSegments) \subseteq SegmentIds
      BY <2>1, <3>1 DEF ToSet, Sound, Pointers
    <3>. QED  BY <2>1, <3>1, <3>2 DEF BoundaryRecord
  <2>5. suspended \cup ToSet(stack) \subseteq SegmentIds
    BY <1>1, <2>1 DEF IInv, Rendering, Waiting, ToSet
  <2>6. stack # <<>> => loop > 0
    BY <1>1 DEF IInv
  <2>7. request.calls = <<>> /\ ~request.thrown /\ request.room = 0
    BY <2>1 DEF Idle
  <2>. QED  BY <2>2, <2>3, <2>4, <2>5, <2>6, <2>7 DEF TypeOK
<1>. QED  BY <1>1, FizzInvariant, PTL
=============================================================================
