------------------------- MODULE HookScreenProofs -------------------------
(***************************************************************************)
(* The queues of a function component implement OptimisticLog, whatever    *)
(* the lanes of the events, the number of transition lanes, of updates and *)
(* of actions, if a state is computed eagerly only when the queue is empty.*)
(* First what the log and its prefixes come to, then queues in the order   *)
(* of the calls, then the inductive invariant and the steps: the events, a *)
(* queue that is processed, the rest of the render.                        *)
(* Under the same condition no update is forgotten: last comes what the    *)
(* lanes of the root, of the fibers and of a render hold.                  *)
(***************************************************************************)
EXTENDS HookQueueProofs

-----------------------------------------------------------------------------
LEMMA ReduceType ==
  ASSUME NEW s \in State, NEW u \in Update
  PROVE  Reduce(s, u) \in State
<1>1. [u EXCEPT !.eagerState = {}] \in Update
  BY DEF Update
<1>2. Result(s, [u EXCEPT !.eagerState = {}]) = Reduce(s, u)
  BY DEF Result, Reduce, Update
<1>. QED  BY <1>1, <1>2, ResultType

(* Screen!Applied goes through the log, update by update.                  *)
IsApplied(f, base, updates, st, h) ==
  /\ f[0] = base
  /\ \A n \in 1..Len(updates) :
       f[n] = IF updates[n].hook = h /\ st[n] = "shown"
                THEN Reduce(f[n - 1], updates[n]) ELSE f[n - 1]

LEMMA AppliedSteps ==
  ASSUME NEW base \in State, NEW updates \in Seq(Update), NEW st, NEW h
  PROVE  \E f \in [0..Len(updates) -> State] :
           /\ IsApplied(f, base, updates, st, h)
           /\ \A n \in 0..Len(updates) : Screen!Applied(base, updates, st, h, n) = f[n]
<1>1. PICK k \in Nat : k = Len(updates) /\ \A n \in 1..k : updates[n] \in Update
  BY LenProperties, ElementOfSeq
<1>. DEFINE Next1(s, n) == IF updates[n].hook = h /\ st[n] = "shown"
                             THEN Reduce(s, updates[n]) ELSE s
            G == [p \in State \X (1..k) |-> Next1(p[1], p[2])]
            ids == [n \in 1..k |-> n]
<1>2. G \in [State \X (1..k) -> State]
  BY <1>1, ReduceType
<1>3. ids \in Seq(1..k) /\ Len(ids) = k /\ \A n \in 1..k : ids[n] = n
  <2>1. ids \in Seq(1..k)
    BY SeqDef
  <2>2. DOMAIN ids = 1..k
    OBVIOUS
  <2>. QED  BY <2>1, <2>2, LenProperties
<1>4. PICK f \in [0..k -> State] : IsFold(f, G, base, ids)
  <2>. HIDE DEF G, ids
  <2>1. \E f \in [0..Len(ids) -> State] : IsFold(f, G, base, ids)
    BY <1>2, <1>3, FoldExists
  <2>. QED  BY <1>3, <2>1
<1>5. f[0] = base /\ \A n \in 1..k : f[n] = Next1(f[n - 1], n)
  <2>1. f[0] = base
    <3>1. 0 \in 0..Len(ids)
      BY <1>3
    <3>. HIDE DEF G, ids
    <3>. QED  BY <1>4, <3>1 DEF IsFold
  <2>2. ASSUME NEW n \in 1..k PROVE f[n] = Next1(f[n - 1], n)
    <3>1. n \in 0..k /\ n # 0 /\ n - 1 \in 0..k
      OBVIOUS
    <3>2. f[n] = G[<<f[n - 1], n>>]
      <4>. HIDE DEF G, ids
      <4>. QED  BY <1>3, <1>4, <3>1 DEF IsFold
    <3>3. f[n - 1] \in State
      BY <1>4, <3>1
    <3>. QED  BY <3>2, <3>3
  <2>. QED  BY <2>1, <2>2
<1>6. ASSUME NEW n \in 0..k PROVE Screen!Applied(base, updates, st, h, n) = f[n]
  <2>. DEFINE Step(g) == [u \in 0..n |-> IF u = 0 THEN base
                          ELSE IF updates[u].hook = h /\ st[u] = "shown"
                                 THEN Reduce(g[u - 1], updates[u]) ELSE g[u - 1]]
              up == [u \in 0..n |-> f[u]]
              g == CHOOSE after : after = Step(after)
  <2>1. \A u \in 0..n : u \in 0..k /\ (u # 0 => u \in 1..k /\ u - 1 \in 0..n)
    OBVIOUS
  <2>2. up = Step(up)
    BY <1>5, <2>1
  <2>3. g = Step(g)
    BY <2>2, Zenon
  <2>4. Screen!Applied(base, updates, st, h, n) = g[n]
    BY Zenon DEF Screen!Applied
  <2>. HIDE DEF g
  <2>. DEFINE S == {u \in 0..n : g[u] = f[u]}
  <2>5. 0 \in S
    BY <1>5, <2>3
  <2>6. ASSUME NEW u \in 1..n, u - 1 \in S PROVE u \in S
    <3>1. u \in 0..n /\ u # 0 /\ u \in 1..k
      OBVIOUS
    <3>2. g[u] = Next1(g[u - 1], u)
      BY <2>3, <3>1
    <3>3. f[u] = Next1(f[u - 1], u)
      BY <1>5, <3>1
    <3>. QED  BY <2>6, <3>1, <3>2, <3>3
  <2>. HIDE DEF S
  <2>7. 0..n \subseteq S
    <3>1. n \in Nat
      OBVIOUS
    <3>. QED  BY <2>5, <2>6, <3>1, InductionUpTo
  <2>. QED  BY <2>4, <2>7 DEF S
<1>7. IsApplied(f, base, updates, st, h)
  BY <1>1, <1>5 DEF IsApplied
<1>. QED  BY <1>1, <1>4, <1>6, <1>7

LEMMA AppliedStep ==
  ASSUME NEW base \in State, NEW updates \in Seq(Update), NEW st, NEW h,
         NEW n \in 1..Len(updates), NEW m, m = n - 1
  PROVE  Screen!Applied(base, updates, st, h, n)
           = IF updates[n].hook = h /\ st[n] = "shown"
               THEN Reduce(Screen!Applied(base, updates, st, h, m), updates[n])
               ELSE Screen!Applied(base, updates, st, h, m)
<1>1. PICK f \in [0..Len(updates) -> State] :
        /\ IsApplied(f, base, updates, st, h)
        /\ \A i \in 0..Len(updates) : Screen!Applied(base, updates, st, h, i) = f[i]
  BY AppliedSteps
<1>2. n \in 0..Len(updates) /\ m \in 0..Len(updates)
  BY LenProperties
<1>. QED  BY <1>1, <1>2 DEF IsApplied

LEMMA AppliedType ==
  ASSUME NEW base \in State, NEW updates \in Seq(Update), NEW st, NEW h
  PROVE  /\ Screen!Applied(base, updates, st, h, 0) = base
         /\ \A n \in 0..Len(updates) : Screen!Applied(base, updates, st, h, n) \in State
<1>1. PICK f \in [0..Len(updates) -> State] :
        /\ IsApplied(f, base, updates, st, h)
        /\ \A n \in 0..Len(updates) : Screen!Applied(base, updates, st, h, n) = f[n]
  BY AppliedSteps
<1>2. 0 \in 0..Len(updates)
  BY LenProperties
<1>. QED  BY <1>1, <1>2 DEF IsApplied

(* Only which updates are shown matters.                                   *)
SameShown(updates, others, st, tt, h, n) ==
  \A u \in 1..n :
    /\ updates[u] = others[u]
    /\ updates[u].hook = h => (st[u] = "shown" <=> tt[u] = "shown")

LEMMA AppliedSame ==
  ASSUME NEW base \in State, NEW updates \in Seq(Update), NEW others \in Seq(Update),
         NEW st, NEW tt, NEW h,
         NEW n \in 0..Len(updates), n <= Len(others),
         SameShown(updates, others, st, tt, h, n)
  PROVE  Screen!Applied(base, updates, st, h, n) = Screen!Applied(base, others, tt, h, n)
<1>. DEFINE A(i) == Screen!Applied(base, updates, st, h, i)
            B(i) == Screen!Applied(base, others, tt, h, i)
            S == {i \in 0..n : A(i) = B(i)}
<1>1. Len(updates) \in Nat /\ Len(others) \in Nat /\ n \in Nat
  BY LenProperties
<1>2. 0 \in S
  BY <1>1, AppliedType
<1>3. ASSUME NEW i \in 1..n, i - 1 \in S PROVE i \in S
  <2>1. i \in 1..Len(updates) /\ i \in 1..Len(others) /\ i \in 0..n
    BY <1>1
  <2>2. A(i) = IF updates[i].hook = h /\ st[i] = "shown"
                 THEN Reduce(A(i - 1), updates[i]) ELSE A(i - 1)
    BY <2>1, AppliedStep
  <2>3. B(i) = IF others[i].hook = h /\ tt[i] = "shown"
                 THEN Reduce(B(i - 1), others[i]) ELSE B(i - 1)
    BY <2>1, AppliedStep
  <2>. HIDE DEF A, B
  <2>. QED  BY <1>3, <2>1, <2>2, <2>3 DEF SameShown
<1>. HIDE DEF A, B
<1>4. 0..n \subseteq S
  <2>. HIDE DEF S
  <2>. QED  BY <1>1, <1>2, <1>3, InductionUpTo
<1>5. A(n) = B(n)
  BY <1>1, <1>4
<1>. QED  BY <1>5 DEF A, B

LEMMA EmptyState == <<>> \in State
BY EmptySeq DEF State

-----------------------------------------------------------------------------
(* An update's entry in a queue, and its place there: the entries of a     *)
(* hook are in the order of the calls.                                     *)
EntryOf(lg, u, st) == [lg[u] EXCEPT !.lane = IF st[u] = "queued" THEN @ ELSE NoLane]

Matches(lg, entries, h, st) ==
  \A e \in entries : /\ e.id \in DOMAIN lg /\ lg[e.id].hook = h
                     /\ st[e.id] # "dropped" /\ e = EntryOf(lg, e.id, st)

Sorted(q) == \A i, j \in 1..Len(q) : i < j => q[i].id < q[j].id
Precedes(S, T) == \A e \in S, f \in T : e.id < f.id

InOrder(base, p, c) ==
  /\ Sorted(base) /\ Sorted(p) /\ Sorted(c)
  /\ Precedes(ToSet(base), ToSet(p)) /\ Precedes(ToSet(base), ToSet(c))
  /\ Precedes(ToSet(p), ToSet(c))

(* The state when the first n updates are all applied.                     *)
AllApplied(lg, n) == Screen!Applied(<<>>, lg, [v \in DOMAIN lg |-> "shown"], "state", n)

StatesShown(lg, st, n) == \A u \in 1..n : lg[u].hook = "state" => st[u] = "shown"

(* A base state is that of the first k updates, all of which are shown;    *)
(* the queue has the updates after those, all of them.                     *)
Rests(lg, k, entries, st) ==
  /\ \A u \in DOMAIN lg : lg[u].hook = "state" =>
       IF u > k THEN \E e \in entries : e.id = u ELSE st[u] = "shown"
  /\ \A e \in entries : e.id > k

Based(lg, base, entries, st, sn) ==
  \E k \in 0..sn : base = AllApplied(lg, k) /\ Rests(lg, k, entries, st)

Values(lg, hooks, st) ==
  /\ hooks["state"].memoizedState = Screen!StateOf(lg, st)
  /\ hooks["optimistic"].memoizedState = Screen!OptimisticOf(lg, st)

(* A fiber's hooks, with what is queued for them, are those of updates     *)
(* that have the statuses st.                                              *)
AllEntries(hooks, p, c, h) ==
  ToSet(hooks[h].baseQueue) \cup ToSet(p[h]) \cup {e \in ToSet(c) : e.hook = h}

Shows(lg, sn, hooks, p, c, st) ==
  /\ \A h \in Hooks : Matches(lg, AllEntries(hooks, p, c, h), h, st)
  /\ \A h \in Hooks : InOrder(hooks[h].baseQueue, p[h], c)
  /\ Based(lg, hooks["state"].baseState, AllEntries(hooks, p, c, "state"), st, sn)
  /\ Values(lg, hooks, st)

(* An eager state is that of all the updates so far, the others of which   *)
(* have been shown; an update without a lane changes nothing.              *)
Eager(lg, st) ==
  \A u \in DOMAIN lg :
    /\ lg[u].eagerState # {} =>
         /\ lg[u].hook = "state" /\ lg[u].eagerState = {AllApplied(lg, u)}
         /\ StatesShown(lg, st, u - 1)
    /\ lg[u].lane = NoLane =>
         lg[u].eagerState # {} /\ AllApplied(lg, u) = AllApplied(lg, u - 1)

(* What came in since the render started is queued, if it has a lane.      *)
Unseen(lg, st, sn) ==
  \A u \in DOMAIN lg :
    u > sn => st[u] = IF lg[u].lane = NoLane THEN "shown" ELSE "queued"

RenderStatuses == [u \in DOMAIN log |-> RenderedStatus(u)]

LastInv ==
  /\ (\A e \in ToSet(Merged("state")) : e.lane = NoLane)
       => lastRenderedState = Value("state")
  /\ pc = "begun" => lastRenderedState = wip.hooks["state"].memoizedState

ScreenInv ==
  /\ Shows(log, seen, current.hooks, pending, concurrentQueues, status)
  /\ pc = "begun" => Shows(log, seen, wip.hooks, pending, concurrentQueues, RenderStatuses)
  /\ Eager(log, status) /\ Unseen(log, status, seen) /\ LastInv
  /\ \A e \in ToSet(concurrentQueues) : e.id <= Len(log)

(* "The queue is currently empty, which means we can eagerly compute the   *)
(* next state" (dispatchSetState, ReactFiberHooks.js:3457): every update   *)
(* to the state has been shown.                                            *)
EagerWhenEmpty ==
  log' # log /\ Last(log').eagerState # {} => StatesShown(log, status, Len(log))

-----------------------------------------------------------------------------
(* The state of all the updates.                                           *)
LEMMA AllAppliedType ==
  ASSUME NEW lg \in Seq(Update)
  PROVE  /\ AllApplied(lg, 0) = <<>>
         /\ \A n \in 0..Len(lg) : AllApplied(lg, n) \in State
BY AppliedType, EmptyState DEF AllApplied

LEMMA AllAppliedStep ==
  ASSUME NEW lg \in Seq(Update), NEW n \in 1..Len(lg), NEW m, m = n - 1
  PROVE  AllApplied(lg, n)
           = IF lg[n].hook = "state" THEN Reduce(AllApplied(lg, m), lg[n])
             ELSE AllApplied(lg, m)
<1>1. PICK st : st = [v \in DOMAIN lg |-> "shown"]
  OBVIOUS
<1>2. st[n] = "shown"
  <2>1. n \in DOMAIN lg
    BY LenProperties
  <2>. QED  BY <1>1, <2>1
<1>3. Screen!Applied(<<>>, lg, st, "state", n)
        = IF lg[n].hook = "state" /\ st[n] = "shown"
            THEN Reduce(Screen!Applied(<<>>, lg, st, "state", m), lg[n])
            ELSE Screen!Applied(<<>>, lg, st, "state", m)
  BY AppliedStep, EmptyState
<1>. QED  BY <1>1, <1>2, <1>3 DEF AllApplied

LEMMA AllAppliedShown ==
  ASSUME NEW lg \in Seq(Update), NEW st, NEW n \in 0..Len(lg), StatesShown(lg, st, n)
  PROVE  Screen!Applied(<<>>, lg, st, "state", n) = AllApplied(lg, n)
<1>1. PICK tt : tt = [v \in DOMAIN lg |-> "shown"]
  OBVIOUS
<1>2. Len(lg) \in Nat /\ DOMAIN lg = 1..Len(lg)
  BY LenProperties
<1>3. \A u \in 1..n : tt[u] = "shown"
  BY <1>1, <1>2
<1>4. n <= Len(lg)
  BY <1>2
<1>5. SameShown(lg, lg, st, tt, "state", n)
  BY <1>3 DEF StatesShown, SameShown
<1>6. Screen!Applied(<<>>, lg, st, "state", n) = Screen!Applied(<<>>, lg, tt, "state", n)
  BY <1>4, <1>5, AppliedSame, EmptyState
<1>. QED  BY <1>1, <1>6 DEF AllApplied

(* The log grows.                                                          *)
Extends(lg2, lg) == Len(lg) <= Len(lg2) /\ \A i \in 1..Len(lg) : lg2[i] = lg[i]

LEMMA AppendLog ==
  ASSUME NEW lg \in Seq(Update), NEW u \in Update, NEW lg2, lg2 = Append(lg, u)
  PROVE  /\ lg2 \in Seq(Update) /\ Len(lg) \in Nat /\ Len(lg2) = Len(lg) + 1
         /\ DOMAIN lg = 1..Len(lg) /\ DOMAIN lg2 = 1..(Len(lg) + 1)
         /\ lg2[Len(lg) + 1] = u /\ \A i \in 1..Len(lg) : lg2[i] = lg[i]
         /\ \A i \in 1..(Len(lg) + 1) : i \in 1..Len(lg) \/ i = Len(lg) + 1
         /\ Extends(lg2, lg)
<1>1. /\ lg2 \in Seq(Update) /\ Len(lg) \in Nat /\ Len(lg2) = Len(lg) + 1
      /\ DOMAIN lg = 1..Len(lg) /\ DOMAIN lg2 = 1..(Len(lg) + 1)
      /\ lg2[Len(lg) + 1] = u /\ \A i \in 1..Len(lg) : lg2[i] = lg[i]
      /\ \A i \in 1..(Len(lg) + 1) : i \in 1..Len(lg) \/ i = Len(lg) + 1
  BY AppendProperties, LenProperties
<1>. QED  BY <1>1 DEF Extends

LEMMA AllAppliedExtends ==
  ASSUME NEW lg \in Seq(Update), NEW lg2 \in Seq(Update), Extends(lg2, lg),
         NEW n \in 0..Len(lg)
  PROVE  AllApplied(lg2, n) = AllApplied(lg, n)
<1>1. /\ Len(lg) \in Nat /\ Len(lg2) \in Nat /\ Len(lg) <= Len(lg2)
      /\ DOMAIN lg = 1..Len(lg) /\ DOMAIN lg2 = 1..Len(lg2)
      /\ \A i \in 1..Len(lg) : lg2[i] = lg[i]
  BY LenProperties DEF Extends
<1>2. PICK st, tt : st = [v \in DOMAIN lg |-> "shown"] /\ tt = [v \in DOMAIN lg2 |-> "shown"]
  OBVIOUS
<1>3. n <= Len(lg2) /\ \A v \in 1..n : v \in 1..Len(lg) /\ v \in 1..Len(lg2)
  BY <1>1
<1>4. SameShown(lg, lg2, st, tt, "state", n)
  BY <1>1, <1>2, <1>3 DEF SameShown
<1>5. Screen!Applied(<<>>, lg, st, "state", n) = Screen!Applied(<<>>, lg2, tt, "state", n)
  BY <1>3, <1>4, AppliedSame, EmptyState
<1>. QED  BY <1>2, <1>5 DEF AllApplied

(* An eager state is what the update makes of the state it is applied to.  *)
LEMMA EagerResult ==
  ASSUME NEW lg \in Seq(Update), NEW st, Eager(lg, st), NEW n \in 1..Len(lg),
         NEW m, m = n - 1, NEW s,
         lg[n].hook = "state" => s = Screen!Applied(<<>>, lg, st, "state", m),
         NEW e, e.id = lg[n].id, e.kind = lg[n].kind, e.eagerState = lg[n].eagerState
  PROVE  Result(s, e) = Reduce(s, lg[n])
<1>1. n \in DOMAIN lg /\ Len(lg) \in Nat
  BY LenProperties
<1>2. CASE lg[n].eagerState = {}
  BY <1>2 DEF Result, Reduce
<1>3. CASE lg[n].eagerState # {}
  <2>1. /\ lg[n].hook = "state" /\ lg[n].eagerState = {AllApplied(lg, n)}
        /\ StatesShown(lg, st, m)
    BY <1>1, <1>3 DEF Eager
  <2>2. m \in 0..Len(lg)
    BY <1>1
  <2>3. s = AllApplied(lg, m)
    BY <2>1, <2>2, AllAppliedShown
  <2>4. AllApplied(lg, n) = Reduce(s, lg[n])
    BY <2>1, <2>3, AllAppliedStep
  <2>5. Result(s, e) = AllApplied(lg, n)
    BY <1>3, <2>1 DEF Result
  <2>. QED  BY <2>4, <2>5
<1>. QED  BY <1>2, <1>3

(* What came in since the render started changes nothing.                  *)
LEMMA UnseenState ==
  ASSUME NEW lg \in Seq(Update), NEW st, Eager(lg, st), NEW sn \in 0..Len(lg),
         Unseen(lg, st, sn)
  PROVE  Screen!StateOf(lg, st) = Screen!Applied(<<>>, lg, st, "state", sn)
<1>. DEFINE A(n) == Screen!Applied(<<>>, lg, st, "state", n)
            k == Len(lg) - sn
            S == {n \in 0..k : A(sn + n) = A(sn)}
<1>1. Len(lg) \in Nat /\ DOMAIN lg = 1..Len(lg) /\ k \in Nat /\ sn \in Nat
  BY LenProperties
<1>2. 0 \in S
  BY <1>1
<1>3. ASSUME NEW n \in 1..k, n - 1 \in S PROVE n \in S
  <2>1. PICK u, m : u = sn + n /\ m = sn + (n - 1)
    OBVIOUS
  <2>2. u \in 1..Len(lg) /\ u > sn /\ m = u - 1 /\ m \in 0..Len(lg) /\ n \in 0..k
    BY <1>1, <2>1
  <2>3. A(u) = IF lg[u].hook = "state" /\ st[u] = "shown" THEN Reduce(A(m), lg[u]) ELSE A(m)
    BY <2>2, AppliedStep, EmptyState
  <2>4. A(u) = A(m)
    <3>1. CASE lg[u].hook = "state" /\ st[u] = "shown"
      <4>1. lg[u].lane = NoLane
        BY <1>1, <2>2, <3>1 DEF Unseen
      <4>2. lg[u].eagerState # {} /\ AllApplied(lg, u) = AllApplied(lg, m)
        BY <1>1, <2>2, <4>1 DEF Eager
      <4>3. StatesShown(lg, st, m)
        BY <1>1, <2>2, <4>2 DEF Eager
      <4>4. A(m) = AllApplied(lg, m)
        BY <2>2, <4>3, AllAppliedShown
      <4>5. AllApplied(lg, u) = Reduce(AllApplied(lg, m), lg[u])
        BY <2>2, <3>1, AllAppliedStep
      <4>. HIDE DEF A
      <4>. QED  BY <2>3, <3>1, <4>2, <4>4, <4>5
    <3>2. CASE ~(lg[u].hook = "state" /\ st[u] = "shown")
      <4>. HIDE DEF A
      <4>. QED  BY <2>3, <3>2
    <3>. QED  BY <3>1, <3>2
  <2>. HIDE DEF A
  <2>. QED  BY <1>3, <2>1, <2>2, <2>4
<1>4. k \in S
  <2>. HIDE DEF S
  <2>1. 0..k \subseteq S
    BY <1>1, <1>2, <1>3, InductionUpTo
  <2>. QED  BY <1>1, <2>1
<1>5. sn + k = Len(lg)
  BY <1>1
<1>6. A(Len(lg)) = A(sn)
  BY <1>4, <1>5
<1>. QED  BY <1>6 DEF Screen!StateOf

LEMMA UnseenOptimistic ==
  ASSUME NEW lg \in Seq(Update), NEW st, NEW sn \in 0..Len(lg), Unseen(lg, st, sn),
         \A u \in DOMAIN lg : lg[u].hook = "optimistic" => lg[u].lane # NoLane,
         NEW base \in State
  PROVE  Screen!Applied(base, lg, st, "optimistic", Len(lg))
           = Screen!Applied(base, lg, st, "optimistic", sn)
<1>. DEFINE A(n) == Screen!Applied(base, lg, st, "optimistic", n)
            k == Len(lg) - sn
            S == {n \in 0..k : A(sn + n) = A(sn)}
<1>1. Len(lg) \in Nat /\ DOMAIN lg = 1..Len(lg) /\ k \in Nat /\ sn \in Nat
  BY LenProperties
<1>2. 0 \in S
  BY <1>1
<1>3. ASSUME NEW n \in 1..k, n - 1 \in S PROVE n \in S
  <2>1. PICK u, m : u = sn + n /\ m = sn + (n - 1)
    OBVIOUS
  <2>2. u \in 1..Len(lg) /\ u > sn /\ m = u - 1 /\ n \in 0..k
    BY <1>1, <2>1
  <2>3. A(u) = IF lg[u].hook = "optimistic" /\ st[u] = "shown" THEN Reduce(A(m), lg[u]) ELSE A(m)
    BY <2>2, AppliedStep
  <2>4. ~(lg[u].hook = "optimistic" /\ st[u] = "shown")
    BY <1>1, <2>2 DEF Unseen
  <2>. HIDE DEF A
  <2>. QED  BY <1>3, <2>1, <2>2, <2>3, <2>4
<1>4. k \in S
  <2>. HIDE DEF S
  <2>1. 0..k \subseteq S
    BY <1>1, <1>2, <1>3, InductionUpTo
  <2>. QED  BY <1>1, <2>1
<1>5. sn + k = Len(lg)
  BY <1>1
<1>6. A(Len(lg)) = A(sn)
  BY <1>4, <1>5
<1>. QED  BY <1>6

-----------------------------------------------------------------------------
(* Queues in the order of the calls.                                       *)
LEMMA EmptyInOrder ==
  /\ Sorted(<<>>)
  /\ \A S : Precedes({}, S) /\ Precedes(S, {})
BY DEF Sorted, Precedes

LEMMA EntryAt ==
  ASSUME NEW q \in Seq(Update)
  PROVE  /\ Len(q) \in Nat /\ DOMAIN q = 1..Len(q)
         /\ \A i \in 1..Len(q) : q[i] \in Update /\ q[i] \in ToSet(q)
         /\ \A e \in ToSet(q) : e \in Update /\ e.id \in Nat /\ \E i \in 1..Len(q) : e = q[i]
<1>1. Len(q) \in Nat /\ DOMAIN q = 1..Len(q) /\ \A i \in 1..Len(q) : q[i] \in Update
  BY LenProperties, ElementOfSeq
<1>. QED  BY <1>1 DEF ToSet, Update

LEMMA SortedAppend ==
  ASSUME NEW q \in Seq(Update), Sorted(q), NEW e \in Update,
         \A f \in ToSet(q) : f.id < e.id
  PROVE  Sorted(Append(q, e))
<1>1. Len(q) \in Nat /\ \A i \in 1..Len(q) : q[i] \in ToSet(q)
  BY EntryAt
<1>2. /\ Len(Append(q, e)) = Len(q) + 1 /\ Append(q, e)[Len(q) + 1] = e
      /\ \A i \in 1..Len(q) : Append(q, e)[i] = q[i]
  BY AppendProperties
<1>3. ASSUME NEW i \in 1..(Len(q) + 1), NEW j \in 1..(Len(q) + 1), i < j
      PROVE  Append(q, e)[i].id < Append(q, e)[j].id
  <2>1. i \in 1..Len(q) /\ (j \in 1..Len(q) \/ j = Len(q) + 1)
    BY <1>1, <1>3
  <2>2. j \in 1..Len(q) => q[i].id < q[j].id
    BY <1>3, <2>1 DEF Sorted
  <2>. QED  BY <1>1, <1>2, <2>1, <2>2
<1>. QED  BY <1>2, <1>3 DEF Sorted

LEMMA SortedConcat ==
  ASSUME NEW p \in Seq(Update), NEW q \in Seq(Update), Sorted(p), Sorted(q),
         Precedes(ToSet(p), ToSet(q))
  PROVE  Sorted(p \o q)
<1>1. /\ Len(p) \in Nat /\ \A i \in 1..Len(p) : p[i] \in ToSet(p)
      /\ Len(q) \in Nat /\ \A i \in 1..Len(q) : q[i] \in ToSet(q)
  BY EntryAt
<1>2. /\ Len(p \o q) = Len(p) + Len(q)
      /\ \A i \in 1..(Len(p) + Len(q)) : (p \o q)[i] = IF i <= Len(p) THEN p[i] ELSE q[i - Len(p)]
  BY ConcatProperties
<1>3. ASSUME NEW i \in 1..(Len(p) + Len(q)), NEW j \in 1..(Len(p) + Len(q)), i < j
      PROVE  (p \o q)[i].id < (p \o q)[j].id
  <2>1. CASE j <= Len(p)
    <3>1. i \in 1..Len(p) /\ j \in 1..Len(p)
      BY <1>1, <1>3, <2>1
    <3>. QED  BY <1>2, <1>3, <2>1, <3>1 DEF Sorted
  <2>2. CASE i <= Len(p) /\ ~(j <= Len(p))
    <3>1. i \in 1..Len(p) /\ j - Len(p) \in 1..Len(q)
      BY <1>1, <1>3, <2>2
    <3>2. p[i].id < q[j - Len(p)].id
      BY <1>1, <3>1 DEF Precedes
    <3>. QED  BY <1>2, <2>2, <3>2
  <2>3. CASE ~(i <= Len(p))
    <3>1. /\ i - Len(p) \in 1..Len(q) /\ j - Len(p) \in 1..Len(q) /\ i - Len(p) < j - Len(p)
          /\ ~(j <= Len(p))
      BY <1>1, <1>3, <2>3
    <3>2. q[i - Len(p)].id < q[j - Len(p)].id
      BY <3>1 DEF Sorted
    <3>. QED  BY <1>2, <2>3, <3>1, <3>2
  <2>. QED  BY <1>1, <2>1, <2>2, <2>3
<1>. QED  BY <1>2, <1>3 DEF Sorted

LEMMA EnqueuedSorted ==
  ASSUME NEW queues \in [Hooks -> Seq(Update)], NEW updates \in Seq(Update), NEW h \in Hooks,
         Sorted(queues[h]), Sorted(updates), Precedes(ToSet(queues[h]), ToSet(updates))
  PROVE  Sorted(Enqueued(queues, updates)[h])
<1>1. PICK after \in [0..Len(updates) -> [Hooks -> Seq(Update)]] :
        /\ after[0] = queues
        /\ \A n \in 1..Len(updates) : after[n] = Enqueue(after[n - 1], updates[n])
        /\ Enqueued(queues, updates) = after[Len(updates)]
  BY EnqueuedSteps
<1>2. PICK k \in Nat : /\ k = Len(updates)
                       /\ \A n \in 1..k : updates[n] \in Update /\ updates[n] \in ToSet(updates)
  BY EntryAt
<1>. DEFINE Before(n) == \A f \in ToSet(after[n][h]) : \A i \in (n + 1)..k : f.id < updates[i].id
            S == {n \in 0..k : Sorted(after[n][h]) /\ Before(n)}
<1>3. 0 \in S
  BY <1>1, <1>2 DEF Precedes
<1>4. ASSUME NEW n \in 1..k, n - 1 \in S PROVE n \in S
  <2>1. PICK q \in [Hooks -> Seq(Update)], v \in Update :
          q = after[n - 1] /\ v = updates[n]
    <3>1. n - 1 \in 0..Len(updates)
      BY <1>2
    <3>2. after[n - 1] \in [Hooks -> Seq(Update)]
      BY <1>1, <3>1, Zenon
    <3>. QED  BY <1>2, <3>2, Zenon
  <2>2. after[n] = Enqueue(q, v)
    BY <1>1, <1>2, <2>1
  <2>3. /\ Sorted(q[h])
        /\ \A f \in ToSet(q[h]) : f.id < v.id /\ \A i \in (n + 1)..k : f.id < updates[i].id
    <3>1. (n - 1) + 1 = n /\ n \in n..k /\ \A i \in (n + 1)..k : i \in n..k
      BY <1>2
    <3>. QED  BY <1>4, <2>1, <3>1
  <2>4. \A i \in (n + 1)..k : v.id < updates[i].id
    <3>1. \A i \in (n + 1)..k : i \in 1..k /\ n < i
      BY <1>2
    <3>. QED  BY <1>2, <2>1, <3>1 DEF Sorted
  <2>5. CASE v.hook = h
    <3>1. after[n][h] = Append(q[h], v)
      BY <2>2, <2>5 DEF Enqueue
    <3>2. ToSet(after[n][h]) = ToSet(q[h]) \cup {v}
      BY <3>1, AppendToSet
    <3>3. Sorted(after[n][h])
      BY <2>3, <3>1, SortedAppend
    <3>. QED  BY <2>3, <2>4, <3>2, <3>3
  <2>6. CASE v.hook # h
    <3>1. after[n][h] = q[h]
      BY <2>2, <2>6 DEF Enqueue
    <3>. QED  BY <2>3, <3>1
  <2>. QED  BY <2>5, <2>6
<1>5. k \in S
  <2>. HIDE DEF S
  <2>1. 0..k \subseteq S
    BY <1>2, <1>3, <1>4, InductionUpTo
  <2>. QED  BY <1>2, <2>1
<1>. QED  BY <1>1, <1>2, <1>5

(* finishQueueingConcurrentUpdates, the queues that are merged, an update. *)
LEMMA EnqueuedInOrder ==
  ASSUME NEW p \in [Hooks -> Seq(Update)], NEW c \in Seq(Update), NEW h \in Hooks,
         NEW base \in Seq(Update), InOrder(base, p[h], c)
  PROVE  InOrder(base, Enqueued(p, c)[h], <<>>)
<1>1. ToSet(Enqueued(p, c)[h]) = ToSet(p[h]) \cup {e \in ToSet(c) : e.hook = h}
  BY EnqueuedEntries
<1>2. Sorted(Enqueued(p, c)[h])
  BY EnqueuedSorted DEF InOrder
<1>3. Precedes(ToSet(base), ToSet(Enqueued(p, c)[h]))
  BY <1>1 DEF InOrder, Precedes
<1>. QED  BY <1>2, <1>3, EmptyInOrder, EmptyToSet DEF InOrder

LEMMA MergedInOrder ==
  ASSUME NEW base \in Seq(Update), NEW p \in Seq(Update), NEW c \in Seq(Update),
         InOrder(base, p, c)
  PROVE  InOrder(base \o p, <<>>, c) /\ Sorted(base \o p)
<1>1. Sorted(base \o p)
  BY SortedConcat DEF InOrder
<1>2. ToSet(base \o p) = ToSet(base) \cup ToSet(p)
  BY ConcatToSet
<1>3. Precedes(ToSet(base \o p), ToSet(c))
  BY <1>2 DEF InOrder, Precedes
<1>. QED  BY <1>1, <1>3, EmptyInOrder, EmptyToSet DEF InOrder

LEMMA AppendInOrder ==
  ASSUME NEW base \in Seq(Update), NEW p \in Seq(Update), NEW c \in Seq(Update),
         InOrder(base, p, c), NEW u \in Update,
         \A e \in ToSet(base) \cup ToSet(p) \cup ToSet(c) : e.id < u.id
  PROVE  InOrder(base, p, Append(c, u))
<1>1. Sorted(Append(c, u))
  BY SortedAppend DEF InOrder
<1>2. ToSet(Append(c, u)) = ToSet(c) \cup {u}
  BY AppendToSet
<1>. QED  BY <1>1, <1>2 DEF InOrder, Precedes

-----------------------------------------------------------------------------
(* The log grows by an update.  One that is taken for shown at once changes*)
(* nothing, and those before it have all been shown.                       *)
Grows(lg, st, lg2, st2, u) ==
  /\ Extends(lg2, lg) /\ Len(lg2) = Len(lg) + 1 /\ lg2[Len(lg) + 1] = u
  /\ u.id = Len(lg) + 1
  /\ \A i \in 1..Len(lg) : st2[i] = st[i]
  /\ st2[u.id] = IF u.lane = NoLane THEN "shown" ELSE "queued"
  /\ u.lane = NoLane =>
       /\ u.hook = "state" /\ StatesShown(lg, st, Len(lg))
       /\ AllApplied(lg2, u.id) = AllApplied(lg, Len(lg))

LEMMA GrownLog ==
  ASSUME NEW lg \in Seq(Update), NEW lg2 \in Seq(Update), NEW st, NEW st2,
         NEW u \in Update, Grows(lg, st, lg2, st2, u)
  PROVE  /\ Len(lg) \in Nat /\ DOMAIN lg = 1..Len(lg) /\ DOMAIN lg2 = 1..(Len(lg) + 1)
         /\ Len(lg2) = Len(lg) + 1 /\ u.id = Len(lg) + 1 /\ lg2[u.id] = u
         /\ u.id \in DOMAIN lg2 /\ Extends(lg2, lg)
         /\ \A i \in 1..Len(lg) : i \in DOMAIN lg2 /\ lg2[i] = lg[i] /\ st2[i] = st[i]
         /\ \A i \in DOMAIN lg2 : i = u.id \/ i \in 1..Len(lg)
         /\ st2[u.id] = IF u.lane = NoLane THEN "shown" ELSE "queued"
BY LenProperties DEF Grows, Extends

LEMMA MatchesGrows ==
  ASSUME NEW lg \in Seq(Update), NEW lg2 \in Seq(Update), NEW st, NEW st2,
         NEW u \in Update, Grows(lg, st, lg2, st2, u),
         NEW entries, NEW h, Matches(lg, entries, h, st),
         NEW entries2, entries2 = entries \cup (IF u.hook = h THEN {u} ELSE {})
  PROVE  Matches(lg2, entries2, h, st2)
<1>1. /\ Len(lg) \in Nat /\ DOMAIN lg = 1..Len(lg) /\ lg2[u.id] = u /\ u.id \in DOMAIN lg2
      /\ \A i \in 1..Len(lg) : i \in DOMAIN lg2 /\ lg2[i] = lg[i] /\ st2[i] = st[i]
      /\ st2[u.id] = IF u.lane = NoLane THEN "shown" ELSE "queued"
  BY GrownLog
<1>2. ASSUME NEW e \in entries
      PROVE  /\ e.id \in DOMAIN lg2 /\ lg2[e.id].hook = h
             /\ st2[e.id] # "dropped" /\ e = EntryOf(lg2, e.id, st2)
  <2>1. /\ e.id \in DOMAIN lg /\ lg[e.id].hook = h
        /\ st[e.id] # "dropped" /\ e = EntryOf(lg, e.id, st)
    BY <1>2 DEF Matches
  <2>2. EntryOf(lg2, e.id, st2) = EntryOf(lg, e.id, st)
    BY <1>1, <2>1 DEF EntryOf
  <2>. QED  BY <1>1, <2>1, <2>2
<1>3. EntryOf(lg2, u.id, st2) = u /\ st2[u.id] # "dropped"
  BY <1>1 DEF EntryOf, Update
<1>. QED  BY <1>1, <1>2, <1>3 DEF Matches

LEMMA BasedGrows ==
  ASSUME NEW lg \in Seq(Update), NEW lg2 \in Seq(Update), NEW st, NEW st2,
         NEW u \in Update, Grows(lg, st, lg2, st2, u),
         NEW entries, NEW sn \in 0..Len(lg), NEW base, Based(lg, base, entries, st, sn),
         NEW entries2, entries2 = entries \cup (IF u.hook = "state" THEN {u} ELSE {})
  PROVE  Based(lg2, base, entries2, st2, sn)
<1>1. /\ Len(lg) \in Nat /\ DOMAIN lg = 1..Len(lg) /\ u.id = Len(lg) + 1 /\ lg2[u.id] = u
      /\ Extends(lg2, lg)
      /\ \A i \in 1..Len(lg) : lg2[i] = lg[i] /\ st2[i] = st[i]
      /\ \A i \in DOMAIN lg2 : i = u.id \/ i \in 1..Len(lg)
  BY GrownLog
<1>2. PICK k \in 0..sn : base = AllApplied(lg, k) /\ Rests(lg, k, entries, st)
  BY DEF Based
<1>3. k \in 0..Len(lg) /\ u.id > k
  BY <1>1
<1>4. base = AllApplied(lg2, k)
  BY <1>1, <1>2, <1>3, AllAppliedExtends
<1>5. ASSUME NEW v \in DOMAIN lg2, lg2[v].hook = "state"
      PROVE  IF v > k THEN \E e \in entries2 : e.id = v ELSE st2[v] = "shown"
  <2>1. CASE v = u.id
    BY <1>1, <1>3, <1>5, <2>1
  <2>2. CASE v \in 1..Len(lg)
    BY <1>1, <1>2, <1>5, <2>2 DEF Rests
  <2>. QED  BY <1>1, <2>1, <2>2
<1>6. \A e \in entries2 : e.id > k
  BY <1>2, <1>3 DEF Rests
<1>7. Rests(lg2, k, entries2, st2)
  BY <1>5, <1>6 DEF Rests
<1>. QED  BY <1>4, <1>7 DEF Based

LEMMA StateGrows ==
  ASSUME NEW lg \in Seq(Update), NEW lg2 \in Seq(Update), NEW st, NEW st2,
         NEW u \in Update, Grows(lg, st, lg2, st2, u)
  PROVE  /\ Screen!StateOf(lg2, st2) = Screen!StateOf(lg, st)
         /\ Screen!OptimisticOf(lg2, st2) = Screen!OptimisticOf(lg, st)
         /\ Screen!StateOf(lg, st) \in State
<1>. DEFINE A(h, base, n) == Screen!Applied(base, lg, st, h, n)
            B(h, base, n) == Screen!Applied(base, lg2, st2, h, n)
<1>1. PICK n, m : n = Len(lg) /\ m = Len(lg2)
  OBVIOUS
<1>2. /\ n \in Nat /\ m = n + 1 /\ u.id = m /\ lg2[m] = u
      /\ n \in 0..Len(lg) /\ n \in 0..Len(lg2) /\ m \in 1..Len(lg2) /\ n = m - 1 /\ n <= Len(lg2)
      /\ \A i \in 1..n : lg2[i] = lg[i] /\ st2[i] = st[i]
      /\ st2[u.id] = IF u.lane = NoLane THEN "shown" ELSE "queued"
  BY <1>1, GrownLog
<1>3. ASSUME NEW base \in State, NEW h PROVE A(h, base, n) = B(h, base, n)
  <2>1. SameShown(lg, lg2, st, st2, h, n)
    BY <1>2 DEF SameShown
  <2>. QED  BY <1>2, <2>1, AppliedSame
<1>4. ASSUME NEW base \in State, NEW h
      PROVE  B(h, base, m) = IF u.hook = h /\ st2[m] = "shown"
                               THEN Reduce(B(h, base, n), u) ELSE B(h, base, n)
  <2>1. B(h, base, m) = IF lg2[m].hook = h /\ st2[m] = "shown"
                          THEN Reduce(B(h, base, n), lg2[m]) ELSE B(h, base, n)
    BY <1>2, AppliedStep
  <2>. QED  BY <1>2, <2>1
<1>5. ASSUME NEW base \in State, NEW h PROVE A(h, base, n) \in State
  BY <1>2, AppliedType
<1>6. B("state", <<>>, m) = A("state", <<>>, n)
  <2>1. CASE u.lane = NoLane
    <3>1. /\ u.hook = "state" /\ StatesShown(lg, st, n)
          /\ AllApplied(lg2, m) = AllApplied(lg, n)
      BY <1>1, <1>2, <2>1 DEF Grows
    <3>2. StatesShown(lg2, st2, m)
      <4>1. ASSUME NEW i \in 1..m, lg2[i].hook = "state" PROVE st2[i] = "shown"
        <5>1. i = m \/ i \in 1..n
          BY <1>2
        <5>. QED  BY <1>2, <2>1, <3>1, <4>1, <5>1 DEF StatesShown
      <4>. QED  BY <4>1 DEF StatesShown
    <3>3. B("state", <<>>, m) = AllApplied(lg2, m)
      <4>1. m \in 0..Len(lg2)
        BY <1>1, <1>2
      <4>. QED  BY <3>2, <4>1, AllAppliedShown
    <3>4. A("state", <<>>, n) = AllApplied(lg, n)
      BY <1>2, <3>1, AllAppliedShown
    <3>. QED  BY <3>1, <3>3, <3>4
  <2>2. CASE u.lane # NoLane
    <3>1. st2[m] # "shown"
      BY <1>2, <2>2
    <3>2. B("state", <<>>, m) = B("state", <<>>, n)
      BY <1>4, <3>1, EmptyState
    <3>. QED  BY <1>3, <3>2, EmptyState
  <2>. QED  BY <2>1, <2>2
<1>7. A("state", <<>>, n) \in State
  BY <1>2, AppliedType, EmptyState
<1>8. ASSUME NEW base \in State PROVE B("optimistic", base, m) = A("optimistic", base, n)
  <2>1. ~(u.hook = "optimistic" /\ st2[m] = "shown")
    BY <1>2 DEF Grows
  <2>2. B("optimistic", base, m) = B("optimistic", base, n)
    BY <1>4, <2>1
  <2>. QED  BY <1>3, <2>2
<1>9. /\ Screen!StateOf(lg, st) = A("state", <<>>, n)
      /\ Screen!StateOf(lg2, st2) = B("state", <<>>, m)
  BY <1>1 DEF Screen!StateOf
<1>10. /\ Screen!OptimisticOf(lg, st) = A("optimistic", Screen!StateOf(lg, st), n)
       /\ Screen!OptimisticOf(lg2, st2) = B("optimistic", Screen!StateOf(lg2, st2), m)
  BY <1>1 DEF Screen!OptimisticOf
<1>. HIDE DEF A, B
<1>. QED  BY <1>6, <1>7, <1>8, <1>9, <1>10

LEMMA EventShows ==
  ASSUME NEW lg \in Seq(Update), NEW lg2 \in Seq(Update), NEW st, NEW st2,
         NEW u \in Update, Grows(lg, st, lg2, st2, u), NEW sn \in 0..Len(lg),
         NEW hooks, NEW p, NEW c, Shows(lg, sn, hooks, p, c, st),
         NEW p2, NEW c2,
         \A h \in Hooks : AllEntries(hooks, p2, c2, h)
           = AllEntries(hooks, p, c, h) \cup (IF u.hook = h THEN {u} ELSE {}),
         \A h \in Hooks : InOrder(hooks[h].baseQueue, p2[h], c2)
  PROVE  Shows(lg2, sn, hooks, p2, c2, st2)
<1>1. \A h \in Hooks : Matches(lg2, AllEntries(hooks, p2, c2, h), h, st2)
  BY MatchesGrows DEF Shows
<1>2. Based(lg2, hooks["state"].baseState, AllEntries(hooks, p2, c2, "state"), st2, sn)
  <2>1. "state" \in Hooks
    BY DEF Hooks
  <2>2. Based(lg, hooks["state"].baseState, AllEntries(hooks, p, c, "state"), st, sn)
    BY DEF Shows
  <2>. QED  BY <2>1, <2>2, BasedGrows
<1>3. Values(lg2, hooks, st2)
  BY StateGrows DEF Shows, Values
<1>. QED  BY <1>1, <1>2, <1>3 DEF Shows

-----------------------------------------------------------------------------
(* A hook is processed: what the queue has come to after the first m       *)
(* updates, if `st' are the statuses that the render gives them.           *)
BasedUpto(lg, st, r, m) ==
  \E k \in 0..m :
    /\ (IF r.baseQueue = <<>> THEN r.state ELSE r.baseState) = AllApplied(lg, k)
    /\ r.baseQueue = <<>> => k = m
    /\ \A u \in 1..m : lg[u].hook = "state" =>
         IF u > k THEN \E e \in ToSet(r.baseQueue) : e.id = u ELSE st[u] = "shown"
    /\ \A e \in ToSet(r.baseQueue) : e.id > k

Progress(lg, st, h, start, r, m) ==
  /\ r.state = Screen!Applied(start, lg, st, h, m)
  /\ Sorted(r.baseQueue) /\ Matches(lg, ToSet(r.baseQueue), h, st)
  /\ \A e \in ToSet(r.baseQueue) : e.id <= m
  /\ h = "state" => start = <<>> /\ BasedUpto(lg, st, r, m)

SameQueue(r, r2) ==
  r2.state = r.state /\ r2.baseState = r.baseState /\ r2.baseQueue = r.baseQueue

(* An update that is not in the queue, or that is dropped.                 *)
LEMMA ProgressSkips ==
  ASSUME NEW lg \in Seq(Update), NEW st, NEW h, NEW start \in State,
         NEW n \in 1..Len(lg), NEW m, m = n - 1,
         NEW r \in Computed, NEW r2, SameQueue(r, r2),
         Progress(lg, st, h, start, r, m),
         ~(lg[n].hook = h /\ st[n] = "shown"), h = "state" => lg[n].hook # "state"
  PROVE  Progress(lg, st, h, start, r2, n)
<1>1. Len(lg) \in Nat /\ n \in Nat /\ m \in Nat /\ m \in 0..Len(lg)
  BY LenProperties
<1>2. Screen!Applied(start, lg, st, h, n) = Screen!Applied(start, lg, st, h, m)
  <2>1. Screen!Applied(start, lg, st, h, n)
          = IF lg[n].hook = h /\ st[n] = "shown"
              THEN Reduce(Screen!Applied(start, lg, st, h, m), lg[n])
              ELSE Screen!Applied(start, lg, st, h, m)
    BY AppliedStep
  <2>. QED  BY <2>1
<1>3. \A e \in ToSet(r.baseQueue) : e.id <= n
  <2>1. \A e \in ToSet(r.baseQueue) : e.id \in Nat
    BY EntryAt DEF Computed
  <2>2. \A e \in ToSet(r.baseQueue) : e.id <= m
    BY DEF Progress
  <2>. QED  BY <1>1, <2>1, <2>2
<1>4. ASSUME h = "state" PROVE BasedUpto(lg, st, r2, n)
  <2>1. PICK k \in 0..m :
          /\ (IF r.baseQueue = <<>> THEN r.state ELSE r.baseState) = AllApplied(lg, k)
          /\ r.baseQueue = <<>> => k = m
          /\ \A u \in 1..m : lg[u].hook = "state" =>
               IF u > k THEN \E e \in ToSet(r.baseQueue) : e.id = u ELSE st[u] = "shown"
          /\ \A e \in ToSet(r.baseQueue) : e.id > k
    BY <1>4 DEF Progress, BasedUpto
  <2>2. \A u \in 1..n : u = n \/ u \in 1..m
    BY <1>1
  <2>3. CASE r.baseQueue = <<>>
    <3>1. AllApplied(lg, n) = AllApplied(lg, m)
      BY <1>4, AllAppliedStep
    <3>2. \A u \in 1..n : lg[u].hook = "state" =>
            IF u > n THEN \E e \in ToSet(r.baseQueue) : e.id = u ELSE st[u] = "shown"
      BY <1>1, <1>4, <2>1, <2>2, <2>3
    <3>3. n \in 0..n /\ ToSet(r.baseQueue) = {}
      BY <1>1, <2>3, EmptyToSet
    <3>. QED  BY <2>1, <2>3, <3>1, <3>2, <3>3 DEF BasedUpto, SameQueue
  <2>4. CASE r.baseQueue # <<>>
    <3>1. \A u \in 1..n : lg[u].hook = "state" =>
            IF u > k THEN \E e \in ToSet(r.baseQueue) : e.id = u ELSE st[u] = "shown"
      BY <1>4, <2>1, <2>2
    <3>2. k \in 0..n
      BY <1>1
    <3>. QED  BY <2>1, <2>4, <3>1, <3>2 DEF BasedUpto, SameQueue
  <2>. QED  BY <2>3, <2>4
<1>. QED  BY <1>2, <1>3, <1>4 DEF Progress, SameQueue

(* An update that is applied, if no other is kept, ...                     *)
LEMMA ProgressApplies ==
  ASSUME NEW lg \in Seq(Update), NEW st, NEW h, NEW start \in State,
         NEW n \in 1..Len(lg), NEW m, m = n - 1,
         NEW r \in Computed, NEW r2, Progress(lg, st, h, start, r, m),
         lg[n].hook = h, st[n] = "shown",
         r.baseQueue = <<>>, r2.baseQueue = <<>>,
         r2.state = Screen!Applied(start, lg, st, h, n)
  PROVE  Progress(lg, st, h, start, r2, n)
<1>1. Len(lg) \in Nat /\ n \in Nat /\ m \in Nat /\ n \in 0..Len(lg) /\ n \in 0..n
  BY LenProperties
<1>2. Sorted(r2.baseQueue) /\ ToSet(r2.baseQueue) = {}
  BY EmptyToSet, EmptyInOrder
<1>3. ASSUME h = "state" PROVE BasedUpto(lg, st, r2, n)
  <2>1. start = <<>> /\ \A u \in 1..m : lg[u].hook = "state" => st[u] = "shown"
    BY <1>1, <1>3 DEF Progress, BasedUpto
  <2>2. StatesShown(lg, st, n)
    <3>1. \A u \in 1..n : u = n \/ u \in 1..m
      BY <1>1
    <3>. QED  BY <2>1, <3>1 DEF StatesShown
  <2>3. r2.state = AllApplied(lg, n)
    BY <1>1, <1>3, <2>1, <2>2, AllAppliedShown
  <2>4. \A u \in 1..n : lg[u].hook = "state" =>
          IF u > n THEN \E e \in ToSet(r2.baseQueue) : e.id = u ELSE st[u] = "shown"
    BY <1>1, <2>2 DEF StatesShown
  <2>. QED  BY <1>1, <1>2, <2>3, <2>4 DEF BasedUpto
<1>4. h = "state" => start = <<>>
  BY DEF Progress
<1>. QED  BY <1>2, <1>3, <1>4 DEF Progress, Matches

(* ... and one that is kept.                                               *)
LEMMA ProgressKeeps ==
  ASSUME NEW lg \in Seq(Update), NEW st, NEW h, NEW start \in State,
         NEW n \in 1..Len(lg), NEW m, m = n - 1,
         NEW r \in Computed, NEW r2, Progress(lg, st, h, start, r, m),
         lg[n].hook = h, st[n] # "dropped", NEW e \in Update, e.id = n, e = EntryOf(lg, n, st),
         r2.baseQueue = Append(r.baseQueue, e),
         r2.baseState = IF r.baseQueue = <<>> THEN r.state ELSE r.baseState,
         r2.state = Screen!Applied(start, lg, st, h, n)
  PROVE  Progress(lg, st, h, start, r2, n)
<1>1. Len(lg) \in Nat /\ n \in Nat /\ m \in Nat /\ n \in DOMAIN lg
  BY LenProperties
<1>2. PICK q \in Seq(Update) : q = r.baseQueue
  BY DEF Computed
<1>3. \A f \in ToSet(q) : f.id \in Nat /\ f.id <= m /\ f.id < n /\ f.id <= n
  <2>1. \A f \in ToSet(q) : f.id \in Nat
    BY EntryAt
  <2>2. \A f \in ToSet(q) : f.id <= m
    BY <1>2 DEF Progress
  <2>. QED  BY <1>1, <2>1, <2>2
<1>4. ToSet(r2.baseQueue) = ToSet(q) \cup {e}
  BY <1>2, AppendToSet
<1>5. Sorted(r2.baseQueue)
  BY <1>2, <1>3, SortedAppend DEF Progress
<1>6. Matches(lg, ToSet(r2.baseQueue), h, st)
  BY <1>1, <1>2, <1>4 DEF Progress, Matches
<1>7. ASSUME h = "state" PROVE BasedUpto(lg, st, r2, n)
  <2>1. PICK k \in 0..m :
          /\ (IF q = <<>> THEN r.state ELSE r.baseState) = AllApplied(lg, k)
          /\ q = <<>> => k = m
          /\ \A u \in 1..m : lg[u].hook = "state" =>
               IF u > k THEN \E f \in ToSet(q) : f.id = u ELSE st[u] = "shown"
          /\ \A f \in ToSet(q) : f.id > k
    BY <1>2, <1>7 DEF Progress, BasedUpto
  <2>2. k \in 0..n /\ n > k /\ \A u \in 1..n : u = n \/ u \in 1..m
    BY <1>1
  <2>3. r2.baseQueue # <<>>
    BY <1>2, AppendProperties
  <2>4. r2.baseState = AllApplied(lg, k)
    BY <1>2, <2>1
  <2>5. \A u \in 1..n : lg[u].hook = "state" =>
          IF u > k THEN \E f \in ToSet(r2.baseQueue) : f.id = u ELSE st[u] = "shown"
    BY <1>4, <2>1, <2>2
  <2>6. \A f \in ToSet(r2.baseQueue) : f.id > k
    BY <1>4, <2>1, <2>2
  <2>. QED  BY <2>2, <2>3, <2>4, <2>5, <2>6 DEF BasedUpto
<1>8. h = "state" => start = <<>>
  BY DEF Progress
<1>9. \A f \in ToSet(r2.baseQueue) : f.id <= n
  BY <1>1, <1>3, <1>4
<1>. QED  BY <1>5, <1>6, <1>7, <1>8, <1>9 DEF Progress

-----------------------------------------------------------------------------
(* What the render makes of an entry.                                      *)
Rendered(e) == e.lane \in renderLanes \cup {NoLane}

LEMMA EntryType ==
  ASSUME TypeInv, UpdatesByHook, NEW n \in DOMAIN log, NEW e, e = EntryOf(log, n, status)
  PROVE  /\ e \in Update /\ e.id = n /\ e.hook = log[n].hook /\ e.kind = log[n].kind
         /\ e.eagerState = log[n].eagerState /\ e.revertLane = log[n].revertLane
         /\ e.lane = IF status[n] = "queued" THEN log[n].lane ELSE NoLane
         /\ [e EXCEPT !.lane = NoLane] \in Update /\ [e EXCEPT !.lane = NoLane].id = n
<1>1. log[n] \in Update /\ log[n].id = n
  BY UpdateInLog DEF UpdatesByHook
<1>. QED  BY <1>1 DEF EntryOf, Update

LEMMA EntryRendered ==
  ASSUME TypeInv, UpdatesByHook, SyncInv, pc = "started", NoLane \notin renderLanes,
         NEW n \in DOMAIN log, n <= seen, log[n].hook \in Hooks, status[n] # "dropped",
         NEW e, e = EntryOf(log, n, status), NEW st, st = RenderStatuses
  PROVE  /\ ~Rendered(e) => st[n] = "queued" /\ e = EntryOf(log, n, st)
         /\ Rendered(e) /\ e.revertLane \notin renderLanes =>
              st[n] = "shown" /\ [e EXCEPT !.lane = NoLane] = EntryOf(log, n, st)
         /\ Rendered(e) /\ e.revertLane \in renderLanes =>
              st[n] = "dropped" /\ log[n].hook # "state"
         /\ e.revertLane = NoLane <=> log[n].hook = "state"
         /\ status[n] = "shown" /\ log[n].hook = "state" => st[n] = "shown"
<1>1. /\ log[n] \in Update /\ status[n] \in {"queued", "shown"} /\ n \in Nat /\ seen \in Nat
  BY UpdateInLog
<1>2. /\ e.revertLane = log[n].revertLane
      /\ e.lane = IF status[n] = "queued" THEN log[n].lane ELSE NoLane
      /\ e \in Update
  BY <1>1 DEF EntryOf, Update
<1>3. st[n] = IF log[n].revertLane \in renderLanes THEN "dropped"
              ELSE IF log[n].lane \in renderLanes THEN "shown" ELSE status[n]
  BY <1>1 DEF RenderStatuses, RenderedStatus
<1>4. /\ e = [log[n] EXCEPT !.lane = e.lane]
      /\ EntryOf(log, n, st) = [log[n] EXCEPT
              !.lane = IF st[n] = "queued" THEN log[n].lane ELSE NoLane]
      /\ [e EXCEPT !.lane = NoLane] = [log[n] EXCEPT !.lane = NoLane]
  BY <1>1, <1>2 DEF EntryOf, Update
<1>5. CASE log[n].hook = "state"
  <2>1. /\ log[n].revertLane = NoLane /\ (log[n].lane = NoLane => status[n] = "shown")
    BY <1>5 DEF UpdatesByHook
  <2>2. ~Rendered(e) => st[n] = "queued" /\ e.lane = log[n].lane
    BY <1>1, <1>2, <1>3, <2>1 DEF Rendered
  <2>3. Rendered(e) => st[n] = "shown"
    BY <1>1, <1>2, <1>3, <2>1 DEF Rendered
  <2>4. status[n] = "shown" => st[n] = "shown"
    BY <1>3, <2>1
  <2>. QED  BY <1>2, <1>4, <1>5, <2>1, <2>2, <2>3, <2>4
<1>6. CASE log[n].hook = "optimistic"
  <2>1. log[n].lane = SyncLane /\ log[n].revertLane # NoLane
    BY <1>6 DEF UpdatesByHook
  <2>2. status[n] = "queued" => SyncLane \in renderLanes
    BY <1>1, <1>6 DEF SyncInv
  <2>3. Rendered(e)
    BY <1>1, <1>2, <2>1, <2>2 DEF Rendered
  <2>4. st[n] = IF log[n].revertLane \in renderLanes THEN "dropped" ELSE "shown"
    BY <1>1, <1>3, <2>1, <2>2
  <2>. QED  BY <1>2, <1>4, <1>6, <2>1, <2>3, <2>4
<1>. QED  BY <1>5, <1>6 DEF Hooks

LEMMA EagerRendered ==
  ASSUME TypeInv, UpdatesByHook, SyncInv, pc = "started", NoLane \notin renderLanes,
         Eager(log, status)
  PROVE  Eager(log, RenderStatuses)
<1>1. DOMAIN log = 1..Len(log) /\ Len(log) \in Nat
  BY TypeInvParts, LenProperties DEF LogOK
<1>2. ASSUME NEW u \in DOMAIN log, log[u].hook = "state", status[u] = "shown"
      PROVE  RenderStatuses[u] = "shown"
  <2>1. log[u].revertLane = NoLane
    BY <1>2 DEF UpdatesByHook
  <2>. QED  BY <1>2, <2>1 DEF RenderStatuses, RenderedStatus
<1>3. ASSUME NEW u \in DOMAIN log, StatesShown(log, status, u - 1)
      PROVE  StatesShown(log, RenderStatuses, u - 1)
  <2>1. \A v \in 1..(u - 1) : v \in DOMAIN log
    BY <1>1
  <2>. QED  BY <1>2, <1>3, <2>1 DEF StatesShown
<1>. QED  BY <1>3 DEF Eager

(* The fields of a processed update.                                       *)
LEMMA ProcessFields ==
  ASSUME NEW r \in Computed, NEW e \in Update,
         NEW r2, r2 = Process(r, e), NEW kept, kept = [e EXCEPT !.lane = NoLane]
  PROVE  /\ ~Rendered(e) =>
              /\ r2.state = r.state /\ r2.baseQueue = Append(r.baseQueue, e)
              /\ r2.baseState = IF r.baseQueue = <<>> THEN r.state ELSE r.baseState
         /\ Rendered(e) /\ e.revertLane = NoLane =>
              /\ r2.state = Result(r.state, e) /\ r2.baseState = r.baseState
              /\ r2.baseQueue = IF r.baseQueue = <<>> THEN <<>> ELSE Append(r.baseQueue, kept)
         /\ Rendered(e) /\ e.revertLane # NoLane /\ e.revertLane \in renderLanes =>
              SameQueue(r, r2)
         /\ Rendered(e) /\ e.revertLane # NoLane /\ e.revertLane \notin renderLanes =>
              /\ r2.state = Result(r.state, e) /\ r2.baseQueue = Append(r.baseQueue, kept)
              /\ r2.baseState = IF r.baseQueue = <<>> THEN r.state ELSE r.baseState
<1>. DEFINE Reads(lane) ==
              [r EXCEPT !.didReadFromAction = @ \/ lane = scope.lane]
<1>1. \A lane : /\ Reads(lane).state = r.state /\ Reads(lane).baseState = r.baseState
                /\ Reads(lane).baseQueue = r.baseQueue /\ Reads(lane) \in Computed
  BY DEF Computed
<1>2. ASSUME NEW q \in Computed, NEW u, NEW lane
      PROVE  /\ Keep(q, u, lane).state = q.state
             /\ Keep(q, u, lane).baseQueue = Append(q.baseQueue, u)
             /\ Keep(q, u, lane).baseState = IF q.baseQueue = <<>> THEN q.state ELSE q.baseState
             /\ Apply(Keep(q, u, lane), e).state = Result(q.state, e)
             /\ Apply(Keep(q, u, lane), e).baseQueue = Append(q.baseQueue, u)
             /\ Apply(Keep(q, u, lane), e).baseState
                  = IF q.baseQueue = <<>> THEN q.state ELSE q.baseState
  BY DEF Keep, Apply, Computed
<1>. HIDE DEF Reads
<1>3. CASE ~Rendered(e)
  <2>1. r2 = Keep(r, e, e.lane)
    BY <1>3 DEF Process, Rendered
  <2>. QED  BY <1>2, <1>3, <2>1
<1>4. CASE Rendered(e) /\ e.revertLane = NoLane
  <2>1. PICK q \in Computed : q = Reads(e.lane)
    BY <1>1
  <2>2. r2 = Apply([q EXCEPT !.baseQueue = IF @ = <<>> THEN @ ELSE Append(@, kept)], e)
    BY <1>4, <2>1 DEF Process, Rendered, Reads
  <2>3. /\ r2.state = Result(q.state, e) /\ r2.baseState = q.baseState
        /\ r2.baseQueue = IF q.baseQueue = <<>> THEN q.baseQueue ELSE Append(q.baseQueue, kept)
    BY <2>2 DEF Apply, Computed
  <2>. QED  BY <1>1, <1>4, <2>1, <2>3
<1>5. CASE Rendered(e) /\ e.revertLane # NoLane /\ e.revertLane \in renderLanes
  <2>1. r2 = Reads(e.revertLane)
    BY <1>5 DEF Process, Rendered, Reads
  <2>. QED  BY <1>1, <1>5, <2>1 DEF SameQueue
<1>6. CASE Rendered(e) /\ e.revertLane # NoLane /\ e.revertLane \notin renderLanes
  <2>1. r2 = Apply(Keep(r, kept, e.revertLane), e)
    BY <1>6 DEF Process, Rendered
  <2>. QED  BY <1>2, <1>6, <2>1
<1>. QED  BY <1>3, <1>4, <1>5, <1>6

LEMMA ProcessProgress ==
  ASSUME TypeInv, UpdatesByHook, SyncInv, pc = "started", NoLane \notin renderLanes,
         Eager(log, status), NEW st, st = RenderStatuses,
         NEW h \in Hooks, NEW start \in State, NEW n \in 1..Len(log), n <= seen,
         NEW m, m = n - 1,
         NEW r \in Computed, Progress(log, st, h, start, r, m),
         log[n].hook = h, status[n] # "dropped", NEW e, e = EntryOf(log, n, status)
  PROVE  Progress(log, st, h, start, Process(r, e), n)
<1>1. log \in Seq(Update) /\ n \in DOMAIN log
  BY TypeInvParts, LenProperties DEF LogOK
<1>2. PICK r2, kept : r2 = Process(r, e) /\ kept = [e EXCEPT !.lane = NoLane]
  OBVIOUS
<1>3. /\ e \in Update /\ e.id = n /\ e.kind = log[n].kind
      /\ e.eagerState = log[n].eagerState
      /\ kept \in Update /\ kept.id = n
  BY <1>1, <1>2, EntryType
<1>4. /\ ~Rendered(e) => st[n] = "queued" /\ e = EntryOf(log, n, st)
      /\ Rendered(e) /\ e.revertLane \notin renderLanes =>
           st[n] = "shown" /\ kept = EntryOf(log, n, st)
      /\ Rendered(e) /\ e.revertLane \in renderLanes =>
           st[n] = "dropped" /\ log[n].hook # "state"
  BY <1>1, <1>2, EntryRendered
<1>5. Screen!Applied(start, log, st, h, n)
        = IF log[n].hook = h /\ st[n] = "shown"
            THEN Reduce(Screen!Applied(start, log, st, h, m), log[n])
            ELSE Screen!Applied(start, log, st, h, m)
  BY <1>1, AppliedStep
<1>6. r.state = Screen!Applied(start, log, st, h, m) /\ (h = "state" => start = <<>>)
  BY DEF Progress
<1>7. Result(r.state, e) = Reduce(r.state, log[n])
  <2>1. Eager(log, st)
    BY EagerRendered
  <2>2. log[n].hook = "state" => r.state = Screen!Applied(<<>>, log, st, "state", m)
    BY <1>6
  <2>3. log[n].id = n
    BY <1>1 DEF UpdatesByHook
  <2>. QED  BY <1>1, <1>3, <2>1, <2>2, <2>3, EagerResult
<1>8. CASE ~Rendered(e)
  <2>1. /\ r2.state = r.state /\ r2.baseQueue = Append(r.baseQueue, e)
        /\ r2.baseState = IF r.baseQueue = <<>> THEN r.state ELSE r.baseState
    BY <1>2, <1>3, <1>8, ProcessFields
  <2>2. /\ st[n] # "dropped" /\ e = EntryOf(log, n, st)
        /\ r2.state = Screen!Applied(start, log, st, h, n)
    BY <1>4, <1>5, <1>6, <1>8, <2>1
  <2>. QED  BY <1>1, <1>2, <1>3, <2>1, <2>2, ProgressKeeps
<1>9. CASE Rendered(e) /\ e.revertLane \notin renderLanes
  <2>1. st[n] = "shown" /\ kept = EntryOf(log, n, st)
    BY <1>4, <1>9
  <2>2. r2.state = Screen!Applied(start, log, st, h, n)
    <3>1. r2.state = Result(r.state, e)
      BY <1>2, <1>3, <1>9, ProcessFields
    <3>. QED  BY <1>5, <1>6, <1>7, <2>1, <3>1
  <2>3. CASE r.baseQueue = <<>> /\ r2.baseQueue = <<>>
    BY <1>1, <1>2, <2>1, <2>2, <2>3, ProgressApplies
  <2>4. CASE /\ r2.baseQueue = Append(r.baseQueue, kept)
             /\ r2.baseState = IF r.baseQueue = <<>> THEN r.state ELSE r.baseState
    <3>1. st[n] # "dropped"
      BY <2>1
    <3>. QED  BY <1>1, <1>2, <1>3, <2>1, <2>2, <2>4, <3>1, ProgressKeeps
  <2>5. CASE e.revertLane = NoLane
    <3>1. /\ r2.baseState = r.baseState
          /\ r2.baseQueue = IF r.baseQueue = <<>> THEN <<>> ELSE Append(r.baseQueue, kept)
      BY <1>2, <1>3, <1>9, <2>5, ProcessFields
    <3>. QED  BY <2>3, <2>4, <3>1
  <2>6. CASE e.revertLane # NoLane
    BY <1>2, <1>3, <1>9, <2>4, <2>6, ProcessFields
  <2>. QED  BY <2>5, <2>6
<1>10. CASE Rendered(e) /\ e.revertLane \in renderLanes
  <2>1. SameQueue(r, r2)
    BY <1>2, <1>3, <1>10, ProcessFields
  <2>2. ~(log[n].hook = h /\ st[n] = "shown") /\ (h = "state" => log[n].hook # "state")
    BY <1>4, <1>10
  <2>. QED  BY <1>1, <1>2, <2>1, <2>2, ProgressSkips
<1>. QED  BY <1>8, <1>9, <1>10

(* The queue has the updates after the first k that the render is for.     *)
LEMMA QueueProgress ==
  ASSUME TypeInv, UpdatesByHook, SyncInv, pc = "started", NoLane \notin renderLanes,
         Eager(log, status), NEW st, st = RenderStatuses,
         NEW h \in Hooks, NEW start \in State, NEW k \in 0..seen,
         h = "state" => start = <<>> /\ StatesShown(log, st, k),
         NEW q \in Seq(Update), Sorted(q), Matches(log, ToSet(q), h, status),
         \A e \in ToSet(q) : k < e.id /\ e.id <= seen,
         \A u \in (k + 1)..seen : log[u].hook = h /\ (h = "state" \/ st[u] = "shown")
           => \E e \in ToSet(q) : e.id = u,
         NEW base \in State, base = Screen!Applied(start, log, st, h, k)
  PROVE  Progress(log, st, h, start, ProcessQueue(q, base), seen)
<1>1. /\ log \in Seq(Update) /\ Len(log) \in Nat /\ DOMAIN log = 1..Len(log)
      /\ seen \in 0..Len(log)
  BY TypeInvParts, LenProperties DEF LogOK
<1>2. PICK N \in Nat : N = Len(q) /\ \A i \in 1..N : q[i] \in Update /\ q[i] \in ToSet(q)
  BY EntryAt
<1>3. \A e \in ToSet(q) : e.id \in Nat /\ \E i \in 1..N : e = q[i]
  BY <1>2, EntryAt
<1>4. PICK after \in [0..N -> Computed] :
        /\ after[0] = Start(base)
        /\ \A i \in 1..N : after[i] = Process(after[i - 1], q[i])
        /\ ProcessQueue(q, base) = after[N]
  BY <1>2, ProcessQueueSteps
<1>. DEFINE Upto(i, n) == \A j \in 1..N : q[j].id <= n <=> j <= i
            At(n) == \E i \in 0..N : Upto(i, n) /\ Progress(log, st, h, start, after[i], n)
            D == seen - k
            S == {d \in 0..D : At(k + d)}
<1>5. D \in Nat /\ k \in Nat /\ k + D = seen /\ k + 0 = k
  BY <1>1
<1>6. 0 \in S
  <2>1. Upto(0, k)
    <3>1. \A j \in 1..N : ~(q[j].id <= k) /\ ~(j <= 0)
      BY <1>2, <1>3, <1>5
    <3>. QED  BY <3>1
  <2>2. /\ Start(base).state = base /\ Start(base).baseQueue = <<>>
        /\ Sorted(<<>>) /\ ToSet(<<>>) = {}
    BY EmptyInOrder, EmptyToSet DEF Start
  <2>3. ASSUME h = "state" PROVE BasedUpto(log, st, Start(base), k)
    <3>1. base = AllApplied(log, k)
      <4>1. k \in 0..Len(log)
        BY <1>1
      <4>. QED  BY <1>1, <2>3, <4>1, AllAppliedShown
    <3>2. \A u \in 1..k : log[u].hook = "state" =>
            IF u > k THEN \E e \in ToSet(Start(base).baseQueue) : e.id = u ELSE st[u] = "shown"
      BY <1>5, <2>3 DEF StatesShown
    <3>3. k \in 0..k
      BY <1>5
    <3>. QED  BY <2>2, <3>1, <3>2, <3>3 DEF BasedUpto
  <2>4. Progress(log, st, h, start, Start(base), k)
    BY <2>2, <2>3 DEF Progress, Matches
  <2>5. 0 \in 0..N /\ 0 \in 0..D
    BY <1>2, <1>5
  <2>. HIDE DEF Upto
  <2>. QED  BY <1>4, <1>5, <2>1, <2>4, <2>5
<1>7. ASSUME NEW d \in 1..D, d - 1 \in S PROVE d \in S
  <2>1. PICK n, m : n = k + d /\ m = k + (d - 1)
    OBVIOUS
  <2>2. /\ n \in 1..Len(log) /\ n \in (k + 1)..seen /\ n <= seen /\ m = n - 1 /\ d \in 0..D
        /\ n \in DOMAIN log /\ n \in Nat /\ m \in Nat
    BY <1>1, <1>5, <2>1
  <2>3. PICK i \in 0..N : Upto(i, m) /\ Progress(log, st, h, start, after[i], m)
    BY <1>7, <2>1
  <2>4. after[i] \in Computed
    BY <1>4
  <2>5. CASE \E e \in ToSet(q) : e.id = n
    <3>1. PICK j \in 1..N : q[j].id = n
      BY <1>3, <2>5
    <3>2. ~(j <= i)
      BY <2>2, <2>3, <3>1
    <3>3. i + 1 \in 1..N /\ (i + 1) - 1 = i
      BY <1>2, <3>2
    <3>4. j = i + 1
      <4>1. ASSUME j # i + 1 PROVE FALSE
        <5>1. i + 1 < j
          BY <1>2, <3>2, <4>1
        <5>2. q[i + 1].id < n
          BY <1>2, <3>1, <3>3, <5>1 DEF Sorted
        <5>3. q[i + 1].id <= m
          BY <1>2, <1>3, <2>2, <3>3, <5>2
        <5>4. i + 1 <= i
          BY <2>3, <3>3, <5>3
        <5>. QED  BY <1>2, <5>4
      <4>. QED  BY <4>1
    <3>5. Upto(i + 1, n)
      <4>1. ASSUME NEW l \in 1..N PROVE q[l].id <= n <=> l <= i + 1
        <5>1. q[l].id \in Nat
          BY <1>2, <1>3
        <5>2. l < j => q[l].id < n
          BY <1>2, <3>1 DEF Sorted
        <5>3. j < l => n < q[l].id
          BY <1>2, <3>1 DEF Sorted
        <5>4. l < i + 1 \/ l = i + 1 \/ i + 1 < l
          BY <1>2
        <5>. QED  BY <1>2, <2>2, <3>1, <3>4, <5>1, <5>2, <5>3, <5>4
      <4>. QED  BY <4>1
    <3>6. /\ log[n].hook = h /\ status[n] # "dropped" /\ q[i + 1] = EntryOf(log, n, status)
      BY <1>2, <3>1, <3>3, <3>4 DEF Matches
    <3>7. Progress(log, st, h, start, Process(after[i], q[i + 1]), n)
      <4>. HIDE DEF Upto
      <4>. QED  BY <2>2, <2>3, <2>4, <3>6, ProcessProgress
    <3>8. after[i + 1] = Process(after[i], q[i + 1]) /\ i + 1 \in 0..N
      BY <1>2, <1>4, <3>3
    <3>. HIDE DEF Upto
    <3>. QED  BY <2>1, <2>2, <3>5, <3>7, <3>8
  <2>6. CASE ~\E e \in ToSet(q) : e.id = n
    <3>1. Upto(i, n)
      <4>1. ASSUME NEW l \in 1..N PROVE q[l].id <= n <=> q[l].id <= m
        <5>1. PICK id \in Nat : id = q[l].id /\ id # n
          BY <1>2, <1>3, <2>6
        <5>2. n \in Nat /\ m = n - 1
          BY <2>2
        <5>3. id <= n <=> id <= m
          BY <5>1, <5>2
        <5>. QED  BY <5>1, <5>3
      <4>. QED  BY <2>3, <4>1
    <3>2. /\ ~(log[n].hook = h /\ st[n] = "shown")
          /\ h = "state" => log[n].hook # "state"
      BY <2>2, <2>6
    <3>3. SameQueue(after[i], after[i])
      BY DEF SameQueue
    <3>4. Progress(log, st, h, start, after[i], n)
      <4>. HIDE DEF Upto
      <4>. QED  BY <1>1, <2>2, <2>3, <2>4, <3>2, <3>3, ProgressSkips
    <3>. HIDE DEF Upto
    <3>. QED  BY <2>1, <2>2, <3>1, <3>4
  <2>. QED  BY <2>5, <2>6
<1>8. D \in S
  <2>. HIDE DEF S
  <2>1. 0..D \subseteq S
    BY <1>5, <1>6, <1>7, InductionUpTo
  <2>. QED  BY <1>5, <2>1
<1>9. PICK i \in 0..N : Upto(i, seen) /\ Progress(log, st, h, start, after[i], seen)
  BY <1>5, <1>8
<1>10. i = N
  <2>1. ASSUME i # N PROVE FALSE
    <3>1. N \in 1..N /\ ~(N <= i)
      BY <1>2, <2>1
    <3>2. q[N].id <= seen
      BY <1>2, <3>1
    <3>. QED  BY <1>9, <3>1, <3>2
  <2>. QED  BY <2>1
<1>. QED  BY <1>4, <1>9, <1>10

-----------------------------------------------------------------------------
(* The component is rendered.                                              *)
LEMMA QueuesType ==
  ASSUME TypeInv, NEW h \in Hooks
  PROVE  /\ current.hooks[h].baseQueue \in Seq(Update) /\ pending[h] \in Seq(Update)
         /\ concurrentQueues \in Seq(Update) /\ Merged(h) \in Seq(Update)
         /\ current.hooks[h].baseState \in State
         /\ ToSet(Merged(h)) = ToSet(current.hooks[h].baseQueue) \cup ToSet(pending[h])
         /\ AllEntries(current.hooks, pending, concurrentQueues, h)
              = ToSet(Merged(h)) \cup {e \in ToSet(concurrentQueues) : e.hook = h}
<1>1. current.hooks[h] \in Hook /\ pending[h] \in Seq(Update) /\ Merged(h) \in Seq(Update)
  BY MergedType
<1>2. ToSet(Merged(h)) = ToSet(current.hooks[h].baseQueue) \cup ToSet(pending[h])
  BY EntriesType
<1>3. concurrentQueues \in Seq(Update)
  BY TypeInvParts DEF QueuesOK
<1>. QED  BY <1>1, <1>2, <1>3 DEF Hook, AllEntries

LEMMA TakenQueue ==
  ASSUME TypeInv, OrderInv, pc = "started", NEW h \in Hooks,
         Shows(log, seen, current.hooks, pending, concurrentQueues, status)
  PROVE  /\ Sorted(Merged(h)) /\ Matches(log, ToSet(Merged(h)), h, status)
         /\ \A e \in ToSet(Merged(h)) : 0 < e.id /\ e.id <= seen
         /\ \A e \in ToSet(concurrentQueues) : e.id > seen /\ ~(e.id <= seen)
<1>1. /\ current.hooks[h].baseQueue \in Seq(Update) /\ pending[h] \in Seq(Update)
      /\ concurrentQueues \in Seq(Update)
      /\ ToSet(Merged(h)) = ToSet(current.hooks[h].baseQueue) \cup ToSet(pending[h])
      /\ AllEntries(current.hooks, pending, concurrentQueues, h)
           = ToSet(Merged(h)) \cup {e \in ToSet(concurrentQueues) : e.hook = h}
  BY QueuesType
<1>2. Sorted(Merged(h))
  <2>1. InOrder(current.hooks[h].baseQueue, pending[h], concurrentQueues)
    BY DEF Shows
  <2>. QED  BY <1>1, <2>1, MergedInOrder DEF Merged
<1>3. Matches(log, ToSet(Merged(h)), h, status)
  BY <1>1 DEF Shows, Matches
<1>4. seen \in Nat /\ DOMAIN log \subseteq Nat \ {0}
  BY TypeInvParts, LenProperties DEF LogOK
<1>5. \A e \in ToSet(Merged(h)) : 0 < e.id /\ e.id <= seen
  <2>1. \A e \in ToSet(Merged(h)) : e.id <= seen
    BY <1>1 DEF OrderInv
  <2>2. \A e \in ToSet(Merged(h)) : e.id \in Nat \ {0}
    BY <1>3, <1>4 DEF Matches
  <2>. QED  BY <2>1, <2>2
<1>6. \A e \in ToSet(concurrentQueues) : e.id > seen /\ ~(e.id <= seen)
  <2>1. \A e \in ToSet(concurrentQueues) : e.id \in Nat
    BY <1>1, EntryAt
  <2>2. \A e \in ToSet(concurrentQueues) : e.id > seen
    BY DEF OrderInv
  <2>. QED  BY <1>4, <2>1, <2>2
<1>. QED  BY <1>2, <1>3, <1>5, <1>6

LEMMA ShownStays ==
  ASSUME UpdatesByHook, NEW u \in DOMAIN log, log[u].hook = "state", status[u] = "shown",
         NoLane \notin renderLanes
  PROVE  RenderStatuses[u] = "shown"
<1>1. log[u].revertLane = NoLane
  BY DEF UpdatesByHook
<1>. QED  BY <1>1 DEF RenderStatuses, RenderedStatus

RenderedState == ProcessQueue(Merged("state"), current.hooks["state"].baseState)
RenderedOptimistic == ProcessQueue(Merged("optimistic"), RenderedState.state)

LEMMA StateProgress ==
  ASSUME TypeInv, UpdatesByHook, OrderInv, SyncInv, pc = "started", NoLane \notin renderLanes,
         Shows(log, seen, current.hooks, pending, concurrentQueues, status),
         Eager(log, status)
  PROVE  /\ RenderedState \in Computed
         /\ Progress(log, RenderStatuses, "state", <<>>, RenderedState, seen)
<1>. DEFINE entries == AllEntries(current.hooks, pending, concurrentQueues, "state")
<1>1. "state" \in Hooks
  BY DEF Hooks
<1>2. /\ Merged("state") \in Seq(Update) /\ current.hooks["state"].baseState \in State
      /\ entries = ToSet(Merged("state"))
                     \cup {e \in ToSet(concurrentQueues) : e.hook = "state"}
  BY <1>1, QueuesType
<1>3. PICK k \in 0..seen : /\ current.hooks["state"].baseState = AllApplied(log, k)
                           /\ Rests(log, k, entries, status)
  BY DEF Shows, Based
<1>4. /\ log \in Seq(Update) /\ DOMAIN log = 1..Len(log) /\ Len(log) \in Nat
      /\ seen \in 0..Len(log) /\ seen \in Nat /\ k \in Nat /\ k \in 0..Len(log)
  BY TypeInvParts, LenProperties DEF LogOK
<1>5. PICK st : st = RenderStatuses
  OBVIOUS
<1>6. StatesShown(log, st, k)
  <2>1. ASSUME NEW u \in 1..k, log[u].hook = "state" PROVE st[u] = "shown"
    <3>1. u \in DOMAIN log /\ ~(u > k)
      BY <1>4
    <3>. QED  BY <1>3, <1>5, <2>1, <3>1, ShownStays DEF Rests
  <2>. QED  BY <2>1 DEF StatesShown
<1>7. Screen!Applied(<<>>, log, st, "state", k) = current.hooks["state"].baseState
  BY <1>3, <1>4, <1>6, AllAppliedShown
<1>8. /\ Sorted(Merged("state")) /\ Matches(log, ToSet(Merged("state")), "state", status)
      /\ \A e \in ToSet(Merged("state")) : e.id <= seen
      /\ \A e \in ToSet(concurrentQueues) : e.id > seen /\ ~(e.id <= seen)
  BY <1>1, TakenQueue
<1>9. \A e \in ToSet(Merged("state")) : k < e.id /\ e.id <= seen
  <2>1. \A e \in ToSet(Merged("state")) : e.id > k /\ e.id \in Nat
    BY <1>2, <1>3, EntryAt DEF Rests
  <2>. QED  BY <1>4, <1>8, <2>1
<1>10. ASSUME NEW u \in (k + 1)..seen, log[u].hook = "state"
       PROVE  \E e \in ToSet(Merged("state")) : e.id = u
  <2>1. u \in DOMAIN log /\ u > k /\ u <= seen
    BY <1>4
  <2>2. PICK e \in entries : e.id = u
    BY <1>3, <1>10, <2>1 DEF Rests
  <2>. QED  BY <1>2, <1>8, <2>1, <2>2
<1>11. RenderedState \in Computed
  BY <1>2, ProcessQueueType DEF RenderedState
<1>12. Progress(log, st, "state", <<>>, RenderedState, seen)
  <2>1. \A u \in (k + 1)..seen : log[u].hook = "state" /\ ("state" = "state" \/ st[u] = "shown")
          => \E e \in ToSet(Merged("state")) : e.id = u
    BY <1>10
  <2>2. PICK q, base : q = Merged("state") /\ base = current.hooks["state"].baseState
    OBVIOUS
  <2>. HIDE DEF entries
  <2>3. Progress(log, st, "state", <<>>, ProcessQueue(q, base), seen)
    BY <1>1, <1>2, <1>5, <1>6, <1>7, <1>8, <1>9, <2>1, <2>2, EmptyState, QueueProgress
  <2>. QED  BY <2>2, <2>3 DEF RenderedState
<1>. QED  BY <1>5, <1>11, <1>12

LEMMA OptimisticProgress ==
  ASSUME TypeInv, UpdatesByHook, HoldInv, OrderInv, SyncInv, pc = "started",
         NoLane \notin renderLanes,
         Shows(log, seen, current.hooks, pending, concurrentQueues, status),
         Eager(log, status)
  PROVE  /\ RenderedOptimistic \in Computed
         /\ Progress(log, RenderStatuses, "optimistic", RenderedState.state,
                     RenderedOptimistic, seen)
<1>1. "optimistic" \in Hooks
  BY DEF Hooks
<1>2. PICK q, base, st : /\ q = Merged("optimistic") /\ base = RenderedState.state
                         /\ st = RenderStatuses
  OBVIOUS
<1>3. base \in State
  BY <1>2, StateProgress DEF Computed
<1>4. /\ log \in Seq(Update) /\ DOMAIN log = 1..Len(log) /\ Len(log) \in Nat
      /\ seen \in 0..Len(log) /\ seen \in Nat
  BY TypeInvParts, LenProperties DEF LogOK
<1>5. q \in Seq(Update)
  BY <1>1, <1>2, QueuesType
<1>6. /\ Sorted(q) /\ Matches(log, ToSet(q), "optimistic", status)
      /\ \A e \in ToSet(q) : 0 < e.id /\ e.id <= seen
  BY <1>1, <1>2, TakenQueue
<1>7. ASSUME NEW u \in (0 + 1)..seen, log[u].hook = "optimistic", st[u] = "shown"
      PROVE  \E e \in ToSet(q) : e.id = u
  <2>1. u \in DOMAIN log /\ u <= seen
    BY <1>4
  <2>2. status[u] # "dropped"
    <3>1. st[u] = RenderedStatus(u)
      BY <1>2, <2>1 DEF RenderStatuses
    <3>. QED  BY <1>7, <3>1 DEF RenderedStatus
  <2>3. ~(status[u] = "shown" /\ log[u].hook = "state") /\ log[u].hook \in Hooks
    BY <1>1, <1>7
  <2>4. PICK e : e.id = u /\ e \in ToSet(Merged(log[u].hook))
    BY <2>1, <2>2, <2>3, TakenEntry
  <2>. QED  BY <1>2, <1>7, <2>4
<1>8. RenderedOptimistic \in Computed
  BY <1>2, <1>3, <1>5, ProcessQueueType DEF RenderedOptimistic
<1>9. Screen!Applied(base, log, st, "optimistic", 0) = base
  BY <1>3, <1>4, AppliedType
<1>10. Progress(log, st, "optimistic", base, ProcessQueue(q, base), seen)
  <2>1. \A u \in (0 + 1)..seen :
          log[u].hook = "optimistic" /\ ("optimistic" = "state" \/ st[u] = "shown")
          => \E e \in ToSet(q) : e.id = u
    BY <1>7
  <2>2. 0 \in 0..seen
    BY <1>4
  <2>3. ~("optimistic" = "state")
    OBVIOUS
  <2>. QED
    BY <1>1, <1>2, <1>3, <1>5, <1>6, <1>9, <2>1, <2>2, <2>3, QueueProgress
<1>. QED  BY <1>2, <1>8, <1>10 DEF RenderedOptimistic

LEMMA UnseenStays ==
  ASSUME TypeInv, NEW u \in DOMAIN log, u > seen
  PROVE  RenderStatuses[u] = status[u]
BY DEF RenderStatuses, RenderedStatus

LEMMA CompletedShows ==
  ASSUME TypeInv, UpdatesByHook, HoldInv, OrderInv, SyncInv, pc = "started",
         NoLane \notin renderLanes,
         Shows(log, seen, current.hooks, pending, concurrentQueues, status),
         Eager(log, status), Unseen(log, status, seen),
         NEW hooks, hooks["state"] = NewHook(RenderedState),
         hooks["optimistic"] = NewHook(RenderedOptimistic),
         NEW p, \A h \in Hooks : p[h] = <<>>
  PROVE  Shows(log, seen, hooks, p, concurrentQueues, RenderStatuses)
<1>. DEFINE rendered == [state |-> RenderedState, optimistic |-> RenderedOptimistic]
<1>1. PICK st : st = RenderStatuses
  OBVIOUS
<1>2. /\ log \in Seq(Update) /\ DOMAIN log = 1..Len(log) /\ Len(log) \in Nat
      /\ seen \in 0..Len(log) /\ seen \in Nat
  BY TypeInvParts, LenProperties DEF LogOK
<1>3. ASSUME NEW h \in Hooks
      PROVE  /\ rendered[h] \in Computed /\ hooks[h] = NewHook(rendered[h])
             /\ \E start : Progress(log, st, h, start, rendered[h], seen)
  <2>1. CASE h = "state"
    BY <1>1, <2>1, StateProgress
  <2>2. CASE h = "optimistic"
    BY <1>1, <2>2, OptimisticProgress
  <2>. QED  BY <2>1, <2>2 DEF Hooks
<1>4. ASSUME NEW h \in Hooks
      PROVE  /\ hooks[h].baseQueue = rendered[h].baseQueue
             /\ hooks[h].memoizedState = rendered[h].state
             /\ hooks[h].baseState = IF rendered[h].baseQueue = <<>> THEN rendered[h].state
                                     ELSE rendered[h].baseState
  <2>1. PICK r : r = rendered[h]
    OBVIOUS
  <2>2. hooks[h] = NewHook(r)
    BY <1>3, <2>1
  <2>3. /\ NewHook(r).baseQueue = r.baseQueue /\ NewHook(r).memoizedState = r.state
        /\ NewHook(r).baseState = IF r.baseQueue = <<>> THEN r.state ELSE r.baseState
    BY DEF NewHook
  <2>. HIDE DEF rendered
  <2>. QED  BY <2>1, <2>2, <2>3
<1>. HIDE DEF rendered
<1>5. ASSUME NEW h \in Hooks
      PROVE  AllEntries(hooks, p, concurrentQueues, h)
               = ToSet(rendered[h].baseQueue) \cup {e \in ToSet(concurrentQueues) : e.hook = h}
  BY <1>4, EmptyToSet DEF AllEntries
<1>6. \A e \in ToSet(concurrentQueues) : e.id > seen /\ ~(e.id <= seen)
  BY TakenQueue DEF Hooks
<1>7. ASSUME NEW h \in Hooks
      PROVE  /\ Matches(log, ToSet(rendered[h].baseQueue), h, st)
             /\ Sorted(rendered[h].baseQueue)
             /\ \A e \in ToSet(rendered[h].baseQueue) : e.id <= seen
  BY <1>3 DEF Progress
<1>8. ASSUME NEW h \in Hooks
      PROVE  Matches(log, AllEntries(hooks, p, concurrentQueues, h), h, st)
  <2>1. ASSUME NEW e \in ToSet(concurrentQueues), e.hook = h
        PROVE  /\ e.id \in DOMAIN log /\ log[e.id].hook = h
               /\ st[e.id] # "dropped" /\ e = EntryOf(log, e.id, st)
    <3>1. e \in AllEntries(current.hooks, pending, concurrentQueues, h)
      BY <2>1 DEF AllEntries
    <3>2. /\ e.id \in DOMAIN log /\ log[e.id].hook = h
          /\ status[e.id] # "dropped" /\ e = EntryOf(log, e.id, status)
      BY <3>1 DEF Shows, Matches
    <3>3. st[e.id] = status[e.id]
      BY <1>1, <1>6, <3>2, UnseenStays
    <3>. QED  BY <3>2, <3>3 DEF EntryOf
  <2>. QED  BY <1>5, <1>7, <2>1 DEF Matches
<1>9. ASSUME NEW h \in Hooks
      PROVE  InOrder(hooks[h].baseQueue, p[h], concurrentQueues)
  <2>1. Sorted(concurrentQueues)
    BY <1>9 DEF Shows, InOrder
  <2>2. Precedes(ToSet(rendered[h].baseQueue), ToSet(concurrentQueues))
    <3>1. \A e \in ToSet(rendered[h].baseQueue) : e.id \in Nat
      BY <1>3, EntryAt DEF Computed
    <3>2. \A e \in ToSet(concurrentQueues) : e.id \in Nat
      BY QueuesType, EntryAt, <1>9
    <3>3. \A e \in ToSet(rendered[h].baseQueue), f \in ToSet(concurrentQueues) : e.id < f.id
      BY <1>2, <1>6, <1>7, <3>1, <3>2
    <3>. QED  BY <3>3 DEF Precedes
  <2>. QED  BY <1>4, <1>7, <2>1, <2>2, EmptyInOrder, EmptyToSet DEF InOrder
<1>10. Based(log, hooks["state"].baseState,
             AllEntries(hooks, p, concurrentQueues, "state"), st, seen)
  <2>1. "state" \in Hooks
    BY DEF Hooks
  <2>2. PICK r : r = rendered["state"]
    OBVIOUS
  <2>3. PICK k \in 0..seen :
          /\ (IF r.baseQueue = <<>> THEN r.state ELSE r.baseState) = AllApplied(log, k)
          /\ \A u \in 1..seen : log[u].hook = "state" =>
               IF u > k THEN \E e \in ToSet(r.baseQueue) : e.id = u ELSE st[u] = "shown"
          /\ \A e \in ToSet(r.baseQueue) : e.id > k
    BY <1>3, <2>1, <2>2 DEF Progress, BasedUpto
  <2>4. hooks["state"].baseState = AllApplied(log, k)
    BY <1>4, <2>1, <2>2, <2>3
  <2>5. ASSUME NEW u \in DOMAIN log, log[u].hook = "state"
        PROVE  IF u > k THEN \E e \in AllEntries(hooks, p, concurrentQueues, "state") : e.id = u
               ELSE st[u] = "shown"
    <3>1. CASE u <= seen
      <4>1. u \in 1..seen
        BY <1>2, <3>1
      <4>. QED  BY <1>5, <2>1, <2>2, <2>3, <2>5, <4>1
    <3>2. CASE ~(u <= seen)
      <4>1. PICK l \in 0..seen :
              Rests(log, l, AllEntries(current.hooks, pending, concurrentQueues, "state"), status)
        BY DEF Shows, Based
      <4>2. u > l /\ u > k
        BY <1>2, <3>2
      <4>3. PICK e \in AllEntries(current.hooks, pending, concurrentQueues, "state") : e.id = u
        BY <2>5, <4>1, <4>2 DEF Rests
      <4>4. e \notin ToSet(Merged("state"))
        <5>1. e \in ToSet(Merged("state")) => e.id <= seen
          BY <2>1, TakenQueue
        <5>. QED  BY <3>2, <4>3, <5>1
      <4>5. e \in ToSet(concurrentQueues) /\ e.hook = "state"
        BY <2>1, <4>3, <4>4, QueuesType
      <4>. QED  BY <1>5, <2>1, <4>2, <4>3, <4>5
    <3>. QED  BY <3>1, <3>2
  <2>6. \A e \in AllEntries(hooks, p, concurrentQueues, "state") : e.id > k
    <3>1. \A e \in ToSet(concurrentQueues) : e.id > k
      <4>1. \A e \in ToSet(concurrentQueues) : e.id \in Nat
        BY <2>1, QueuesType, EntryAt
      <4>. QED  BY <1>2, <1>6, <4>1
    <3>. QED  BY <1>5, <2>1, <2>2, <2>3, <3>1
  <2>7. Rests(log, k, AllEntries(hooks, p, concurrentQueues, "state"), st)
    BY <2>5, <2>6 DEF Rests
  <2>. QED  BY <2>4, <2>7 DEF Based
<1>11. Values(log, hooks, st)
  <2>1. Unseen(log, st, seen)
    BY <1>1, UnseenStays DEF Unseen
  <2>2. Eager(log, st)
    BY <1>1, EagerRendered
  <2>3. Screen!StateOf(log, st) = Screen!Applied(<<>>, log, st, "state", seen)
    BY <1>2, <2>1, <2>2, UnseenState
  <2>4. RenderedState.state = Screen!Applied(<<>>, log, st, "state", seen)
        /\ RenderedState.state \in State
    BY <1>1, StateProgress DEF Progress, Computed
  <2>5. RenderedOptimistic.state
          = Screen!Applied(RenderedState.state, log, st, "optimistic", seen)
    BY <1>1, OptimisticProgress DEF Progress
  <2>6. \A u \in DOMAIN log : log[u].hook = "optimistic" => log[u].lane # NoLane
    BY LanesInUse DEF UpdatesByHook
  <2>7. Screen!Applied(RenderedState.state, log, st, "optimistic", Len(log))
          = Screen!Applied(RenderedState.state, log, st, "optimistic", seen)
    BY <1>2, <2>1, <2>4, <2>6, UnseenOptimistic
  <2>8. Screen!OptimisticOf(log, st) = RenderedOptimistic.state
    BY <2>3, <2>4, <2>5, <2>7 DEF Screen!OptimisticOf
  <2>9. /\ hooks["state"].memoizedState = RenderedState.state
        /\ hooks["optimistic"].memoizedState = RenderedOptimistic.state
    BY DEF NewHook
  <2>. QED  BY <2>3, <2>4, <2>8, <2>9 DEF Values
<1>. QED  BY <1>1, <1>8, <1>9, <1>10, <1>11 DEF Shows

(* A render that takes nothing new shows the state that was there.         *)
LEMMA NothingTaken ==
  ASSUME TypeInv, UpdatesByHook, OrderInv, SyncInv, pc = "started", NoLane \notin renderLanes,
         Shows(log, seen, current.hooks, pending, concurrentQueues, status),
         Eager(log, status), Unseen(log, status, seen),
         \A e \in ToSet(Merged("state")) : e.lane = NoLane
  PROVE  RenderedState.state = Value("state")
<1>1. "state" \in Hooks
  BY DEF Hooks
<1>2. /\ log \in Seq(Update) /\ DOMAIN log = 1..Len(log) /\ Len(log) \in Nat
      /\ seen \in 0..Len(log) /\ seen \in Nat
  BY TypeInvParts, LenProperties DEF LogOK
<1>3. PICK k \in 0..seen :
        Rests(log, k, AllEntries(current.hooks, pending, concurrentQueues, "state"), status)
  BY DEF Shows, Based
<1>4. ASSUME NEW u \in 1..seen, log[u].hook = "state" PROVE status[u] = "shown"
  <2>1. u \in DOMAIN log /\ u <= seen
    BY <1>2
  <2>2. ASSUME u > k PROVE status[u] = "shown"
    <3>1. PICK e \in AllEntries(current.hooks, pending, concurrentQueues, "state") : e.id = u
      BY <1>3, <1>4, <2>1, <2>2 DEF Rests
    <3>2. e \in ToSet(Merged("state"))
      BY <1>1, <2>1, <3>1, QueuesType, TakenQueue
    <3>3. e = EntryOf(log, u, status) /\ status[u] # "dropped"
      BY <3>1 DEF Shows, Matches, Hooks
    <3>4. e.lane = IF status[u] = "queued" THEN log[u].lane ELSE NoLane
      <4>1. log[u] \in Update
        BY <2>1, UpdateInLog
      <4>. QED  BY <3>3, <4>1 DEF EntryOf, Update
    <3>5. log[u].lane = NoLane => status[u] = "shown"
      BY <1>4, <2>1 DEF UpdatesByHook
    <3>6. status[u] \in {"queued", "shown"}
      BY <2>1, <3>3, UpdateInLog
    <3>. QED  BY <3>2, <3>4, <3>5, <3>6
  <2>3. ~(u > k) => status[u] = "shown"
    BY <1>3, <1>4, <2>1 DEF Rests
  <2>. QED  BY <2>2, <2>3
<1>5. StatesShown(log, status, seen)
  BY <1>4 DEF StatesShown
<1>6. StatesShown(log, RenderStatuses, seen)
  <2>1. \A u \in 1..seen : u \in DOMAIN log
    BY <1>2
  <2>. QED  BY <1>4, <2>1, ShownStays DEF StatesShown
<1>7. RenderedState.state = Screen!Applied(<<>>, log, RenderStatuses, "state", seen)
  BY StateProgress DEF Progress
<1>8. Screen!StateOf(log, status) = Screen!Applied(<<>>, log, status, "state", seen)
  BY <1>2, UnseenState
<1>9. /\ Screen!Applied(<<>>, log, status, "state", seen) = AllApplied(log, seen)
      /\ Screen!Applied(<<>>, log, RenderStatuses, "state", seen) = AllApplied(log, seen)
  BY <1>2, <1>5, <1>6, AllAppliedShown
<1>. QED  BY <1>7, <1>8, <1>9 DEF Shows, Values, Value

-----------------------------------------------------------------------------
(* The queues move on, what they show is the same.                         *)
LEMMA LaterShows ==
  ASSUME NEW lg, NEW sn \in Nat, NEW hooks, NEW p, NEW c, NEW st,
         Shows(lg, sn, hooks, p, c, st), NEW later \in Nat, sn <= later
  PROVE  Shows(lg, later, hooks, p, c, st)
<1>1. \A k \in 0..sn : k \in 0..later
  OBVIOUS
<1>2. Based(lg, hooks["state"].baseState, AllEntries(hooks, p, c, "state"), st, sn)
  BY DEF Shows
<1>3. Based(lg, hooks["state"].baseState, AllEntries(hooks, p, c, "state"), st, later)
  BY <1>1, <1>2 DEF Based
<1>. QED  BY <1>3 DEF Shows

LEMMA RequeuedShows ==
  ASSUME NEW lg, NEW sn, NEW hooks, NEW p \in [Hooks -> Seq(Update)], NEW c \in Seq(Update),
         NEW st, Shows(lg, sn, hooks, p, c, st),
         \A h \in Hooks : hooks[h].baseQueue \in Seq(Update)
  PROVE  Shows(lg, sn, hooks, Enqueued(p, c), <<>>, st)
<1>1. PICK p2 : p2 = Enqueued(p, c)
  OBVIOUS
<1>2. ASSUME NEW h \in Hooks
      PROVE  AllEntries(hooks, p2, <<>>, h) = AllEntries(hooks, p, c, h)
  <2>1. ToSet(p2[h]) = ToSet(p[h]) \cup {e \in ToSet(c) : e.hook = h}
    BY <1>1, EnqueuedEntries
  <2>. QED  BY <2>1, EmptyToSet DEF AllEntries
<1>3. \A h \in Hooks : Matches(lg, AllEntries(hooks, p2, <<>>, h), h, st)
  BY <1>2 DEF Shows
<1>4. \A h \in Hooks : InOrder(hooks[h].baseQueue, p2[h], <<>>)
  BY <1>1, EnqueuedInOrder DEF Shows
<1>5. Based(lg, hooks["state"].baseState, AllEntries(hooks, p2, <<>>, "state"), st, sn)
  <2>1. AllEntries(hooks, p2, <<>>, "state") = AllEntries(hooks, p, c, "state")
    BY <1>2 DEF Hooks
  <2>. QED  BY <2>1 DEF Shows
<1>6. Values(lg, hooks, st)
  BY DEF Shows
<1>. QED  BY <1>1, <1>3, <1>4, <1>5, <1>6 DEF Shows

(* A hook's pending updates are appended to its queue.                     *)
MergesHook(hooks, p, hooks2, p2, h) ==
  /\ hooks2[h].memoizedState = hooks[h].memoizedState
  /\ hooks2[h].baseState = hooks[h].baseState
  /\ \/ hooks2[h].baseQueue = hooks[h].baseQueue /\ p2[h] = p[h]
     \/ hooks2[h].baseQueue = hooks[h].baseQueue \o p[h] /\ p2[h] = <<>>

LEMMA MergedShows ==
  ASSUME NEW lg, NEW sn, NEW hooks, NEW p \in [Hooks -> Seq(Update)], NEW c \in Seq(Update),
         NEW st, Shows(lg, sn, hooks, p, c, st),
         \A h \in Hooks : hooks[h].baseQueue \in Seq(Update),
         NEW hooks2, NEW p2, \A h \in Hooks : MergesHook(hooks, p, hooks2, p2, h)
  PROVE  Shows(lg, sn, hooks2, p2, c, st)
<1>1. ASSUME NEW h \in Hooks
      PROVE  /\ AllEntries(hooks2, p2, c, h) = AllEntries(hooks, p, c, h)
             /\ InOrder(hooks2[h].baseQueue, p2[h], c)
  <2>1. InOrder(hooks[h].baseQueue, p[h], c)
    BY DEF Shows
  <2>2. CASE hooks2[h].baseQueue = hooks[h].baseQueue /\ p2[h] = p[h]
    BY <2>1, <2>2 DEF AllEntries
  <2>3. CASE hooks2[h].baseQueue = hooks[h].baseQueue \o p[h] /\ p2[h] = <<>>
    <3>1. p[h] \in Seq(Update) /\ hooks[h].baseQueue \in Seq(Update)
      OBVIOUS
    <3>2. InOrder(hooks[h].baseQueue \o p[h], <<>>, c)
      BY <2>1, <3>1, MergedInOrder
    <3>3. ToSet(hooks[h].baseQueue \o p[h]) = ToSet(hooks[h].baseQueue) \cup ToSet(p[h])
      BY <3>1, ConcatToSet
    <3>4. AllEntries(hooks2, p2, c, h) = AllEntries(hooks, p, c, h)
      BY <2>3, <3>3, EmptyToSet DEF AllEntries
    <3>. QED  BY <2>3, <3>2, <3>4
  <2>. QED  BY <2>2, <2>3 DEF MergesHook
<1>2. \A h \in Hooks : Matches(lg, AllEntries(hooks2, p2, c, h), h, st)
  BY <1>1 DEF Shows
<1>3. Based(lg, hooks2["state"].baseState, AllEntries(hooks2, p2, c, "state"), st, sn)
  <2>1. AllEntries(hooks2, p2, c, "state") = AllEntries(hooks, p, c, "state")
    BY <1>1 DEF Hooks
  <2>2. hooks2["state"].baseState = hooks["state"].baseState
    BY DEF MergesHook, Hooks
  <2>. QED  BY <2>1, <2>2 DEF Shows
<1>4. Values(lg, hooks2, st)
  <2>1. /\ hooks2["state"].memoizedState = hooks["state"].memoizedState
        /\ hooks2["optimistic"].memoizedState = hooks["optimistic"].memoizedState
    BY DEF MergesHook, Hooks
  <2>. QED  BY <2>1 DEF Shows, Values
<1>. QED  BY <1>1, <1>2, <1>3, <1>4 DEF Shows

(* The statuses of the updates to other components do not matter.          *)
LEMMA SameShows ==
  ASSUME NEW lg \in Seq(Update), NEW sn, NEW hooks, NEW p, NEW c, NEW st,
         Shows(lg, sn, hooks, p, c, st),
         NEW tt, \A u \in DOMAIN lg : lg[u].hook \in Hooks => tt[u] = st[u]
  PROVE  Shows(lg, sn, hooks, p, c, tt)
<1>1. DOMAIN lg = 1..Len(lg) /\ Len(lg) \in 0..Len(lg) /\ Len(lg) <= Len(lg)
  BY LenProperties
<1>2. ASSUME NEW h \in Hooks, NEW e \in AllEntries(hooks, p, c, h)
      PROVE  /\ e.id \in DOMAIN lg /\ lg[e.id].hook = h
             /\ tt[e.id] # "dropped" /\ e = EntryOf(lg, e.id, tt)
  <2>1. /\ e.id \in DOMAIN lg /\ lg[e.id].hook = h
        /\ st[e.id] # "dropped" /\ e = EntryOf(lg, e.id, st)
    BY <1>2 DEF Shows, Matches
  <2>. QED  BY <2>1 DEF EntryOf
<1>3. \A h \in Hooks : Matches(lg, AllEntries(hooks, p, c, h), h, tt)
  BY <1>2 DEF Matches
<1>4. Based(lg, hooks["state"].baseState, AllEntries(hooks, p, c, "state"), tt, sn)
  <2>1. PICK k \in 0..sn :
          /\ hooks["state"].baseState = AllApplied(lg, k)
          /\ Rests(lg, k, AllEntries(hooks, p, c, "state"), st)
    BY DEF Shows, Based
  <2>2. Rests(lg, k, AllEntries(hooks, p, c, "state"), tt)
    BY <2>1 DEF Rests, Hooks
  <2>. QED  BY <2>1, <2>2 DEF Based
<1>5. ASSUME NEW h \in Hooks, NEW base \in State
      PROVE  Screen!Applied(base, lg, st, h, Len(lg)) = Screen!Applied(base, lg, tt, h, Len(lg))
  <2>1. SameShown(lg, lg, st, tt, h, Len(lg))
    BY <1>1 DEF SameShown
  <2>. QED  BY <1>1, <2>1, AppliedSame
<1>6. Screen!StateOf(lg, st) = Screen!StateOf(lg, tt) /\ Screen!StateOf(lg, st) \in State
  BY <1>1, <1>5, AppliedType, EmptyState DEF Hooks, Screen!StateOf
<1>7. Screen!OptimisticOf(lg, st) = Screen!OptimisticOf(lg, tt)
  BY <1>5, <1>6 DEF Hooks, Screen!OptimisticOf
<1>. QED  BY <1>3, <1>4, <1>6, <1>7 DEF Shows, Values

LEMMA EagerStays ==
  ASSUME NEW lg \in Seq(Update), NEW st, Eager(lg, st),
         NEW tt, \A u \in DOMAIN lg : lg[u].hook = "state" /\ st[u] = "shown" => tt[u] = "shown"
  PROVE  Eager(lg, tt)
<1>1. DOMAIN lg = 1..Len(lg) /\ Len(lg) \in Nat
  BY LenProperties
<1>2. ASSUME NEW u \in DOMAIN lg, StatesShown(lg, st, u - 1)
      PROVE  StatesShown(lg, tt, u - 1)
  <2>1. \A v \in 1..(u - 1) : v \in DOMAIN lg
    BY <1>1
  <2>. QED  BY <1>2, <2>1 DEF StatesShown
<1>. QED  BY <1>2 DEF Eager

-----------------------------------------------------------------------------
LEMMA ScreenInit == Init => ScreenInv
<1>. SUFFICES ASSUME Init PROVE ScreenInv
  OBVIOUS
<1>1. /\ log = <<>> /\ status = <<>> /\ seen = 0 /\ pc = "idle" /\ concurrentQueues = <<>>
      /\ pending = [h \in Hooks |-> <<>>] /\ lastRenderedState = <<>>
      /\ current = InitialFiber
  BY DEF Init
<1>2. /\ log \in Seq(Update) /\ Len(log) = 0 /\ DOMAIN log = {}
      /\ ToSet(concurrentQueues) = {}
  BY <1>1, EmptySeq, EmptyToSet
<1>3. \A h \in Hooks : /\ current.hooks[h] = InitialHook /\ pending[h] = <<>>
                       /\ current.hooks[h].memoizedState = <<>>
                       /\ current.hooks[h].baseState = <<>>
                       /\ current.hooks[h].baseQueue = <<>>
  BY <1>1 DEF InitialFiber, InitialHook
<1>4. \A h \in Hooks : AllEntries(current.hooks, pending, concurrentQueues, h) = {}
  BY <1>2, <1>3, EmptyToSet DEF AllEntries
<1>5. Shows(log, seen, current.hooks, pending, concurrentQueues, status)
  <2>1. \A h \in Hooks :
          Matches(log, AllEntries(current.hooks, pending, concurrentQueues, h), h, status)
    BY <1>4 DEF Matches
  <2>2. \A h \in Hooks : InOrder(current.hooks[h].baseQueue, pending[h], concurrentQueues)
    BY <1>1, <1>3, EmptyToSet, EmptyInOrder DEF InOrder
  <2>3. Based(log, current.hooks["state"].baseState,
              AllEntries(current.hooks, pending, concurrentQueues, "state"), status, seen)
    <3>1. current.hooks["state"].baseState = AllApplied(log, 0)
      BY <1>2, <1>3, AllAppliedType DEF Hooks
    <3>2. 0 \in 0..seen
      BY <1>1
    <3>3. Rests(log, 0, AllEntries(current.hooks, pending, concurrentQueues, "state"), status)
      BY <1>2, <1>4 DEF Rests, Hooks
    <3>. QED  BY <3>1, <3>2, <3>3 DEF Based
  <2>4. Values(log, current.hooks, status)
    <3>1. Screen!StateOf(log, status) = <<>>
      BY <1>2, EmptyState, AppliedType DEF Screen!StateOf
    <3>2. Screen!OptimisticOf(log, status) = <<>>
      BY <1>2, <3>1, EmptyState, AppliedType DEF Screen!OptimisticOf
    <3>. QED  BY <1>3, <3>1, <3>2 DEF Values, Hooks
  <2>. QED  BY <2>1, <2>2, <2>3, <2>4 DEF Shows
<1>6. Eager(log, status) /\ Unseen(log, status, seen)
  BY <1>2 DEF Eager, Unseen
<1>7. LastInv
  <2>1. Value("state") = lastRenderedState
    BY <1>1, <1>3 DEF Value, Hooks
  <2>. QED  BY <1>1, <2>1 DEF LastInv
<1>. QED  BY <1>1, <1>2, <1>5, <1>6, <1>7 DEF ScreenInv

(* When every update to the state has been shown, the queue has no lanes   *)
(* to wait for, and lastRenderedState is the state of all the updates.     *)
LEMMA LastIsAll ==
  ASSUME TypeInv, ScreenInv, StatesShown(log, status, Len(log))
  PROVE  lastRenderedState = AllApplied(log, Len(log))
<1>1. Shows(log, seen, current.hooks, pending, concurrentQueues, status) /\ LastInv
  BY DEF ScreenInv
<1>2. log \in Seq(Update) /\ Len(log) \in Nat /\ DOMAIN log = 1..Len(log)
  BY TypeInvParts, LenProperties DEF LogOK
<1>3. ASSUME NEW e \in ToSet(Merged("state")) PROVE e.lane = NoLane
  <2>1. e \in AllEntries(current.hooks, pending, concurrentQueues, "state")
    BY QueuesType DEF Hooks
  <2>2. e.id \in DOMAIN log /\ log[e.id].hook = "state" /\ e = EntryOf(log, e.id, status)
    BY <1>1, <2>1 DEF Shows, Matches, Hooks
  <2>3. status[e.id] = "shown"
    BY <1>2, <2>2 DEF StatesShown
  <2>4. PICK n : n = e.id
    OBVIOUS
  <2>5. log[n] \in Update /\ e = [log[n] EXCEPT !.lane = NoLane]
    BY <1>2, <2>2, <2>3, <2>4, ElementOfSeq DEF EntryOf
  <2>. QED  BY <2>5 DEF Update
<1>4. lastRenderedState = Value("state")
  BY <1>1, <1>3 DEF LastInv
<1>5. Value("state") = Screen!Applied(<<>>, log, status, "state", Len(log))
  BY <1>1 DEF Value, Shows, Values, Screen!StateOf
<1>6. Len(log) \in 0..Len(log)
  BY <1>2
<1>. QED  BY <1>2, <1>4, <1>5, <1>6, AllAppliedShown

-----------------------------------------------------------------------------
(* An event logs an update.  One without a lane is taken for shown at once:*)
(* its eager state is the state that was there.                            *)
LogsEagerly(u, st) ==
  /\ Logs(u, st) /\ st = IF u.lane = NoLane THEN "shown" ELSE "queued"
  /\ u.eagerState # {} =>
       /\ u.hook = "state" /\ u.eagerState = {Reduce(lastRenderedState, u)}
       /\ StatesShown(log, status, Len(log))
  /\ u.lane = NoLane => u.eagerState = {lastRenderedState}

LEMMA LoggedLast ==
  ASSUME TypeInv, NEW u \in Update, NEW st \in {"queued", "shown"}, Logs(u, st),
         NEW w \in Update, NEW s \in {"queued", "shown"},
         log' = Append(log, w), status' = Append(status, s)
  PROVE  w = u /\ s = st /\ log' # log /\ Last(log') = u
<1>1. /\ log \in Seq(Update) /\ Len(log) \in Nat /\ Len(status) = Len(log)
      /\ status \in Seq({"queued", "shown", "dropped"})
  BY TypeInvParts, LenProperties DEF LogOK
<1>2. log' = Append(log, u) /\ status' = Append(status, st)
  BY DEF Logs
<1>3. /\ Len(log') = Len(log) + 1 /\ log'[Len(log) + 1] = u /\ log'[Len(log) + 1] = w
  <2>1. Len(log') = Len(log) + 1 /\ log'[Len(log) + 1] = u
    BY <1>1, <1>2, AppendProperties
  <2>2. log'[Len(log) + 1] = w
    BY <1>1, AppendProperties
  <2>. QED  BY <2>1, <2>2
<1>4. status'[Len(log) + 1] = st /\ status'[Len(log) + 1] = s
  <2>. DEFINE Statuses == {"queued", "shown", "dropped"}
  <2>1. status \in Seq(Statuses) /\ st \in Statuses /\ s \in Statuses
    BY <1>1
  <2>. HIDE DEF Statuses
  <2>2. status'[Len(log) + 1] = st
    BY <1>1, <1>2, <2>1, AppendProperties
  <2>3. status'[Len(log) + 1] = s
    BY <1>1, <2>1, AppendProperties
  <2>. QED  BY <2>2, <2>3
<1>5. log' # log /\ Last(log') = u
  <2>1. Last(log') = log'[Len(log')]
    BY DEF Last
  <2>. QED  BY <1>1, <1>3, <2>1
<1>. QED  BY <1>3, <1>4, <1>5

LEMMA DispatchSetStateLogs ==
  ASSUME TypeInv, LanesInv, NEW kind \in Kinds, NEW eventLane \in EventLanes,
         DispatchSetState(kind, eventLane), EagerWhenEmpty
  PROVE  \E u \in Update, st \in {"queued", "shown"} : LogsEagerly(u, st)
<1>. DEFINE lane == UpdateLane(eventLane)
            plain == [id |-> Len(log) + 1, hook |-> "state", kind |-> kind,
                      lane |-> lane, revertLane |-> NoLane, eagerState |-> {}]
            eager == Reduce(lastRenderedState, plain)
            update == [plain EXCEPT !.eagerState = IF NoLanesOnFibers THEN {eager} ELSE {}]
            quiet == [update EXCEPT !.lane = NoLane]
<1>1. PICK u \in Update, st \in {"queued", "shown"} : Logs(u, st)
  BY DispatchSetStateIsEvent
<1>2. lane \in UsedLanes /\ lane # NoLane
  BY UpdateLaneType, LanesInUse
<1>3. kind \in {"add", "keep", "reset"} /\ Len(log) + 1 \in 1..MaxUpdates
  BY TypeInvParts, KindsAssumption, BoundsAssumption, LenProperties DEF LogOK, DispatchSetState
<1>. HIDE DEF lane
<1>4. plain \in Update
  BY <1>2, <1>3 DEF Update, Hooks
<1>5. eager \in State
  BY <1>4, TypeInvParts, ReduceType DEF QueuesOK
<1>6. /\ update \in Update /\ quiet \in Update
      /\ update.hook = "state" /\ quiet.hook = "state" /\ update.lane = lane
      /\ quiet.lane = NoLane /\ quiet.eagerState = update.eagerState
      /\ update.eagerState # {} => update.eagerState = {eager}
  BY <1>4, <1>5 DEF Update
<1>7. eager = Reduce(lastRenderedState, update) /\ eager = Reduce(lastRenderedState, quiet)
  BY DEF Reduce
<1>8. CASE update.eagerState = {lastRenderedState}
  <2>1. log' = Append(log, quiet) /\ status' = Append(status, "shown")
    BY <1>8 DEF DispatchSetState, update, eager, plain, lane
  <2>. HIDE DEF quiet, update, eager
  <2>2. quiet = u /\ "shown" = st /\ log' # log /\ Last(log') = u
    BY <1>1, <1>6, <2>1, LoggedLast
  <2>3. u.eagerState # {} => StatesShown(log, status, Len(log))
    BY <2>2 DEF EagerWhenEmpty
  <2>. QED  BY <1>1, <1>6, <1>7, <1>8, <2>2, <2>3 DEF LogsEagerly
<1>9. CASE update.eagerState # {lastRenderedState}
  <2>1. log' = Append(log, update) /\ status' = Append(status, "queued")
    BY <1>9 DEF DispatchSetState, update, eager, plain, lane
  <2>. HIDE DEF quiet, update, eager
  <2>2. update = u /\ "queued" = st /\ log' # log /\ Last(log') = u
    BY <1>1, <1>6, <2>1, LoggedLast
  <2>3. u.eagerState # {} => StatesShown(log, status, Len(log))
    BY <2>2 DEF EagerWhenEmpty
  <2>. QED  BY <1>1, <1>2, <1>6, <1>7, <2>2, <2>3 DEF LogsEagerly
<1>. QED  BY <1>8, <1>9

LEMMA EventLogs ==
  ASSUME TypeInv, LanesInv, EagerWhenEmpty,
         \/ \E kind \in Kinds, lane \in EventLanes : DispatchSetState(kind, lane)
         \/ DispatchOptimisticSetState
         \/ \E lane \in EventLanes : UpdateOther(lane)
         \/ StartTransition \/ FinishTransition \/ FinishAction \/ SettleAction
         \/ ProcessRootSchedule
  PROVE  /\ EventStep /\ lastRenderedState' = lastRenderedState
         /\ LogsNothing \/ \E u \in Update, st \in {"queued", "shown"} : LogsEagerly(u, st)
<1>1. CASE \E kind \in Kinds, lane \in EventLanes : DispatchSetState(kind, lane)
  <2>1. PICK kind \in Kinds, lane \in EventLanes : DispatchSetState(kind, lane)
    BY <1>1
  <2>2. Event
    BY <2>1, DispatchSetStateIsEvent
  <2>3. \E u \in Update, st \in {"queued", "shown"} : LogsEagerly(u, st)
    BY <2>1, DispatchSetStateLogs
  <2>4. lastRenderedState' = lastRenderedState
    BY <2>1 DEF DispatchSetState
  <2>. QED  BY <2>2, <2>3, <2>4 DEF Event
<1>2. CASE DispatchOptimisticSetState
  <2>1. PICK w : w = [id |-> Len(log) + 1, hook |-> "optimistic", kind |-> "add",
                      lane |-> SyncLane, revertLane |-> RequestedLane, eagerState |-> {}]
    OBVIOUS
  <2>2. w \in Update /\ w.eagerState = {} /\ w.lane # NoLane
    <3>1. Len(log) + 1 \in 1..MaxUpdates
      BY <1>2, TypeInvParts, BoundsAssumption, LenProperties
         DEF LogOK, DispatchOptimisticSetState
    <3>2. RequestedLane \in UsedTransitionLanes
      BY RequestedLaneType DEF TypeInv
    <3>. QED  BY <2>1, <3>1, <3>2, LanesInUse DEF Update, Hooks
  <2>3. log' = Append(log, w) /\ status' = Append(status, "queued")
    BY <1>2, <2>1 DEF DispatchOptimisticSetState
  <2>4. Event
    BY <1>2, DispatchOptimisticIsEvent
  <2>5. PICK u \in Update, st \in {"queued", "shown"} : Logs(u, st)
    BY <1>2, DispatchOptimisticIsEvent
  <2>6. w = u /\ st = "queued"
    BY <2>2, <2>3, <2>5, LoggedLast
  <2>7. LogsEagerly(u, st)
    BY <2>2, <2>5, <2>6 DEF LogsEagerly
  <2>8. lastRenderedState' = lastRenderedState
    BY <1>2 DEF DispatchOptimisticSetState
  <2>. QED  BY <2>4, <2>7, <2>8 DEF Event
<1>3. CASE \E lane \in EventLanes : UpdateOther(lane)
  <2>1. PICK eventLane \in EventLanes : UpdateOther(eventLane)
    BY <1>3
  <2>2. PICK w : w = [id |-> Len(log) + 1, hook |-> "other", kind |-> "keep",
                      lane |-> UpdateLane(eventLane), revertLane |-> NoLane,
                      eagerState |-> {}]
    OBVIOUS
  <2>3. w \in Update /\ w.eagerState = {} /\ w.lane # NoLane /\ w.hook = "other"
    <3>1. Len(log) + 1 \in 1..MaxUpdates
      BY <2>1, TypeInvParts, BoundsAssumption, LenProperties DEF LogOK, UpdateOther
    <3>2. UpdateLane(eventLane) \in UsedLanes
      BY UpdateLaneType
    <3>. QED  BY <2>2, <3>1, <3>2, LanesInUse DEF Update, Hooks
  <2>4. log' = Append(log, w) /\ status' = Append(status, "queued")
    BY <2>1, <2>2 DEF UpdateOther
  <2>5. Event
    BY <2>1, UpdateOtherIsEvent
  <2>6. ~LogsNothing
    BY <2>4, TypeInvParts, AppendProperties, LenProperties, <2>3 DEF LogsNothing, LogOK
  <2>7. PICK u \in Update, st \in {"queued", "shown"} : Logs(u, st)
    BY <2>5, <2>6 DEF Event
  <2>8. w = u /\ st = "queued"
    BY <2>3, <2>4, <2>7, LoggedLast
  <2>9. LogsEagerly(u, st)
    BY <2>3, <2>7, <2>8 DEF LogsEagerly
  <2>10. lastRenderedState' = lastRenderedState
    BY <2>1 DEF UpdateOther, queueVars
  <2>. QED  BY <2>5, <2>9, <2>10 DEF Event
<1>4. CASE \/ StartTransition \/ FinishTransition \/ FinishAction \/ SettleAction
           \/ ProcessRootSchedule
  <2>1. EventStep /\ LogsNothing
    BY <1>4, TransitionStepsAreEvents
  <2>2. lastRenderedState' = lastRenderedState
    BY <1>4 DEF StartTransition, FinishTransition, FinishAction, SettleAction,
       ProcessRootSchedule, queueVars
  <2>. QED  BY <2>1, <2>2
<1>. QED  BY <1>1, <1>2, <1>3, <1>4

LEMMA GrowsEager ==
  ASSUME NEW lg \in Seq(Update), NEW lg2 \in Seq(Update), NEW st, NEW st2,
         NEW u \in Update, Grows(lg, st, lg2, st2, u), Eager(lg, st),
         u.eagerState # {} =>
           /\ u.hook = "state" /\ StatesShown(lg, st, Len(lg))
           /\ u.eagerState = {Reduce(AllApplied(lg, Len(lg)), u)},
         u.lane = NoLane => u.eagerState # {}
  PROVE  Eager(lg2, st2)
<1>1. /\ Len(lg) \in Nat /\ DOMAIN lg = 1..Len(lg) /\ DOMAIN lg2 = 1..(Len(lg) + 1)
      /\ Len(lg2) = Len(lg) + 1 /\ u.id = Len(lg) + 1 /\ lg2[u.id] = u
      /\ u.id \in DOMAIN lg2 /\ Extends(lg2, lg)
      /\ \A i \in 1..Len(lg) : i \in DOMAIN lg2 /\ lg2[i] = lg[i] /\ st2[i] = st[i]
      /\ \A i \in DOMAIN lg2 : i = u.id \/ i \in 1..Len(lg)
  BY GrownLog
<1>2. \A n \in 0..Len(lg) : AllApplied(lg2, n) = AllApplied(lg, n)
  BY <1>1, AllAppliedExtends
<1>3. \A n \in 0..Len(lg) : StatesShown(lg, st, n) => StatesShown(lg2, st2, n)
  <2>1. ASSUME NEW n \in 0..Len(lg), StatesShown(lg, st, n), NEW i \in 1..n,
               lg2[i].hook = "state"
        PROVE  st2[i] = "shown"
    <3>1. i \in 1..Len(lg)
      BY <1>1
    <3>. QED  BY <1>1, <2>1, <3>1 DEF StatesShown
  <2>. QED  BY <2>1 DEF StatesShown
<1>4. ASSUME NEW i \in 1..Len(lg)
      PROVE  /\ lg2[i].eagerState # {} =>
                  /\ lg2[i].hook = "state" /\ lg2[i].eagerState = {AllApplied(lg2, i)}
                  /\ StatesShown(lg2, st2, i - 1)
             /\ lg2[i].lane = NoLane =>
                  lg2[i].eagerState # {} /\ AllApplied(lg2, i) = AllApplied(lg2, i - 1)
  <2>1. i \in 0..Len(lg) /\ i - 1 \in 0..Len(lg) /\ i \in DOMAIN lg
    BY <1>1
  <2>2. AllApplied(lg2, i) = AllApplied(lg, i) /\ AllApplied(lg2, i - 1) = AllApplied(lg, i - 1)
    BY <1>2, <2>1
  <2>3. lg2[i] = lg[i] /\ (StatesShown(lg, st, i - 1) => StatesShown(lg2, st2, i - 1))
    BY <1>1, <1>3, <2>1
  <2>. QED  BY <2>1, <2>2, <2>3 DEF Eager
<1>5. /\ u.eagerState # {} =>
           /\ u.hook = "state" /\ u.eagerState = {AllApplied(lg2, u.id)}
           /\ StatesShown(lg2, st2, u.id - 1)
      /\ u.lane = NoLane =>
           u.eagerState # {} /\ AllApplied(lg2, u.id) = AllApplied(lg2, u.id - 1)
  <2>1. u.id - 1 = Len(lg) /\ Len(lg) \in 0..Len(lg) /\ u.id \in 1..Len(lg2)
    BY <1>1
  <2>2. AllApplied(lg2, Len(lg)) = AllApplied(lg, Len(lg))
    BY <1>2, <2>1
  <2>3. u.hook = "state" => AllApplied(lg2, u.id) = Reduce(AllApplied(lg, Len(lg)), u)
    BY <1>1, <2>1, <2>2, AllAppliedStep
  <2>4. u.lane = NoLane => AllApplied(lg2, u.id) = AllApplied(lg, Len(lg))
    BY DEF Grows
  <2>. QED  BY <1>3, <2>1, <2>2, <2>3, <2>4
<1>6. ASSUME NEW i \in DOMAIN lg2
      PROVE  /\ lg2[i].eagerState # {} =>
                  /\ lg2[i].hook = "state" /\ lg2[i].eagerState = {AllApplied(lg2, i)}
                  /\ StatesShown(lg2, st2, i - 1)
             /\ lg2[i].lane = NoLane =>
                  lg2[i].eagerState # {} /\ AllApplied(lg2, i) = AllApplied(lg2, i - 1)
  BY <1>1, <1>4, <1>5
<1>. QED  BY <1>6 DEF Eager

LEMMA LogsGrows ==
  ASSUME TypeInv, TypeInv', UpdatesByHook, ScreenInv, NEW u \in Update,
         NEW st \in {"queued", "shown"}, LogsEagerly(u, st)
  PROVE  /\ Grows(log, status, log', status', u) /\ Eager(log', status')
         /\ log \in Seq(Update) /\ log' \in Seq(Update) /\ seen \in 0..Len(log)
<1>1. /\ log \in Seq(Update) /\ log' \in Seq(Update) /\ Len(log) \in Nat
      /\ status \in Seq({"queued", "shown", "dropped"}) /\ Len(status) = Len(log)
      /\ seen \in 0..Len(log)
  BY TypeInvParts, LenProperties DEF LogOK, TypeInv, TypeOK
<1>2. /\ log' = Append(log, u) /\ status' = Append(status, st) /\ u.id = Len(log) + 1
      /\ st = IF u.lane = NoLane THEN "shown" ELSE "queued"
  BY DEF LogsEagerly, Logs
<1>3. /\ Extends(log', log) /\ Len(log') = Len(log) + 1 /\ log'[Len(log) + 1] = u
  <2>1. PICK lg2 : lg2 = log'
    OBVIOUS
  <2>2. lg2 = Append(log, u)
    BY <1>2, <2>1
  <2>3. Extends(lg2, log) /\ Len(lg2) = Len(log) + 1 /\ lg2[Len(log) + 1] = u
    BY <1>1, <2>2, AppendLog
  <2>. QED  BY <2>1, <2>3
<1>4. status'[Len(log) + 1] = st /\ \A i \in 1..Len(log) : status'[i] = status[i]
  <2>. DEFINE Statuses == {"queued", "shown", "dropped"}
  <2>1. status \in Seq(Statuses) /\ st \in Statuses
    BY <1>1
  <2>. HIDE DEF Statuses
  <2>. QED  BY <1>1, <1>2, <2>1, AppendProperties
<1>5. u.eagerState # {} =>
        /\ u.hook = "state" /\ StatesShown(log, status, Len(log))
        /\ lastRenderedState = AllApplied(log, Len(log))
        /\ u.eagerState = {Reduce(AllApplied(log, Len(log)), u)}
  BY LastIsAll DEF LogsEagerly
<1>6. u.lane = NoLane =>
        /\ u.eagerState # {}
        /\ Reduce(AllApplied(log, Len(log)), u) = AllApplied(log, Len(log))
  BY <1>5 DEF LogsEagerly
<1>7. u.lane = NoLane => AllApplied(log', u.id) = AllApplied(log, Len(log))
  <2>1. u.id \in 1..Len(log') /\ Len(log) = u.id - 1 /\ Len(log) \in 0..Len(log)
    BY <1>1, <1>2, <1>3
  <2>2. AllApplied(log', Len(log)) = AllApplied(log, Len(log))
    BY <1>1, <1>3, <2>1, AllAppliedExtends
  <2>3. u.hook = "state" =>
          AllApplied(log', u.id) = Reduce(AllApplied(log', Len(log)), u)
    <3>1. log'[u.id] = u
      BY <1>2, <1>3
    <3>2. PICK lg2 \in Seq(Update) : lg2 = log'
      BY <1>1
    <3>3. u.hook = "state" => AllApplied(lg2, u.id) = Reduce(AllApplied(lg2, Len(log)), u)
      BY <2>1, <3>1, <3>2, AllAppliedStep
    <3>. QED  BY <3>2, <3>3
  <2>. QED  BY <1>5, <1>6, <2>2, <2>3
<1>8. Grows(log, status, log', status', u)
  BY <1>2, <1>3, <1>4, <1>5, <1>6, <1>7 DEF Grows
<1>9. Eager(log, status)
  BY DEF ScreenInv
<1>10. Eager(log', status')
  BY <1>1, <1>5, <1>6, <1>8, <1>9, GrowsEager
<1>. QED  BY <1>1, <1>8, <1>10

LEMMA LogsQueues ==
  ASSUME TypeInv, EventStep, NEW u \in Update, NEW st \in {"queued", "shown"}, Logs(u, st),
         NEW hooks, \A h \in Hooks : hooks[h].baseQueue \in Seq(Update),
         \A h \in Hooks : InOrder(hooks[h].baseQueue, pending[h], concurrentQueues),
         \A h \in Hooks :
           \A e \in ToSet(hooks[h].baseQueue) \cup ToSet(pending[h]) \cup ToSet(concurrentQueues) :
             e.id <= Len(log)
  PROVE  \A h \in Hooks :
           /\ AllEntries(hooks, pending', concurrentQueues', h)
                = AllEntries(hooks, pending, concurrentQueues, h)
                    \cup (IF u.hook = h THEN {u} ELSE {})
           /\ InOrder(hooks[h].baseQueue, pending'[h], concurrentQueues')
<1>. SUFFICES ASSUME NEW h \in Hooks
              PROVE  /\ AllEntries(hooks, pending', concurrentQueues', h)
                          = AllEntries(hooks, pending, concurrentQueues, h)
                              \cup (IF u.hook = h THEN {u} ELSE {})
                     /\ InOrder(hooks[h].baseQueue, pending'[h], concurrentQueues')
  OBVIOUS
<1>. DEFINE base == hooks[h].baseQueue
<1>1. /\ concurrentQueues \in Seq(Update) /\ pending \in [Hooks -> Seq(Update)]
      /\ base \in Seq(Update) /\ pending[h] \in Seq(Update)
  BY TypeInvParts DEF QueuesOK
<1>2. QueueEntries(h)' = QueueEntries(h) \cup (IF u.hook = h THEN {u} ELSE {})
  BY LoggedEntries
<1>3. /\ AllEntries(hooks, pending, concurrentQueues, h) = ToSet(base) \cup QueueEntries(h)
      /\ AllEntries(hooks, pending', concurrentQueues', h) = ToSet(base) \cup QueueEntries(h)'
  BY DEF AllEntries, QueueEntries
<1>4. InOrder(base, pending[h], concurrentQueues)
  OBVIOUS
<1>. HIDE DEF base
<1>5. \A e \in ToSet(base) \cup ToSet(pending[h]) \cup ToSet(concurrentQueues) : e.id < u.id
  <2>1. ASSUME NEW e \in ToSet(base) \cup ToSet(pending[h]) \cup ToSet(concurrentQueues)
        PROVE  e.id < u.id
    <3>1. e.id <= Len(log)
      BY DEF base
    <3>2. e.id \in Nat
      BY <1>1, EntryAt
    <3>3. Len(log) \in Nat /\ u.id = Len(log) + 1
      BY TypeInvParts, LenProperties DEF LogOK, Logs
    <3>. QED  BY <3>1, <3>2, <3>3
  <2>. QED  BY <2>1
<1>6. PICK c : c = Append(concurrentQueues, u)
  OBVIOUS
<1>7. InOrder(base, pending[h], c) /\ c \in Seq(Update)
  <2>1. InOrder(base, pending[h], Append(concurrentQueues, u))
    BY <1>1, <1>4, <1>5, AppendInOrder
  <2>. QED  BY <1>1, <1>6, <2>1, AppendProperties
<1>8. InOrder(base, Enqueued(pending, c)[h], <<>>)
  BY <1>1, <1>7, EnqueuedInOrder
<1>9. \/ UNCHANGED <<concurrentQueues, pending>>
      \/ concurrentQueues' = c /\ pending' = pending
      \/ concurrentQueues' = <<>> /\ pending' = Enqueued(pending, c)
  BY <1>6 DEF Logs
<1>10. InOrder(base, pending'[h], concurrentQueues')
  BY <1>4, <1>7, <1>8, <1>9
<1>. QED  BY <1>2, <1>3, <1>10 DEF base

(* The render that is on makes nothing of the new update.                  *)
LEMMA LogsGrowsRender ==
  ASSUME TypeInv, TypeInv', WaitInv, ScreenInv, EventStep, NEW u \in Update,
         NEW st \in {"queued", "shown"}, LogsEagerly(u, st)
  PROVE  Grows(log, RenderStatuses, log', RenderStatuses', u)
<1>1. /\ Grows(log, status, log', status', u) /\ log \in Seq(Update) /\ log' \in Seq(Update)
      /\ seen \in 0..Len(log)
  BY LogsGrows DEF WaitInv
<1>2. /\ Len(log) \in Nat /\ DOMAIN log = 1..Len(log) /\ DOMAIN log' = 1..(Len(log) + 1)
      /\ u.id = Len(log) + 1 /\ u.id \in DOMAIN log' /\ log'[u.id] = u
      /\ \A i \in 1..Len(log) : i \in DOMAIN log' /\ log'[i] = log[i] /\ status'[i] = status[i]
      /\ status'[u.id] = IF u.lane = NoLane THEN "shown" ELSE "queued"
  BY <1>1, GrownLog
<1>3. seen' = seen /\ renderLanes' = renderLanes
  BY DEF EventStep
<1>4. ASSUME NEW i \in 1..Len(log) PROVE RenderStatuses'[i] = RenderStatuses[i]
  <2>1. RenderStatuses'[i] = RenderedStatus(i)' /\ RenderStatuses[i] = RenderedStatus(i)
    BY <1>2 DEF RenderStatuses
  <2>2. RenderedStatus(i)' = RenderedStatus(i)
    BY <1>2, <1>3 DEF RenderedStatus
  <2>. QED  BY <2>1, <2>2
<1>5. RenderStatuses'[u.id] = IF u.lane = NoLane THEN "shown" ELSE "queued"
  <2>1. u.id > seen'
    BY <1>1, <1>2, <1>3
  <2>2. RenderStatuses'[u.id] = RenderedStatus(u.id)'
    BY <1>2 DEF RenderStatuses
  <2>3. RenderedStatus(u.id)' = status'[u.id]
    BY <2>1 DEF RenderedStatus
  <2>. QED  BY <1>2, <2>2, <2>3
<1>6. StatesShown(log, status, Len(log)) => StatesShown(log, RenderStatuses, Len(log))
  <2>1. UpdatesByHook /\ NoLane \notin renderLanes
    BY TypeInvParts, LanesInUse DEF LanesOK, WaitInv
  <2>. QED  BY <1>2, <2>1, ShownStays DEF StatesShown
<1>. QED  BY <1>1, <1>4, <1>5, <1>6 DEF Grows

LEMMA LogsKeepsScreen ==
  ASSUME TypeInv, TypeInv', WaitInv, ScreenInv, EventStep,
         lastRenderedState' = lastRenderedState, NEW u \in Update,
         NEW st \in {"queued", "shown"}, LogsEagerly(u, st)
  PROVE  ScreenInv'
<1>1. /\ Grows(log, status, log', status', u) /\ Eager(log', status')
      /\ log \in Seq(Update) /\ log' \in Seq(Update) /\ seen \in 0..Len(log)
  BY LogsGrows DEF WaitInv
<1>2. /\ Len(log) \in Nat /\ DOMAIN log = 1..Len(log) /\ DOMAIN log' = 1..(Len(log) + 1)
      /\ Len(log') = Len(log) + 1 /\ u.id = Len(log) + 1 /\ log'[u.id] = u
      /\ \A i \in 1..Len(log) : log'[i] = log[i] /\ status'[i] = status[i]
      /\ \A i \in DOMAIN log' : i = u.id \/ i \in 1..Len(log)
      /\ status'[u.id] = IF u.lane = NoLane THEN "shown" ELSE "queued"
  BY <1>1, GrownLog
<1>3. /\ seen' = seen /\ pc' = pc /\ current'.hooks = current.hooks /\ wip'.hooks = wip.hooks
  BY DEF EventStep
<1>4. Logs(u, st)
  BY DEF LogsEagerly
<1>5. /\ concurrentQueues \in Seq(Update) /\ pending \in [Hooks -> Seq(Update)]
      /\ \A h \in Hooks : /\ current.hooks[h].baseQueue \in Seq(Update)
                          /\ wip.hooks[h].baseQueue \in Seq(Update)
  BY TypeInvParts DEF QueuesOK, Fiber, Hook
<1>6. \A h \in Hooks :
        \A e \in ToSet(current.hooks[h].baseQueue) \cup ToSet(pending[h])
                   \cup ToSet(concurrentQueues) : e.id <= Len(log)
  BY DEF ScreenInv, WaitInv, OrderInv, CurrentEntries, QueueEntries
<1>7. Shows(log', seen', current'.hooks, pending', concurrentQueues', status')
  <2>1. Shows(log, seen, current.hooks, pending, concurrentQueues, status)
    BY DEF ScreenInv
  <2>2. \A h \in Hooks : InOrder(current.hooks[h].baseQueue, pending[h], concurrentQueues)
    BY <2>1 DEF Shows
  <2>3. \A h \in Hooks :
          /\ AllEntries(current.hooks, pending', concurrentQueues', h)
               = AllEntries(current.hooks, pending, concurrentQueues, h)
                   \cup (IF u.hook = h THEN {u} ELSE {})
          /\ InOrder(current.hooks[h].baseQueue, pending'[h], concurrentQueues')
    BY <1>4, <1>5, <1>6, <2>2, LogsQueues
  <2>4. Shows(log', seen, current.hooks, pending', concurrentQueues', status')
    BY <1>1, <2>1, <2>3, EventShows
  <2>. QED  BY <1>3, <2>4
<1>8. pc' = "begun" =>
        Shows(log', seen', wip'.hooks, pending', concurrentQueues', RenderStatuses')
  <2>. SUFFICES ASSUME pc = "begun"
                PROVE  Shows(log', seen, wip.hooks, pending', concurrentQueues', RenderStatuses')
    BY <1>3
  <2>1. Shows(log, seen, wip.hooks, pending, concurrentQueues, RenderStatuses)
    BY DEF ScreenInv
  <2>2. \A h \in Hooks : InOrder(wip.hooks[h].baseQueue, pending[h], concurrentQueues)
    BY <2>1 DEF Shows
  <2>3. \A h \in Hooks :
          \A e \in ToSet(wip.hooks[h].baseQueue) \cup ToSet(pending[h])
                     \cup ToSet(concurrentQueues) : e.id <= Len(log)
    <3>1. ASSUME NEW h \in Hooks, NEW e \in ToSet(wip.hooks[h].baseQueue)
          PROVE  e.id <= Len(log)
      <4>1. e.id <= seen
        BY <3>1 DEF WaitInv, OrderInv
      <4>2. e.id \in Nat
        BY <1>5, <3>1, EntryAt
      <4>. QED  BY <1>1, <1>2, <4>1, <4>2
    <3>. QED  BY <1>6, <3>1
  <2>4. \A h \in Hooks :
          /\ AllEntries(wip.hooks, pending', concurrentQueues', h)
               = AllEntries(wip.hooks, pending, concurrentQueues, h)
                   \cup (IF u.hook = h THEN {u} ELSE {})
          /\ InOrder(wip.hooks[h].baseQueue, pending'[h], concurrentQueues')
    BY <1>4, <1>5, <2>2, <2>3, LogsQueues
  <2>5. Grows(log, RenderStatuses, log', RenderStatuses', u)
    BY LogsGrowsRender
  <2>. QED  BY <1>1, <2>1, <2>4, <2>5, EventShows
<1>9. Unseen(log', status', seen')
  <2>1. ASSUME NEW i \in DOMAIN log', i > seen'
        PROVE  status'[i] = IF log'[i].lane = NoLane THEN "shown" ELSE "queued"
    <3>1. CASE i = u.id
      BY <1>2, <3>1
    <3>2. CASE i \in 1..Len(log)
      BY <1>2, <1>3, <2>1, <3>2 DEF ScreenInv, Unseen
    <3>. QED  BY <1>2, <3>1, <3>2
  <2>. QED  BY <2>1 DEF Unseen
<1>10. ToSet(Merged("state")) \subseteq ToSet(Merged("state"))'
  <2>1. /\ ToSet(Merged("state"))
             = ToSet(current.hooks["state"].baseQueue) \cup ToSet(pending["state"])
        /\ ToSet(Merged("state"))'
             = ToSet(current.hooks["state"].baseQueue) \cup ToSet(pending'["state"])
    <3>1. /\ ToSet(Merged("state"))
               = ToSet(current.hooks["state"].baseQueue) \cup ToSet(pending["state"])
      BY QueuesType DEF Hooks
    <3>2. /\ current.hooks["state"].baseQueue \in Seq(Update)
          /\ pending'["state"] \in Seq(Update)
      BY <1>5 DEF Hooks, TypeInv, TypeOK
    <3>3. ToSet(current.hooks["state"].baseQueue \o pending'["state"])
            = ToSet(current.hooks["state"].baseQueue) \cup ToSet(pending'["state"])
      BY <3>2, ConcatToSet
    <3>. QED  BY <1>3, <3>1, <3>3 DEF Merged
  <2>2. ToSet(pending["state"]) \subseteq ToSet(pending'["state"])
    <3>1. PICK c \in Seq(Update) : c = Append(concurrentQueues, u)
      BY <1>5, AppendProperties
    <3>2. ToSet(Enqueued(pending, c)["state"])
            = ToSet(pending["state"]) \cup {e \in ToSet(c) : e.hook = "state"}
      BY <1>5, EnqueuedEntries DEF Hooks
    <3>3. pending' = pending \/ pending' = Enqueued(pending, c)
      BY <1>4, <3>1 DEF Logs
    <3>. QED  BY <3>2, <3>3
  <2>. QED  BY <2>1, <2>2
<1>11. LastInv'
  <2>1. Value("state")' = Value("state")
    BY <1>3 DEF Value
  <2>2. LastInv
    BY DEF ScreenInv
  <2>3. (\A e \in ToSet(Merged("state"))' : e.lane = NoLane)
          => lastRenderedState = Value("state")
    BY <1>10, <2>2 DEF LastInv
  <2>4. pc = "begun" => lastRenderedState = wip.hooks["state"].memoizedState
    BY <2>2 DEF LastInv
  <2>. QED  BY <1>3, <2>1, <2>3, <2>4 DEF LastInv
<1>12. \A e \in ToSet(concurrentQueues') : e.id <= Len(log')
  <2>1. ToSet(concurrentQueues') \subseteq ToSet(concurrentQueues) \cup {u}
    <3>1. ToSet(Append(concurrentQueues, u)) = ToSet(concurrentQueues) \cup {u}
      BY <1>5, AppendToSet
    <3>. QED  BY <1>4, <3>1, EmptyToSet DEF Logs
  <2>2. ASSUME NEW e \in ToSet(concurrentQueues) PROVE e.id <= Len(log')
    <3>1. e.id \in Nat /\ e.id <= Len(log)
      BY <1>5, <1>6, EntryAt DEF Hooks
    <3>. QED  BY <1>2, <3>1
  <2>3. u.id <= Len(log')
    BY <1>2
  <2>. QED  BY <2>1, <2>2, <2>3
<1>. QED  BY <1>1, <1>7, <1>8, <1>9, <1>11, <1>12 DEF ScreenInv

LEMMA EventKeepsScreen ==
  ASSUME TypeInv, TypeInv', WaitInv, ScreenInv, EagerWhenEmpty,
         \/ \E kind \in Kinds, lane \in EventLanes : DispatchSetState(kind, lane)
         \/ DispatchOptimisticSetState
         \/ \E lane \in EventLanes : UpdateOther(lane)
         \/ StartTransition \/ FinishTransition \/ FinishAction \/ SettleAction
         \/ ProcessRootSchedule
  PROVE  ScreenInv'
<1>1. /\ EventStep /\ lastRenderedState' = lastRenderedState
      /\ LogsNothing \/ \E u \in Update, st \in {"queued", "shown"} : LogsEagerly(u, st)
  BY EventLogs DEF WaitInv
<1>2. CASE LogsNothing
  <2>1. /\ UNCHANGED <<log, status, seen, renderLanes, pc, concurrentQueues, pending,
                       lastRenderedState>>
        /\ current'.hooks = current.hooks /\ wip'.hooks = wip.hooks
    BY <1>1, <1>2 DEF EventStep, LogsNothing
  <2>2. RenderStatuses' = RenderStatuses
    BY <2>1 DEF RenderStatuses, RenderedStatus
  <2>3. Merged("state")' = Merged("state") /\ Value("state")' = Value("state")
    BY <2>1 DEF Merged, Value
  <2>4. LastInv'
    BY <2>1, <2>3 DEF ScreenInv, LastInv
  <2>. QED  BY <2>1, <2>2, <2>4 DEF ScreenInv
<1>3. CASE \E u \in Update, st \in {"queued", "shown"} : LogsEagerly(u, st)
  BY <1>1, <1>3, LogsKeepsScreen
<1>. QED  BY <1>1, <1>2, <1>3

-----------------------------------------------------------------------------
(* Renders.                                                                *)
LEMMA MoreMerged ==
  ASSUME TypeInv, TypeInv',
         ToSet(current.hooks["state"].baseQueue) \cup ToSet(pending["state"])
           \subseteq ToSet(current'.hooks["state"].baseQueue) \cup ToSet(pending'["state"])
  PROVE  ToSet(Merged("state")) \subseteq ToSet(Merged("state"))'
<1>1. ToSet(Merged("state"))
        = ToSet(current.hooks["state"].baseQueue) \cup ToSet(pending["state"])
  BY QueuesType DEF Hooks
<1>2. /\ current'.hooks["state"].baseQueue \in Seq(Update)
      /\ pending'["state"] \in Seq(Update)
  BY DEF Hooks, TypeInv, TypeOK, Fiber, Hook
<1>3. ToSet(current'.hooks["state"].baseQueue \o pending'["state"])
        = ToSet(current'.hooks["state"].baseQueue) \cup ToSet(pending'["state"])
  BY <1>2, ConcatToSet
<1>. QED  BY <1>1, <1>3 DEF Merged

LEMMA PrepareFreshStackKeepsScreen ==
  ASSUME TypeInv, TypeInv', ScreenInv, PrepareFreshStack
  PROVE  ScreenInv'
<1>1. /\ UNCHANGED <<log, status, lastRenderedState>>
      /\ pc' = "started" /\ seen' = Len(log) /\ concurrentQueues' = <<>>
      /\ pending' = Enqueued(pending, concurrentQueues)
  BY DEF PrepareFreshStack, FinishQueueing
<1>2. /\ concurrentQueues \in Seq(Update) /\ pending \in [Hooks -> Seq(Update)]
      /\ \A h \in Hooks : current.hooks[h].baseQueue \in Seq(Update)
      /\ log \in Seq(Update) /\ Len(log) \in Nat /\ seen \in 0..Len(log)
      /\ DOMAIN log = 1..Len(log)
  BY TypeInvParts, LenProperties DEF QueuesOK, LogOK, Fiber, Hook
<1>3. current'.hooks = current.hooks
  <2>1. LanesOf(concurrentQueues) \in SUBSET UsedLanes
    BY <1>2, LanesOfType
  <2>. QED  BY <2>1, TypeInvParts, MarkedFibers DEF PrepareFreshStack, FinishQueueing, QueuesOK
<1>4. Shows(log', seen', current'.hooks, pending', concurrentQueues', status')
  <2>1. Shows(log, seen, current.hooks, pending, concurrentQueues, status)
    BY DEF ScreenInv
  <2>2. Shows(log, seen, current.hooks, Enqueued(pending, concurrentQueues), <<>>, status)
    BY <1>2, <2>1, RequeuedShows
  <2>3. seen \in Nat /\ seen <= Len(log)
    BY <1>2
  <2>4. Shows(log, Len(log), current.hooks, Enqueued(pending, concurrentQueues), <<>>, status)
    BY <1>2, <2>2, <2>3, LaterShows
  <2>. QED  BY <1>1, <1>3, <2>4
<1>5. Unseen(log', status', seen')
  BY <1>1, <1>2 DEF Unseen
<1>6. LastInv'
  <2>1. ToSet(Enqueued(pending, concurrentQueues)["state"])
          = ToSet(pending["state"]) \cup {e \in ToSet(concurrentQueues) : e.hook = "state"}
    BY <1>2, EnqueuedEntries DEF Hooks
  <2>2. ToSet(Merged("state")) \subseteq ToSet(Merged("state"))'
    BY <1>1, <1>3, <2>1, MoreMerged
  <2>3. Value("state")' = Value("state")
    BY <1>3 DEF Value
  <2>. QED  BY <1>1, <2>2, <2>3 DEF ScreenInv, LastInv
<1>7. ToSet(concurrentQueues') = {}
  BY <1>1, EmptyToSet
<1>8. Eager(log', status')
  BY <1>1 DEF ScreenInv
<1>. QED  BY <1>1, <1>4, <1>5, <1>6, <1>7, <1>8 DEF ScreenInv

LEMMA BailOutKeepsScreen ==
  ASSUME ScreenInv, BailOut
  PROVE  ScreenInv'
<1>1. /\ UNCHANGED <<log, status, seen, concurrentQueues, pending, lastRenderedState, current>>
      /\ pc' = "skipped"
  BY DEF BailOut, historyVars, queueVars
<1>2. LastInv'
  BY <1>1 DEF ScreenInv, LastInv, Merged, Value
<1>. QED  BY <1>1, <1>2 DEF ScreenInv

LEMMA SuspendKeepsScreen ==
  ASSUME TypeInv, TypeInv', ScreenInv, NEW hooks \in SUBSET Hooks, NEW lanes,
         Suspend(hooks, lanes), UNCHANGED historyVars,
         \/ lastRenderedState' = lastRenderedState
         \/ /\ lastRenderedState' = RenderedState.state
            /\ UpdatesByHook /\ OrderInv /\ SyncInv /\ pc = "started"
  PROVE  ScreenInv'
<1>1. /\ UNCHANGED <<log, status, seen>> /\ concurrentQueues' = <<>> /\ pc' = "idle"
  BY DEF Suspend, historyVars
<1>2. /\ concurrentQueues \in Seq(Update) /\ pending \in [Hooks -> Seq(Update)]
      /\ current \in Fiber
      /\ \A h \in Hooks : /\ current.hooks[h].baseQueue \in Seq(Update)
                          /\ current'.hooks[h].baseQueue \in Seq(Update)
      /\ NoLane \notin renderLanes
  BY TypeInvParts, LanesInUse DEF QueuesOK, LanesOK, Fiber, Hook, TypeInv, TypeOK
<1>. DEFINE left == [h \in Hooks |-> IF h \in hooks THEN <<>> ELSE pending[h]]
<1>3. /\ left \in [Hooks -> Seq(Update)] /\ pending' = Enqueued(left, concurrentQueues)
      /\ \A h \in Hooks : left[h] = IF h \in hooks THEN <<>> ELSE pending[h]
  BY <1>2, EmptySeq DEF Suspend
<1>. HIDE DEF left
<1>4. \A h \in Hooks :
        /\ current'.hooks[h].memoizedState = current.hooks[h].memoizedState
        /\ current'.hooks[h].baseState = current.hooks[h].baseState
        /\ current'.hooks[h].baseQueue = IF h \in hooks THEN Merged(h)
                                         ELSE current.hooks[h].baseQueue
  <2>. DEFINE marked == Mark(current, LanesOf(concurrentQueues))
              newHooks == [h \in Hooks |->
                 IF h \in hooks THEN [marked.hooks[h] EXCEPT !.baseQueue = Merged(h)]
                 ELSE marked.hooks[h]]
  <2>1. LanesOf(concurrentQueues) \in SUBSET UsedLanes
    BY <1>2, LanesOfType
  <2>2. marked.hooks = current.hooks /\ marked \in Fiber
    BY <1>2, <2>1, MarkedFibers, MarkType
  <2>3. current' = [marked EXCEPT !.hooks = newHooks]
    BY DEF Suspend
  <2>. HIDE DEF marked
  <2>4. \A h \in Hooks :
          /\ newHooks[h].memoizedState = current.hooks[h].memoizedState
          /\ newHooks[h].baseState = current.hooks[h].baseState
          /\ newHooks[h].baseQueue = IF h \in hooks THEN Merged(h)
                                     ELSE current.hooks[h].baseQueue
    BY <2>2, MergedType DEF Hook
  <2>. HIDE DEF newHooks
  <2>5. current'.hooks = newHooks
    BY <2>2, <2>3 DEF Fiber
  <2>. QED  BY <2>4, <2>5
<1>5. Shows(log', seen', current'.hooks, pending', concurrentQueues', status')
  <2>1. Shows(log, seen, current.hooks, pending, concurrentQueues, status)
    BY DEF ScreenInv
  <2>2. \A h \in Hooks : MergesHook(current.hooks, pending, current'.hooks, left, h)
    BY <1>3, <1>4 DEF MergesHook, Merged
  <2>3. Shows(log, seen, current'.hooks, left, concurrentQueues, status)
    BY <1>2, <2>1, <2>2, MergedShows
  <2>4. Shows(log, seen, current'.hooks, Enqueued(left, concurrentQueues), <<>>, status)
    BY <1>2, <1>3, <2>3, RequeuedShows
  <2>. QED  BY <1>1, <1>3, <2>4
<1>6. LastInv'
  <2>1. ToSet(pending'["state"])
          = ToSet(left["state"]) \cup {e \in ToSet(concurrentQueues) : e.hook = "state"}
    BY <1>2, <1>3, EnqueuedEntries DEF Hooks
  <2>2. /\ "state" \in hooks =>
             /\ current'.hooks["state"].baseQueue = Merged("state")
             /\ ToSet(Merged("state"))
                  = ToSet(current.hooks["state"].baseQueue) \cup ToSet(pending["state"])
        /\ "state" \notin hooks =>
             /\ current'.hooks["state"].baseQueue = current.hooks["state"].baseQueue
             /\ left["state"] = pending["state"]
    BY <1>3, <1>4, QueuesType DEF Hooks
  <2>3. ToSet(Merged("state")) \subseteq ToSet(Merged("state"))'
    BY <2>1, <2>2, MoreMerged
  <2>4. Value("state")' = Value("state")
    BY <1>4 DEF Value, Hooks
  <2>5. (\A e \in ToSet(Merged("state")) : e.lane = NoLane)
          => lastRenderedState' = Value("state")
    <3>1. CASE lastRenderedState' = lastRenderedState
      BY <3>1 DEF ScreenInv, LastInv
    <3>2. CASE /\ lastRenderedState' = RenderedState.state
               /\ UpdatesByHook /\ OrderInv /\ SyncInv /\ pc = "started"
      BY <1>2, <3>2, NothingTaken DEF ScreenInv
    <3>. QED  BY <3>1, <3>2
  <2>. QED  BY <1>1, <2>3, <2>4, <2>5 DEF LastInv
<1>7. ToSet(concurrentQueues') = {}
  BY <1>1, EmptyToSet
<1>8. Eager(log', status') /\ Unseen(log', status', seen')
  BY <1>1 DEF ScreenInv
<1>. QED  BY <1>1, <1>5, <1>6, <1>7, <1>8 DEF ScreenInv

LEMMA CompleteKeepsScreen ==
  ASSUME TypeInv, TypeInv', WaitInv, ScreenInv, NEW newProps \in BOOLEAN,
         Complete(RenderedState, RenderedOptimistic, newProps), pc = "started",
         UNCHANGED historyVars, FinishStateHook(RenderedState)
  PROVE  ScreenInv'
<1>. DEFINE result == [state |-> RenderedState, optimistic |-> RenderedOptimistic]
<1>1. /\ UNCHANGED <<log, status, seen, concurrentQueues, renderLanes>>
      /\ pc' = "begun" /\ pending' = [h \in Hooks |-> <<>>]
  BY DEF Complete, historyVars
<1>2. /\ concurrentQueues \in Seq(Update) /\ pending \in [Hooks -> Seq(Update)]
      /\ \A h \in Hooks : current.hooks[h].baseQueue \in Seq(Update)
      /\ NoLane \notin renderLanes
      /\ UpdatesByHook /\ HoldInv /\ OrderInv /\ SyncInv
  BY TypeInvParts, LanesInUse DEF QueuesOK, LanesOK, Fiber, Hook, WaitInv
<1>3. /\ Shows(log, seen, current.hooks, pending, concurrentQueues, status)
      /\ Eager(log, status) /\ Unseen(log, status, seen) /\ LastInv
      /\ \A e \in ToSet(concurrentQueues) : e.id <= Len(log)
  BY DEF ScreenInv
<1>4. ASSUME NEW h \in Hooks
      PROVE  /\ current'.hooks[h].baseQueue = Merged(h)
             /\ current'.hooks[h].memoizedState = current.hooks[h].memoizedState
             /\ current'.hooks[h].baseState = current.hooks[h].baseState
             /\ wip'.hooks[h] = NewHook(result[h])
  <2>1. current.hooks[h] \in Hook
    BY MergedType
  <2>. HIDE DEF result
  <2>2. /\ current'.hooks[h] = [current.hooks[h] EXCEPT !.baseQueue = Merged(h)]
        /\ wip'.hooks[h] = NewHook(result[h])
    BY DEF Complete, result
  <2>. QED  BY <2>1, <2>2 DEF Hook
<1>5. /\ wip'.hooks["state"] = NewHook(RenderedState)
      /\ wip'.hooks["optimistic"] = NewHook(RenderedOptimistic)
  BY <1>4 DEF Hooks
<1>. HIDE DEF result
<1>6. \A h \in Hooks : pending'[h] = <<>>
  BY <1>1
<1>7. Shows(log', seen', current'.hooks, pending', concurrentQueues', status')
  <2>1. \A h \in Hooks : MergesHook(current.hooks, pending, current'.hooks, pending', h)
    BY <1>4, <1>6 DEF MergesHook, Merged
  <2>2. Shows(log, seen, current'.hooks, pending', concurrentQueues, status)
    BY <1>2, <1>3, <2>1, MergedShows
  <2>. QED  BY <1>1, <2>2
<1>8. Shows(log', seen', wip'.hooks, pending', concurrentQueues', RenderStatuses')
  <2>1. Shows(log, seen, wip'.hooks, pending', concurrentQueues, RenderStatuses)
    BY <1>2, <1>3, <1>5, <1>6, CompletedShows
  <2>2. RenderStatuses' = RenderStatuses
    BY <1>1 DEF RenderStatuses, RenderedStatus
  <2>. QED  BY <1>1, <2>1, <2>2
<1>9. (\A e \in ToSet(Merged("state")) : e.lane = NoLane)
        => RenderedState.state = Value("state")
  BY <1>2, <1>3, NothingTaken
<1>10. lastRenderedState' = RenderedState.state
  <2>1. CASE Merged("state") = <<>>
    <3>1. \A e \in ToSet(Merged("state")) : e.lane = NoLane
      BY <2>1, EmptyToSet
    <3>2. lastRenderedState = Value("state")
      BY <1>3, <3>1 DEF LastInv
    <3>. QED  BY <1>9, <2>1, <3>1, <3>2 DEF FinishStateHook
  <2>2. CASE Merged("state") # <<>>
    BY <2>2 DEF FinishStateHook
  <2>. QED  BY <2>1, <2>2
<1>11. LastInv'
  <2>1. ToSet(Merged("state")) \subseteq ToSet(Merged("state"))'
    <3>1. ToSet(Merged("state"))
            = ToSet(current.hooks["state"].baseQueue) \cup ToSet(pending["state"])
      BY QueuesType DEF Hooks
    <3>2. current'.hooks["state"].baseQueue = Merged("state")
      BY <1>4 DEF Hooks
    <3>. QED  BY <3>1, <3>2, MoreMerged
  <2>2. Value("state")' = Value("state")
    BY <1>4 DEF Value, Hooks
  <2>3. wip'.hooks["state"].memoizedState = RenderedState.state
    <3>1. NewHook(RenderedState).memoizedState = RenderedState.state
      BY DEF NewHook
    <3>. QED  BY <1>5, <3>1
  <2>. QED  BY <1>9, <1>10, <2>1, <2>2, <2>3 DEF LastInv
<1>. QED  BY <1>1, <1>3, <1>7, <1>8, <1>11 DEF ScreenInv

LEMMA RenderComponentKeepsScreen ==
  ASSUME TypeInv, TypeInv', WaitInv, ScreenInv, NEW newProps \in BOOLEAN,
         RenderComponent(newProps)
  PROVE  ScreenInv'
<1>1. pc = "started" /\ UNCHANGED historyVars
  BY DEF RenderComponent
<1>2. \/ Suspend({"state"}, {}) /\ UNCHANGED lastRenderedState
      \/ Suspend(Hooks, {}) /\ FinishStateHook(RenderedState)
      \/ /\ Complete(RenderedState, RenderedOptimistic, newProps)
         /\ FinishStateHook(RenderedState)
  BY DEF RenderComponent, RenderedState, RenderedOptimistic, PassthroughBase
<1>3. UpdatesByHook /\ OrderInv /\ SyncInv
  BY DEF WaitInv
<1>4. CASE Suspend({"state"}, {}) /\ UNCHANGED lastRenderedState
  <2>1. {"state"} \in SUBSET Hooks
    BY DEF Hooks
  <2>. QED  BY <1>1, <1>4, <2>1, SuspendKeepsScreen
<1>5. CASE Suspend(Hooks, {}) /\ FinishStateHook(RenderedState)
  <2>1. lastRenderedState' \in {lastRenderedState, RenderedState.state}
    BY <1>5 DEF FinishStateHook
  <2>2. Hooks \in SUBSET Hooks
    OBVIOUS
  <2>. QED  BY <1>1, <1>3, <1>5, <2>1, <2>2, SuspendKeepsScreen
<1>6. CASE /\ Complete(RenderedState, RenderedOptimistic, newProps)
           /\ FinishStateHook(RenderedState)
  BY <1>1, <1>6, CompleteKeepsScreen
<1>. QED  BY <1>2, <1>4, <1>5, <1>6

LEMMA CommitKeepsScreen ==
  ASSUME TypeInv, TypeInv', WaitInv, ScreenInv, Commit
  PROVE  ScreenInv'
<1>1. /\ UNCHANGED <<log, seen, lastRenderedState>> /\ pc \in {"begun", "skipped"}
      /\ pc' = "idle" /\ concurrentQueues' = <<>>
      /\ pending' = Enqueued(pending, concurrentQueues)
      /\ current' = Mark(wip, LanesOf(concurrentQueues))
      /\ status' = [u \in DOMAIN status |-> StatusAfter(u)]
  BY DEF Commit
<1>2. /\ concurrentQueues \in Seq(Update) /\ pending \in [Hooks -> Seq(Update)]
      /\ wip \in Fiber /\ \A h \in Hooks : wip.hooks[h].baseQueue \in Seq(Update)
      /\ log \in Seq(Update) /\ DOMAIN status = DOMAIN log
      /\ NoLane \notin renderLanes /\ UpdatesByHook
  BY TypeInvParts, LanesInUse, LenProperties
     DEF QueuesOK, LanesOK, LogOK, Fiber, Hook, WaitInv
<1>3. /\ Shows(log, seen, current.hooks, pending, concurrentQueues, status)
      /\ pc = "begun" =>
           Shows(log, seen, wip.hooks, pending, concurrentQueues, RenderStatuses)
      /\ Eager(log, status) /\ Unseen(log, status, seen) /\ LastInv
  BY DEF ScreenInv
<1>4. current'.hooks = wip.hooks
  <2>1. LanesOf(concurrentQueues) \in SUBSET UsedLanes
    BY <1>2, LanesOfType
  <2>. QED  BY <1>1, <1>2, <2>1, MarkedFibers
<1>5. pc = "begun" => status' = RenderStatuses
  <2>1. pc = "begun" => \A u \in DOMAIN log : StatusAfter(u) = RenderedStatus(u)
    BY DEF StatusAfter, RenderedStatus
  <2>. QED  BY <1>1, <1>2, <2>1 DEF RenderStatuses
<1>6. pc = "skipped" =>
        wip.hooks = current.hooks
        /\ \A u \in DOMAIN log : log[u].hook \in Hooks => status'[u] = status[u]
  BY <1>1, <1>2 DEF StatusAfter, WaitInv, HoldInv
<1>7. \A u \in DOMAIN log : log[u].hook = "state" /\ status[u] = "shown" => status'[u] = "shown"
  <2>1. ASSUME NEW u \in DOMAIN log, log[u].hook = "state", status[u] = "shown"
        PROVE  StatusAfter(u) = "shown"
    <3>1. log[u].revertLane = NoLane
      BY <1>2, <2>1 DEF UpdatesByHook
    <3>. QED  BY <1>2, <2>1, <3>1 DEF StatusAfter
  <2>. QED  BY <1>1, <1>2, <2>1
<1>8. Eager(log', status')
  <2>1. Eager(log, status')
    BY <1>2, <1>3, <1>7, EagerStays
  <2>. QED  BY <1>1, <2>1
<1>9. Unseen(log', status', seen')
  <2>1. \A u \in DOMAIN log : u > seen => status'[u] = status[u]
    BY <1>1, <1>2 DEF StatusAfter
  <2>. QED  BY <1>1, <1>3, <2>1 DEF Unseen
<1>10. Shows(log', seen', current'.hooks, pending', concurrentQueues', status')
  <2>1. Shows(log, seen, wip.hooks, pending, concurrentQueues, status')
    <3>1. CASE pc = "begun"
      BY <1>3, <1>5, <3>1
    <3>2. CASE pc = "skipped"
      <4>1. Shows(log, seen, current.hooks, pending, concurrentQueues, status')
        BY <1>2, <1>3, <1>6, <3>2, SameShows
      <4>. QED  BY <1>6, <3>2, <4>1
    <3>. QED  BY <1>1, <3>1, <3>2
  <2>2. Shows(log, seen, wip.hooks, Enqueued(pending, concurrentQueues), <<>>, status')
    BY <1>2, <2>1, RequeuedShows
  <2>. QED  BY <1>1, <1>4, <2>2
<1>11. LastInv'
  <2>1. CASE pc = "begun"
    <3>1. lastRenderedState = wip.hooks["state"].memoizedState
      BY <1>3, <2>1 DEF LastInv
    <3>. QED  BY <1>1, <1>4, <3>1 DEF LastInv, Value
  <2>2. CASE pc = "skipped"
    <3>1. current'.hooks = current.hooks
      BY <1>4, <1>6, <2>2
    <3>2. ToSet(Enqueued(pending, concurrentQueues)["state"])
            = ToSet(pending["state"]) \cup {e \in ToSet(concurrentQueues) : e.hook = "state"}
      BY <1>2, EnqueuedEntries DEF Hooks
    <3>3. ToSet(Merged("state")) \subseteq ToSet(Merged("state"))'
      BY <1>1, <3>1, <3>2, MoreMerged
    <3>4. Value("state")' = Value("state")
      BY <3>1 DEF Value
    <3>. QED  BY <1>1, <1>3, <3>3, <3>4 DEF LastInv
  <2>. QED  BY <1>1, <2>1, <2>2
<1>12. ToSet(concurrentQueues') = {}
  BY <1>1, EmptyToSet
<1>. QED  BY <1>1, <1>8, <1>9, <1>10, <1>11, <1>12 DEF ScreenInv

LEMMA ScreenStep ==
  TypeInv /\ WaitInv /\ ScreenInv /\ [Next /\ EagerWhenEmpty]_vars => ScreenInv'
<1>. SUFFICES ASSUME TypeInv, WaitInv, ScreenInv, [Next /\ EagerWhenEmpty]_vars
              PROVE  ScreenInv'
  OBVIOUS
<1>1. TypeInv'
  BY TypeStep
<1>2. CASE /\ EagerWhenEmpty
           /\ \/ \E kind \in Kinds, lane \in EventLanes : DispatchSetState(kind, lane)
              \/ DispatchOptimisticSetState
              \/ \E lane \in EventLanes : UpdateOther(lane)
              \/ StartTransition \/ FinishTransition \/ FinishAction \/ SettleAction
              \/ ProcessRootSchedule
  BY <1>1, <1>2, EventKeepsScreen
<1>3. CASE Render
  <2>1. ASSUME SuspendInOther PROVE ScreenInv'
    <3>1. /\ Suspend({}, wip.lanes) /\ UNCHANGED historyVars
          /\ lastRenderedState' = lastRenderedState /\ {} \in SUBSET Hooks
      BY <2>1 DEF SuspendInOther
    <3>. QED  BY <1>1, <3>1, SuspendKeepsScreen
  <2>. QED  BY <1>1, <1>3, <2>1, PrepareFreshStackKeepsScreen, BailOutKeepsScreen,
            CommitKeepsScreen, RenderComponentKeepsScreen DEF Render
<1>4. CASE UNCHANGED vars
  <2>1. UNCHANGED <<log, status, seen, concurrentQueues, pending, current, wip,
                    lastRenderedState, renderLanes, pc>>
    BY <1>4 DEF vars, historyVars, queueVars, fiberVars, renderVars
  <2>2. RenderStatuses' = RenderStatuses
    BY <2>1 DEF RenderStatuses, RenderedStatus
  <2>3. LastInv'
    BY <2>1 DEF ScreenInv, LastInv, Merged, Value
  <2>. QED  BY <2>1, <2>2, <2>3 DEF ScreenInv
<1>. QED  BY <1>2, <1>3, <1>4 DEF Next

-----------------------------------------------------------------------------
(* The steps of the log.                                                   *)
LEMMA FrontOfAppend ==
  ASSUME NEW S, NEW s \in Seq(S), NEW e \in S
  PROVE  Screen!Front(Append(s, e)) = s
<1>1. Len(s) \in Nat /\ s \in [1..Len(s) -> S]
  BY LenProperties
<1>2. PICK t : t = Append(s, e)
  OBVIOUS
<1>3. t \in Seq(S) /\ Len(t) = Len(s) + 1 /\ \A i \in 1..Len(s) : t[i] = s[i]
  BY <1>1, <1>2, AppendProperties
<1>4. SubSeq(t, 1, Len(s)) = [i \in 1..Len(s) |-> t[i]]
  BY <1>1, <1>3
<1>5. [i \in 1..Len(s) |-> t[i]] = s
  BY <1>1, <1>3
<1>6. Len(t) - 1 = Len(s)
  BY <1>1, <1>3
<1>. QED  BY <1>2, <1>4, <1>5, <1>6 DEF Screen!Front

LEMMA ShownValues ==
  ASSUME NEW lg, NEW sn, NEW hooks, NEW p, NEW c, NEW st, Shows(lg, sn, hooks, p, c, st)
  PROVE  /\ hooks["state"].memoizedState = Screen!StateOf(lg, st)
         /\ hooks["optimistic"].memoizedState = Screen!OptimisticOf(lg, st)
BY DEF Shows, Values

LEMMA CommitsToLog ==
  ASSUME TypeInv, Commit
  PROVE  \E lanes \in SUBSET Screen!Lanes, n \in 0..Len(log), skipped \in {{}, Hooks} :
           Screen!Commit(lanes, n, skipped)
<1>1. /\ UNCHANGED log /\ pc \in {"begun", "skipped"}
      /\ status' = [u \in DOMAIN status |-> StatusAfter(u)]
  BY DEF Commit
<1>2. DOMAIN status = DOMAIN log /\ seen \in 0..Len(log) /\ NoLane \notin renderLanes
  BY TypeInvParts, LanesInUse, LenProperties DEF LanesOK, LogOK
<1>. DEFINE lanes == renderLanes \cap Screen!Lanes
            skipped == IF pc = "skipped" THEN Hooks ELSE {}
<1>3. lanes \in SUBSET Screen!Lanes /\ skipped \in {{}, Hooks}
  OBVIOUS
<1>4. ASSUME NEW u \in DOMAIN log
      PROVE  /\ log[u].revertLane \in renderLanes <=> log[u].revertLane \in lanes
             /\ log[u].lane \in renderLanes <=> log[u].lane \in lanes
             /\ log[u].hook \in skipped <=> pc = "skipped" /\ log[u].hook \in Hooks
  BY <1>2 DEF Screen!Lanes
<1>. HIDE DEF lanes, skipped
<1>5. ASSUME NEW u \in DOMAIN log
      PROVE  StatusAfter(u)
               = IF u > seen \/ status[u] = "dropped" \/ log[u].hook \in skipped THEN status[u]
                 ELSE IF log[u].revertLane \in lanes THEN "dropped"
                 ELSE IF log[u].lane \in lanes THEN "shown"
                 ELSE status[u]
  BY <1>4 DEF StatusAfter
<1>6. Screen!Commit(lanes, seen, skipped)
  BY <1>1, <1>2, <1>5 DEF Screen!Commit
<1>. QED  BY <1>2, <1>3, <1>6

LEMMA LogsToLog ==
  ASSUME TypeInv, EventStep, NEW u \in Update, NEW st \in {"queued", "shown"}, Logs(u, st)
  PROVE  Screen!Dispatch
<1>1. log \in Seq(Update) /\ log' = Append(log, u) /\ status' = Append(status, st)
  BY TypeInvParts DEF LogOK, Logs
<1>2. Screen!Front(log') = log
  BY <1>1, FrontOfAppend
<1>3. Len(log') = Len(log) + 1
  BY <1>1, AppendProperties
<1>4. UNCHANGED <<Value("state"), Value("optimistic")>>
  BY DEF EventStep, Value
<1>. QED  BY <1>1, <1>2, <1>3, <1>4 DEF Screen!Dispatch

LEMMA StepsToLog ==
  ASSUME TypeInv, WaitInv, ScreenInv, ScreenInv', [Next]_vars
  PROVE  [Screen!Next]_<<log, status, Value("state"), Value("optimistic")>>
<1>1. /\ Value("state") = Screen!StateOf(log, status)
      /\ Value("optimistic") = Screen!OptimisticOf(log, status)
  BY ShownValues DEF ScreenInv, Value
<1>2. /\ Value("state")' = Screen!StateOf(log', status')
      /\ Value("optimistic")' = Screen!OptimisticOf(log', status')
  <2>1. Shows(log', seen', current'.hooks, pending', concurrentQueues', status')
    BY DEF ScreenInv
  <2>. QED  BY <2>1, ShownValues DEF Value
<1>3. ASSUME UNCHANGED <<log, status>>
      PROVE  UNCHANGED <<log, status, Value("state"), Value("optimistic")>>
  BY <1>1, <1>2, <1>3
<1>4. CASE \/ \E kind \in Kinds, lane \in EventLanes : DispatchSetState(kind, lane)
           \/ DispatchOptimisticSetState
           \/ \E lane \in EventLanes : UpdateOther(lane)
           \/ StartTransition \/ FinishTransition \/ FinishAction \/ SettleAction
           \/ ProcessRootSchedule
  <2>1. Event
    BY <1>4, EventKeepsWait
  <2>2. CASE LogsNothing
    BY <1>3, <2>2 DEF LogsNothing
  <2>3. CASE \E u \in Update, st \in {"queued", "shown"} : Logs(u, st)
    <3>1. Screen!Dispatch
      <4>1. PICK u \in Update, st \in {"queued", "shown"} : Logs(u, st)
        BY <2>3
      <4>2. EventStep
        BY <2>1 DEF Event
      <4>. QED  BY <4>1, <4>2, LogsToLog
    <3>. QED  BY <1>2, <3>1 DEF Screen!Next
  <2>. QED  BY <2>1, <2>2, <2>3 DEF Event
<1>5. CASE Commit
  BY <1>2, <1>5, CommitsToLog DEF Screen!Next
<1>6. CASE PrepareFreshStack \/ BailOut \/ SuspendInOther
           \/ \E newProps \in BOOLEAN : RenderComponent(newProps)
  BY <1>3, <1>6 DEF PrepareFreshStack, BailOut, SuspendInOther, RenderComponent, historyVars
<1>7. CASE UNCHANGED vars
  BY <1>3, <1>7 DEF vars, historyVars
<1>. QED  BY <1>4, <1>5, <1>6, <1>7 DEF Next, Render

EmptyQueueSpec == Init /\ [][Next /\ EagerWhenEmpty]_vars

(* If a state is computed eagerly only when every update to the state has  *)
(* been shown, the values on the screen are those of the log: whatever was *)
(* skipped, rebased, abandoned, suspended or never queued.                 *)
THEOREM HookQueueImplementsOptimisticLog == EmptyQueueSpec => ImplementsOptimisticLog
<1>1. Init => Screen!Init
  <2>. SUFFICES ASSUME Init PROVE Screen!Init
    OBVIOUS
  <2>1. log = <<>> /\ status = <<>> /\ current = InitialFiber
    BY DEF Init
  <2>2. Value("state") = <<>> /\ Value("optimistic") = <<>>
    BY <2>1 DEF Value, InitialFiber, InitialHook, Hooks
  <2>. QED  BY <2>1, <2>2 DEF Screen!Init
<1>2. /\ TypeInv /\ WaitInv /\ ScreenInv /\ ScreenInv' /\ [Next]_vars
        => [Screen!Next]_<<log, status, Value("state"), Value("optimistic")>>
  BY StepsToLog
<1>3. [Next /\ EagerWhenEmpty]_vars => [Next]_vars
  OBVIOUS
<1>. QED  BY <1>1, <1>2, <1>3, TypeInit, TypeStep, WaitInit, WaitStep, ScreenInit, ScreenStep,
          PTL DEF EmptyQueueSpec, ImplementsOptimisticLog, Screen!LogSpec

(* Then what is computed eagerly is the state of all the updates.          *)
THEOREM HookQueueEagerStateIsCurrent == EmptyQueueSpec => EagerStateIsCurrent
<1>1. TypeInv /\ ScreenInv /\ EagerWhenEmpty => AppliesToCurrentState
  <2>. SUFFICES ASSUME TypeInv, ScreenInv, EagerWhenEmpty,
                       log' # log, Last(log').eagerState # {}
                PROVE  lastRenderedState = StateAfter(Len(log))
    BY DEF AppliesToCurrentState
  <2>1. lastRenderedState = AllApplied(log, Len(log))
    BY LastIsAll DEF EagerWhenEmpty
  <2>. QED  BY <2>1 DEF AllApplied, StateAfter
<1>2. TypeInv /\ ScreenInv /\ [Next /\ EagerWhenEmpty]_vars => [AppliesToCurrentState]_vars
  BY <1>1
<1>3. [Next /\ EagerWhenEmpty]_vars => [Next]_vars
  OBVIOUS
<1>. QED  BY <1>2, <1>3, TypeInit, TypeStep, WaitInit, WaitStep, ScreenInit, ScreenStep,
          PTL DEF EmptyQueueSpec, EagerStateIsCurrent

-----------------------------------------------------------------------------
(* Updates that wait to be shown, and that together change nothing.        *)
QueuedOf(lg, st) == {u \in DOMAIN lg : lg[u].hook = "state" /\ st[u] = "queued"}

MoreShown(lg, st, updates) ==
  [u \in DOMAIN lg |-> IF u \in updates THEN "shown" ELSE st[u]]

ChangesNothing(lg, st, u) ==
  \E updates \in SUBSET QueuedOf(lg, st) :
    u \in updates /\ Screen!StateOf(lg, st) = Screen!StateOf(lg, MoreShown(lg, st, updates))

LEMMA StateSame ==
  ASSUME NEW lg \in Seq(Update), NEW st, NEW tt,
         \A u \in DOMAIN lg : lg[u].hook = "state" => (st[u] = "shown" <=> tt[u] = "shown")
  PROVE  Screen!StateOf(lg, st) = Screen!StateOf(lg, tt)
<1>1. Len(lg) \in Nat /\ DOMAIN lg = 1..Len(lg)
  BY LenProperties
<1>2. SameShown(lg, lg, st, tt, "state", Len(lg))
  BY <1>1 DEF SameShown
<1>3. Len(lg) \in 0..Len(lg) /\ Len(lg) <= Len(lg)
  BY <1>1
<1>. QED  BY <1>2, <1>3, AppliedSame, EmptyState DEF Screen!StateOf

LEMMA ChangesNothingSame ==
  ASSUME NEW lg \in Seq(Update), NEW st, NEW tt, NEW u, ChangesNothing(lg, st, u),
         \A v \in DOMAIN lg : lg[v].hook = "state" => tt[v] = st[v]
  PROVE  ChangesNothing(lg, tt, u)
<1>1. PICK updates \in SUBSET QueuedOf(lg, st) :
        u \in updates /\ Screen!StateOf(lg, st) = Screen!StateOf(lg, MoreShown(lg, st, updates))
  BY DEF ChangesNothing
<1>2. updates \in SUBSET QueuedOf(lg, tt)
  BY DEF QueuedOf
<1>3. Screen!StateOf(lg, tt) = Screen!StateOf(lg, st)
  BY StateSame
<1>4. PICK more, more2 :
        more = MoreShown(lg, st, updates) /\ more2 = MoreShown(lg, tt, updates)
  OBVIOUS
<1>5. \A v \in DOMAIN lg : lg[v].hook = "state" => (more[v] = "shown" <=> more2[v] = "shown")
  BY <1>4 DEF MoreShown
<1>6. Screen!StateOf(lg, more) = Screen!StateOf(lg, more2)
  BY <1>5, StateSame
<1>. QED  BY <1>1, <1>2, <1>3, <1>4, <1>6 DEF ChangesNothing

LEMMA ChangesNothingGrows ==
  ASSUME NEW lg \in Seq(Update), NEW lg2 \in Seq(Update), NEW st, NEW st2,
         NEW w \in Update, Grows(lg, st, lg2, st2, w), NEW u, ChangesNothing(lg, st, u)
  PROVE  ChangesNothing(lg2, st2, u)
<1>1. /\ Len(lg) \in Nat /\ DOMAIN lg = 1..Len(lg) /\ w.id = Len(lg) + 1
      /\ w.id \in DOMAIN lg2
      /\ \A i \in 1..Len(lg) : i \in DOMAIN lg2 /\ lg2[i] = lg[i] /\ st2[i] = st[i]
      /\ st2[w.id] = IF w.lane = NoLane THEN "shown" ELSE "queued"
  BY GrownLog
<1>2. PICK updates \in SUBSET QueuedOf(lg, st) :
        u \in updates /\ Screen!StateOf(lg, st) = Screen!StateOf(lg, MoreShown(lg, st, updates))
  BY DEF ChangesNothing
<1>3. u \in 1..Len(lg) /\ lg[u].hook = "state" /\ st[u] = "queued"
  BY <1>1, <1>2 DEF QueuedOf
<1>4. updates \in SUBSET QueuedOf(lg2, st2) /\ w.id \notin updates
  BY <1>1, <1>2 DEF QueuedOf
<1>5. w.lane # NoLane
  BY <1>3 DEF Grows, StatesShown
<1>6. PICK more, more2 :
        more = MoreShown(lg, st, updates) /\ more2 = MoreShown(lg2, st2, updates)
  OBVIOUS
<1>7. /\ \A i \in 1..Len(lg) : more2[i] = more[i]
      /\ more2[w.id] = "queued"
  BY <1>1, <1>4, <1>5, <1>6 DEF MoreShown
<1>8. Grows(lg, more, lg2, more2, w)
  BY <1>5, <1>7 DEF Grows
<1>9. /\ Screen!StateOf(lg2, more2) = Screen!StateOf(lg, more)
      /\ Screen!StateOf(lg2, st2) = Screen!StateOf(lg, st)
  BY <1>8, StateGrows
<1>. QED  BY <1>2, <1>4, <1>6, <1>9 DEF ChangesNothing

(* What a state is made of.                                                *)
LEMMA AppliedElements ==
  ASSUME NEW base \in State, NEW lg \in Seq(Update), NEW st, NEW h,
         \A u \in DOMAIN lg : lg[u].id = u, NEW n \in 0..Len(lg)
  PROVE  /\ \A x \in ToSet(Screen!Applied(base, lg, st, h, n)) :
              x \in ToSet(base) \/ (x \in 1..n /\ lg[x].hook = h /\ st[x] = "shown")
         /\ (\A u \in DOMAIN lg : lg[u].hook = h => lg[u].kind = "add") =>
              \A u \in 1..n : lg[u].hook = h /\ st[u] = "shown" =>
                u \in ToSet(Screen!Applied(base, lg, st, h, n))
<1>. DEFINE A(i) == Screen!Applied(base, lg, st, h, i)
            Adds == \A u \in DOMAIN lg : lg[u].hook = h => lg[u].kind = "add"
            Known(i) == \A x \in ToSet(A(i)) :
              x \in ToSet(base) \/ (x \in 1..i /\ lg[x].hook = h /\ st[x] = "shown")
            Has(i) == Adds => \A u \in 1..i : lg[u].hook = h /\ st[u] = "shown" => u \in ToSet(A(i))
            S == {i \in 0..n : Known(i) /\ Has(i)}
<1>1. Len(lg) \in Nat /\ DOMAIN lg = 1..Len(lg) /\ n \in Nat
  BY LenProperties
<1>2. 0 \in S
  <2>1. A(0) = base
    BY AppliedType
  <2>. QED  BY <1>1, <2>1
<1>3. ASSUME NEW i \in 1..n, i - 1 \in S PROVE i \in S
  <2>1. PICK m : m = i - 1
    OBVIOUS
  <2>. i \in 1..Len(lg) /\ m = i - 1
    BY <1>1, <2>1
  <2>2. /\ i \in 0..n /\ m \in 0..Len(lg) /\ i \in DOMAIN lg
        /\ \A x \in 1..m : x \in 1..i
        /\ \A x \in 1..i : x = i \/ x \in 1..m
        /\ i \in 1..i
    BY <1>1, <2>1
  <2>3. A(i) = IF lg[i].hook = h /\ st[i] = "shown" THEN Reduce(A(m), lg[i]) ELSE A(m)
    BY AppliedStep
  <2>4. A(m) \in Seq(1..MaxUpdates)
    BY <2>2, AppliedType DEF State
  <2>5. Known(m) /\ Has(m)
    BY <1>3, <2>1
  <2>. HIDE DEF A
  <2>6. CASE lg[i].hook = h /\ st[i] = "shown"
    <3>1. A(i) = Reduce(A(m), lg[i]) /\ lg[i].id = i
      BY <2>2, <2>3, <2>6
    <3>2. ToSet(Append(A(m), i)) = ToSet(A(m)) \cup {i}
      BY <2>4, AppendToSet
    <3>3. lg[i].kind \in {"add", "keep", "reset"}
      <4>1. lg[i] \in Update
        BY ElementOfSeq
      <4>. QED  BY <4>1 DEF Update
    <3>4. lg[i].kind = "add" => ToSet(A(i)) = ToSet(A(m)) \cup {i}
      BY <3>1, <3>2 DEF Reduce
    <3>5. ToSet(A(i)) \subseteq ToSet(A(m)) \cup {i}
      <4>1. lg[i].kind = "keep" => A(i) = A(m)
        BY <3>1 DEF Reduce
      <4>2. lg[i].kind = "reset" => A(i) = <<>>
        BY <3>1 DEF Reduce
      <4>. QED  BY <3>3, <3>4, <4>1, <4>2, EmptyToSet
    <3>6. Known(i)
      BY <2>2, <2>5, <2>6, <3>5
    <3>7. Has(i)
      BY <2>2, <2>5, <2>6, <3>4
    <3>. QED  BY <2>2, <3>6, <3>7
  <2>7. CASE ~(lg[i].hook = h /\ st[i] = "shown")
    <3>1. A(i) = A(m)
      BY <2>3, <2>7
    <3>2. Known(i)
      BY <2>2, <2>5, <3>1
    <3>3. Has(i)
      BY <2>2, <2>5, <2>7, <3>1
    <3>. QED  BY <2>2, <3>2, <3>3
  <2>. QED  BY <2>6, <2>7
<1>4. n \in S
  <2>. HIDE DEF S
  <2>1. 0..n \subseteq S
    BY <1>1, <1>2, <1>3, InductionUpTo
  <2>. QED  BY <1>1, <2>1
<1>. QED  BY <1>4

(* The optimistic updates that are shown are in the optimistic value.      *)
LEMMA OptimisticElements ==
  ASSUME NEW lg \in Seq(Update), NEW st, \A u \in DOMAIN lg : lg[u].id = u,
         \A u \in DOMAIN lg : lg[u].hook = "optimistic" => lg[u].kind = "add",
         NEW u \in DOMAIN lg, lg[u].hook = "optimistic"
  PROVE  u \in ToSet(Screen!OptimisticOf(lg, st)) <=> st[u] = "shown"
<1>1. Len(lg) \in Nat /\ DOMAIN lg = 1..Len(lg) /\ Len(lg) \in 0..Len(lg)
  BY LenProperties
<1>2. PICK base : base = Screen!StateOf(lg, st)
  OBVIOUS
<1>3. base \in State
  BY <1>1, <1>2, AppliedType, EmptyState DEF Screen!StateOf
<1>4. u \notin ToSet(base)
  <2>1. \A x \in ToSet(Screen!Applied(<<>>, lg, st, "state", Len(lg))) :
          x \in ToSet(<<>>) \/ (x \in 1..Len(lg) /\ lg[x].hook = "state" /\ st[x] = "shown")
    <3>1. PICK n \in 0..Len(lg), start \in State, h \in {"state"} :
            n = Len(lg) /\ start = <<>> /\ h = "state"
      BY <1>1, EmptyState
    <3>2. /\ \A x \in ToSet(Screen!Applied(start, lg, st, h, n)) :
               x \in ToSet(start) \/ (x \in 1..n /\ lg[x].hook = h /\ st[x] = "shown")
          /\ (\A v \in DOMAIN lg : lg[v].hook = h => lg[v].kind = "add") =>
               \A v \in 1..n : lg[v].hook = h /\ st[v] = "shown" =>
                 v \in ToSet(Screen!Applied(start, lg, st, h, n))
      BY AppliedElements
    <3>. QED  BY <3>1, <3>2
  <2>. QED  BY <1>2, <2>1, EmptyToSet DEF Screen!StateOf
<1>5. Screen!OptimisticOf(lg, st) = Screen!Applied(base, lg, st, "optimistic", Len(lg))
  BY <1>2 DEF Screen!OptimisticOf
<1>6. /\ \A x \in ToSet(Screen!Applied(base, lg, st, "optimistic", Len(lg))) :
           x \in ToSet(base) \/ (x \in 1..Len(lg) /\ lg[x].hook = "optimistic" /\ st[x] = "shown")
      /\ \A v \in 1..Len(lg) : lg[v].hook = "optimistic" /\ st[v] = "shown" =>
           v \in ToSet(Screen!Applied(base, lg, st, "optimistic", Len(lg)))
  BY <1>1, <1>3, AppliedElements
<1>. QED  BY <1>1, <1>4, <1>5, <1>6
-----------------------------------------------------------------------------
(* What is left in a queue for later has its lane among those computed.    *)
LEMMA ProcessLanes ==
  ASSUME NEW r \in Computed, NEW u \in Update, NoLane \notin renderLanes
  PROVE  /\ r.lanes \subseteq Process(r, u).lanes
         /\ ~Rendered(u) => u.lane \in Process(r, u).lanes
         /\ Rendered(u) /\ u.revertLane \notin renderLanes \cup {NoLane}
              => u.revertLane \in Process(r, u).lanes
<1>. DEFINE applied == [u EXCEPT !.lane = NoLane]
            Reads(lane) ==
              [r EXCEPT !.didReadFromAction = @ \/ lane = scope.lane]
<1>1. \A lane : Reads(lane).lanes = r.lanes /\ Reads(lane) \in Computed
  BY DEF Computed
<1>2. CASE ~Rendered(u)
  <2>1. Process(r, u) = Keep(r, u, u.lane)
    BY <1>2 DEF Process, Rendered
  <2>2. Process(r, u).lanes = r.lanes \cup {u.lane}
    BY <2>1 DEF Keep, Computed
  <2>. QED  BY <1>2, <2>2
<1>3. CASE Rendered(u) /\ u.revertLane = NoLane
  <2>. DEFINE read == [Reads(u.lane) EXCEPT !.baseQueue =
                         IF @ = <<>> THEN @ ELSE Append(@, applied)]
  <2>1. Process(r, u) = Apply(read, u)
    BY <1>3 DEF Process, Rendered
  <2>2. read.lanes = r.lanes /\ DOMAIN read = DOMAIN r
    BY <1>1 DEF Computed
  <2>. HIDE DEF read
  <2>3. Process(r, u).lanes = r.lanes
    BY <2>1, <2>2 DEF Apply, Computed
  <2>. QED  BY <1>3, <2>3
<1>4. CASE Rendered(u) /\ u.revertLane # NoLane /\ u.revertLane \in renderLanes
  <2>1. Process(r, u) = Reads(u.revertLane)
    BY <1>4 DEF Process, Rendered
  <2>. QED  BY <1>1, <1>4, <2>1
<1>5. CASE Rendered(u) /\ u.revertLane # NoLane /\ u.revertLane \notin renderLanes
  <2>1. Process(r, u) = Apply(Keep(r, applied, u.revertLane), u)
    BY <1>5 DEF Process, Rendered
  <2>2. Process(r, u).lanes = r.lanes \cup {u.revertLane}
    BY <2>1 DEF Keep, Apply, Computed
  <2>. QED  BY <1>5, <2>2
<1>. QED  BY <1>2, <1>3, <1>4, <1>5

LEMMA ProcessQueueLanes ==
  ASSUME NEW updates \in Seq(Update), NEW base \in State, NoLane \notin renderLanes,
         NEW e \in ToSet(updates)
  PROVE  /\ ~Rendered(e) => e.lane \in ProcessQueue(updates, base).lanes
         /\ Rendered(e) /\ e.revertLane \notin renderLanes \cup {NoLane}
              => e.revertLane \in ProcessQueue(updates, base).lanes
<1>1. PICK after \in [0..Len(updates) -> Computed] :
        /\ after[0] = Start(base)
        /\ \A n \in 1..Len(updates) : after[n] = Process(after[n - 1], updates[n])
        /\ ProcessQueue(updates, base) = after[Len(updates)]
  BY ProcessQueueSteps
<1>2. PICK k \in Nat : k = Len(updates) /\ DOMAIN updates = 1..k
  BY LenProperties
<1>3. \A n \in 1..k : updates[n] \in Update /\ n - 1 \in 0..k /\ n \in 0..k
  BY <1>2, ElementOfSeq
<1>4. PICK i \in 1..k : updates[i] = e
  BY <1>2 DEF ToSet
<1>. DEFINE Has(n) == /\ ~Rendered(e) => e.lane \in after[n].lanes
                      /\ Rendered(e) /\ e.revertLane \notin renderLanes \cup {NoLane}
                           => e.revertLane \in after[n].lanes
            S == {n \in 0..k : n >= i => Has(n)}
<1>5. ASSUME NEW n \in 1..k
      PROVE  after[n - 1].lanes \subseteq after[n].lanes /\ (n = i => Has(n))
  <2>1. PICK r \in Computed, u \in Update : r = after[n - 1] /\ u = updates[n]
    BY <1>1, <1>2, <1>3
  <2>2. after[n] = Process(r, u)
    BY <1>1, <1>2, <2>1
  <2>3. /\ r.lanes \subseteq Process(r, u).lanes
        /\ ~Rendered(u) => u.lane \in Process(r, u).lanes
        /\ Rendered(u) /\ u.revertLane \notin renderLanes \cup {NoLane}
             => u.revertLane \in Process(r, u).lanes
    BY ProcessLanes
  <2>. QED  BY <1>4, <2>1, <2>2, <2>3
<1>6. 0 \in S
  OBVIOUS
<1>7. ASSUME NEW n \in 1..k, n - 1 \in S PROVE n \in S
  <2>1. CASE n = i
    BY <1>5, <2>1
  <2>2. CASE n < i
    BY <2>2
  <2>3. CASE n > i
    <3>1. Has(n - 1)
      BY <1>7, <2>3
    <3>2. Has(n)
      BY <1>5, <3>1
    <3>. QED  BY <3>2
  <2>. QED  BY <2>1, <2>2, <2>3
<1>. HIDE DEF S
<1>8. k \in S
  <2>1. 0..k \subseteq S
    BY <1>6, <1>7, InductionUpTo
  <2>. QED  BY <2>1
<1>. QED  BY <1>1, <1>2, <1>4, <1>8 DEF S
-----------------------------------------------------------------------------
(* What is asked of the component, of the root, and of the render: the     *)
(* lane that an update waits for has arrived.  The exception are updates   *)
(* whose lanes a bailout has taken off the component: see UpdatesArePending.*)
Arrived == current.lanes \cup LanesOf(concurrentQueues)

RootAwaits ==
  /\ Arrived \subseteq root.pendingLanes
  /\ \A u \in DOMAIN log : log[u].hook = "other" =>
       /\ log[u].revertLane = NoLane
       /\ status[u] = "queued" => log[u].lane \in root.pendingLanes

FiberAwaits ==
  \A u \in DOMAIN log :
    /\ log[u].hook = "state" /\ status[u] = "queued" =>
         log[u].lane \in Arrived \/ ChangesNothing(log, status, u)
    /\ log[u].hook = "optimistic" => log[u].kind = "add"
    /\ log[u].hook = "optimistic" /\ status[u] = "shown" =>
         log[u].revertLane \in current.lanes

RenderAwaits ==
  /\ pc = "skipped" => wip.lanes = current.lanes
  /\ pc = "begun" => \A u \in DOMAIN log :
       /\ log[u].hook = "state" /\ RenderedStatus(u) = "queued" =>
            log[u].lane \in wip.lanes \cup LanesOf(concurrentQueues)
       /\ log[u].hook = "optimistic" /\ RenderedStatus(u) = "shown" =>
            log[u].revertLane \in wip.lanes

AwaitInv == RootAwaits /\ FiberAwaits /\ RenderAwaits

(* An event takes no lane away; a new update's lane arrives.               *)
LanesStep ==
  /\ current.lanes \subseteq current'.lanes /\ wip.lanes \subseteq wip'.lanes
  /\ wip.lanes = current.lanes => wip'.lanes = current'.lanes
  /\ Arrived \subseteq Arrived' /\ Arrived' \subseteq Arrived \cup root'.pendingLanes
  /\ pc # "idle" => LanesOf(concurrentQueues) \subseteq LanesOf(concurrentQueues')

LogsLane(u) ==
  /\ u.hook \in Hooks /\ u.lane # NoLane => u.lane \in LanesOf(concurrentQueues')
  /\ u.hook = "optimistic" => u.kind = "add"
  /\ u.hook = "other" => u.revertLane = NoLane /\ u.lane \in root'.pendingLanes

LEMMA LanesOfAppend ==
  ASSUME NEW updates \in Seq(Update), NEW u \in Update
  PROVE  LanesOf(Append(updates, u)) = LanesOf(updates) \cup ({u.lane} \ {NoLane})
<1>1. ToSet(Append(updates, u)) = ToSet(updates) \cup {u}
  BY AppendToSet
<1>. QED  BY <1>1 DEF LanesOf

LEMMA ScheduleLanes ==
  ASSUME TypeInv, LanesInv, NEW u \in Update, u.lane \in UsedLanes,
         NEW entangled \in SUBSET UsedTransitionLanes, Schedule(u, entangled)
  PROVE  LanesStep /\ u.lane \in LanesOf(concurrentQueues') /\ u.lane \in root'.pendingLanes
<1>1. /\ concurrentQueues' = Append(concurrentQueues, u) /\ u.lane \in root'.pendingLanes
  BY ScheduledUpdate
<1>2. LanesOf(concurrentQueues') = LanesOf(concurrentQueues) \cup {u.lane}
  BY <1>1, LanesOfAppend, LanesInUse, TypeInvParts DEF QueuesOK
<1>3. current'.lanes = current.lanes \cup {u.lane} /\ wip'.lanes = wip.lanes \cup {u.lane}
  <2>1. current \in Fiber /\ wip \in Fiber /\ {u.lane} \in SUBSET UsedLanes
    BY TypeInvParts DEF QueuesOK
  <2>2. current' = Mark(current, {u.lane}) /\ wip' = Mark(wip, {u.lane})
    BY DEF Schedule
  <2>. QED  BY <2>1, <2>2, MarkedFibers
<1>. QED  BY <1>1, <1>2, <1>3 DEF LanesStep, Arrived

LEMMA QuietLanes ==
  ASSUME TypeInv, NEW u \in Update, u.lane = NoLane, EagerlyBailOut(u)
  PROVE  LanesStep
<1>1. concurrentQueues \in Seq(Update) /\ current \in Fiber /\ wip \in Fiber
  BY TypeInvParts DEF QueuesOK
<1>2. LanesOf(Append(concurrentQueues, u)) = LanesOf(concurrentQueues)
  <2>1. LanesOf(Append(concurrentQueues, u))
          = LanesOf(concurrentQueues) \cup ({u.lane} \ {NoLane})
    BY <1>1, LanesOfAppend
  <2>. QED  BY <2>1
<1>3. CASE IsRendering
  <2>1. concurrentQueues' = Append(concurrentQueues, u) /\ UNCHANGED <<current, wip>>
    BY <1>3 DEF EagerlyBailOut
  <2>2. LanesOf(concurrentQueues') = LanesOf(concurrentQueues)
    BY <1>2, <2>1
  <2>. QED  BY <2>1, <2>2 DEF LanesStep, Arrived
<1>4. CASE ~IsRendering
  <2>1. FinishQueueing(Append(concurrentQueues, u)) /\ pc = "idle"
    BY <1>4 DEF EagerlyBailOut, IsRendering
  <2>2. LanesOf(concurrentQueues) \in SUBSET UsedLanes
    BY <1>1, LanesOfType
  <2>3. /\ current'.lanes = current.lanes \cup LanesOf(concurrentQueues)
        /\ wip'.lanes = wip.lanes \cup LanesOf(concurrentQueues)
        /\ concurrentQueues' = <<>>
    BY <1>1, <1>2, <2>1, <2>2, MarkedFibers DEF FinishQueueing
  <2>4. LanesOf(concurrentQueues') = {}
    BY <2>3, EmptyToSet DEF LanesOf
  <2>. QED  BY <2>1, <2>3, <2>4 DEF LanesStep, Arrived
<1>. QED  BY <1>3, <1>4

LEMMA DispatchSetStateLanes ==
  ASSUME TypeInv, LanesInv, NEW kind \in Kinds, NEW eventLane \in EventLanes,
         DispatchSetState(kind, eventLane)
  PROVE  /\ LanesStep
         /\ \A u \in Update, st \in {"queued", "shown"} : Logs(u, st) => LogsLane(u)
<1>. DEFINE lane == UpdateLane(eventLane)
            plain == [id |-> Len(log) + 1, hook |-> "state", kind |-> kind,
                      lane |-> lane, revertLane |-> NoLane, eagerState |-> {}]
            eager == Reduce(lastRenderedState, plain)
            update == [plain EXCEPT !.eagerState = IF NoLanesOnFibers THEN {eager} ELSE {}]
            quiet == [update EXCEPT !.lane = NoLane]
<1>1. lane \in UsedLanes /\ lane # NoLane
  BY UpdateLaneType, LanesInUse
<1>2. kind \in {"add", "keep", "reset"} /\ Len(log) + 1 \in 1..MaxUpdates
  BY TypeInvParts, KindsAssumption, BoundsAssumption, LenProperties DEF LogOK, DispatchSetState
<1>. HIDE DEF lane
<1>3. plain \in Update
  BY <1>1, <1>2 DEF Update, Hooks
<1>4. eager \in State
  BY <1>3, TypeInvParts, ReduceType DEF QueuesOK
<1>5. /\ update \in Update /\ quiet \in Update
      /\ update.hook = "state" /\ quiet.hook = "state" /\ update.lane = lane
      /\ quiet.lane = NoLane
  BY <1>3, <1>4 DEF Update
<1>6. CASE update.eagerState = {lastRenderedState}
  <2>1. /\ EagerlyBailOut(quiet) /\ log' = Append(log, quiet)
        /\ status' = Append(status, "shown")
    BY <1>6 DEF DispatchSetState, update, eager, plain, lane
  <2>. HIDE DEF quiet, update, eager
  <2>2. LanesStep
    BY <1>5, <2>1, QuietLanes
  <2>3. ASSUME NEW u \in Update, NEW st \in {"queued", "shown"}, Logs(u, st)
        PROVE  LogsLane(u)
    <3>1. quiet = u
      BY <1>5, <2>1, <2>3, LoggedLast
    <3>. QED  BY <1>5, <3>1 DEF LogsLane
  <2>. QED  BY <2>2, <2>3
<1>7. CASE update.eagerState # {lastRenderedState}
  <2>. DEFINE entangled == IF lane \in TransitionLanes THEN QueueLanes(lane) ELSE {}
  <2>1. /\ Schedule(update, entangled) /\ log' = Append(log, update)
        /\ status' = Append(status, "queued")
    BY <1>7 DEF DispatchSetState, update, eager, plain, lane
  <2>. HIDE DEF quiet, update, eager
  <2>2. entangled \in SUBSET UsedTransitionLanes
    BY <1>1, TypeInvParts, LanesInUse DEF QueueLanes, QueuesOK
  <2>. HIDE DEF entangled
  <2>3. LanesStep /\ update.lane \in LanesOf(concurrentQueues')
    BY <1>1, <1>5, <2>1, <2>2, ScheduleLanes
  <2>4. ASSUME NEW u \in Update, NEW st \in {"queued", "shown"}, Logs(u, st)
        PROVE  LogsLane(u)
    <3>1. update = u
      BY <1>5, <2>1, <2>4, LoggedLast
    <3>. QED  BY <1>5, <2>3, <3>1 DEF LogsLane
  <2>. QED  BY <2>3, <2>4
<1>. QED  BY <1>6, <1>7

LEMMA DispatchOptimisticLanes ==
  ASSUME TypeInv, LanesInv, DispatchOptimisticSetState
  PROVE  /\ LanesStep
         /\ \A u \in Update, st \in {"queued", "shown"} : Logs(u, st) => LogsLane(u)
<1>1. PICK w : w = [id |-> Len(log) + 1, hook |-> "optimistic", kind |-> "add",
                    lane |-> SyncLane, revertLane |-> RequestedLane, eagerState |-> {}]
  OBVIOUS
<1>2. /\ w \in Update /\ w.lane \in UsedLanes /\ w.kind = "add" /\ w.hook = "optimistic"
      /\ {} \in SUBSET UsedTransitionLanes
  <2>1. Len(log) + 1 \in 1..MaxUpdates
    BY TypeInvParts, BoundsAssumption, LenProperties DEF LogOK, DispatchOptimisticSetState
  <2>2. RequestedLane \in UsedTransitionLanes
    BY RequestedLaneType DEF TypeInv
  <2>. QED  BY <1>1, <2>1, <2>2, LanesInUse DEF Update, Hooks
<1>3. Schedule(w, {}) /\ log' = Append(log, w) /\ status' = Append(status, "queued")
  BY <1>1 DEF DispatchOptimisticSetState
<1>4. LanesStep /\ w.lane \in LanesOf(concurrentQueues')
  BY <1>2, <1>3, ScheduleLanes
<1>5. ASSUME NEW u \in Update, NEW st \in {"queued", "shown"}, Logs(u, st)
      PROVE  LogsLane(u)
  <2>1. w = u
    BY <1>2, <1>3, <1>5, LoggedLast
  <2>. QED  BY <1>2, <1>4, <2>1 DEF LogsLane
<1>. QED  BY <1>4, <1>5

LEMMA UpdateOtherLanes ==
  ASSUME TypeInv, NEW eventLane \in EventLanes, UpdateOther(eventLane)
  PROVE  /\ LanesStep
         /\ \A u \in Update, st \in {"queued", "shown"} : Logs(u, st) => LogsLane(u)
<1>1. PICK w : w = [id |-> Len(log) + 1, hook |-> "other", kind |-> "keep",
                    lane |-> UpdateLane(eventLane), revertLane |-> NoLane, eagerState |-> {}]
  OBVIOUS
<1>2. /\ w \in Update /\ w.lane = UpdateLane(eventLane) /\ w.hook = "other"
      /\ w.revertLane = NoLane /\ w.lane \in UsedLanes
  <2>1. Len(log) + 1 \in 1..MaxUpdates
    BY TypeInvParts, BoundsAssumption, LenProperties DEF LogOK, UpdateOther
  <2>2. UpdateLane(eventLane) \in UsedLanes
    BY UpdateLaneType
  <2>. QED  BY <1>1, <2>1, <2>2 DEF Update, Hooks
<1>3. /\ log' = Append(log, w) /\ status' = Append(status, "queued")
      /\ root' = MarkRootUpdated(root, w.lane)
      /\ UNCHANGED <<concurrentQueues, current, wip>>
  BY <1>1 DEF UpdateOther, queueVars, fiberVars
<1>4. w.lane \in root'.pendingLanes
  BY <1>2, <1>3, TypeInvParts DEF LanesOK, RootRecord, MarkRootUpdated
<1>5. LanesStep
  BY <1>3 DEF LanesStep, Arrived
<1>6. ASSUME NEW u \in Update, NEW st \in {"queued", "shown"}, Logs(u, st)
      PROVE  LogsLane(u)
  <2>1. w = u
    BY <1>2, <1>3, <1>6, LoggedLast
  <2>. QED  BY <1>2, <1>4, <2>1 DEF LogsLane, Hooks
<1>. QED  BY <1>5, <1>6

LEMMA LogsLanes ==
  ASSUME TypeInv, LanesInv, EagerWhenEmpty,
         \/ \E kind \in Kinds, lane \in EventLanes : DispatchSetState(kind, lane)
         \/ DispatchOptimisticSetState
         \/ \E lane \in EventLanes : UpdateOther(lane)
         \/ StartTransition \/ FinishTransition \/ FinishAction \/ SettleAction
         \/ ProcessRootSchedule
  PROVE  /\ EventStep /\ LanesStep
         /\ \/ LogsNothing
            \/ \E u \in Update, st \in {"queued", "shown"} : LogsEagerly(u, st) /\ LogsLane(u)
<1>1. /\ EventStep
      /\ LogsNothing \/ \E u \in Update, st \in {"queued", "shown"} : LogsEagerly(u, st)
  BY EventLogs
<1>2. CASE /\ LanesStep
           /\ \A u \in Update, st \in {"queued", "shown"} : Logs(u, st) => LogsLane(u)
  BY <1>1, <1>2 DEF LogsEagerly
<1>3. CASE \/ StartTransition \/ FinishTransition \/ FinishAction \/ SettleAction
           \/ ProcessRootSchedule
  <2>1. UNCHANGED <<current, wip, concurrentQueues>>
    BY <1>3 DEF StartTransition, FinishTransition, FinishAction, SettleAction,
       ProcessRootSchedule, queueVars, fiberVars
  <2>2. LanesStep
    BY <2>1 DEF LanesStep, Arrived
  <2>3. LogsNothing
    BY <1>3, TransitionStepsAreEvents
  <2>. QED  BY <1>1, <2>2, <2>3
<1>. QED  BY <1>2, <1>3, DispatchSetStateLanes, DispatchOptimisticLanes, UpdateOtherLanes

LEMMA NothingLoggedKeepsAwaits ==
  ASSUME AwaitInv, EventStep, LanesStep, LogsNothing
  PROVE  AwaitInv'
<1>1. /\ UNCHANGED <<log, status, concurrentQueues, seen, renderLanes, pc>>
      /\ root.pendingLanes \subseteq root'.pendingLanes
  BY DEF EventStep, LogsNothing
<1>2. RootAwaits'
  BY <1>1 DEF AwaitInv, RootAwaits, LanesStep
<1>3. FiberAwaits'
  BY <1>1 DEF AwaitInv, FiberAwaits, LanesStep
<1>4. RenderAwaits'
  <2>1. \A u \in DOMAIN log : RenderedStatus(u)' = RenderedStatus(u)
    BY <1>1 DEF RenderedStatus
  <2>. QED  BY <1>1, <2>1 DEF AwaitInv, RenderAwaits, LanesStep
<1>. QED  BY <1>2, <1>3, <1>4 DEF AwaitInv

LEMMA LogsKeepsAwaits ==
  ASSUME TypeInv, TypeInv', WaitInv, ScreenInv, AwaitInv, EventStep, LanesStep,
         NEW u \in Update, NEW st \in {"queued", "shown"}, LogsEagerly(u, st), LogsLane(u)
  PROVE  AwaitInv'
<1>1. /\ Grows(log, status, log', status', u)
      /\ log \in Seq(Update) /\ log' \in Seq(Update) /\ seen \in 0..Len(log)
  BY LogsGrows DEF WaitInv
<1>2. /\ Len(log) \in Nat /\ DOMAIN log = 1..Len(log) /\ u.id = Len(log) + 1
      /\ log'[u.id] = u /\ u.id \in DOMAIN log'
      /\ \A i \in 1..Len(log) : i \in DOMAIN log' /\ log'[i] = log[i] /\ status'[i] = status[i]
      /\ \A i \in DOMAIN log' : i = u.id \/ i \in 1..Len(log)
      /\ status'[u.id] = IF u.lane = NoLane THEN "shown" ELSE "queued"
  BY <1>1, GrownLog
<1>3. /\ UNCHANGED <<seen, renderLanes, pc>> /\ root.pendingLanes \subseteq root'.pendingLanes
  BY DEF EventStep
<1>4. /\ u.hook = "optimistic" => status'[u.id] = "queued"
      /\ u.hook = "state" /\ status'[u.id] = "queued" => u.lane \in LanesOf(concurrentQueues')
  <2>1. u.hook = "optimistic" => u.lane # NoLane
    BY LanesInUse DEF LogsEagerly, Logs
  <2>. QED  BY <1>2, <2>1 DEF LogsLane, Hooks
<1>5. RootAwaits'
  <2>1. Arrived' \subseteq root'.pendingLanes
    BY <1>3 DEF AwaitInv, RootAwaits, LanesStep
  <2>2. ASSUME NEW i \in DOMAIN log', log'[i].hook = "other"
        PROVE  /\ log'[i].revertLane = NoLane
               /\ status'[i] = "queued" => log'[i].lane \in root'.pendingLanes
    <3>1. CASE i = u.id
      BY <1>2, <2>2, <3>1 DEF LogsLane
    <3>2. CASE i \in 1..Len(log)
      BY <1>2, <1>3, <2>2, <3>2 DEF AwaitInv, RootAwaits
    <3>. QED  BY <1>2, <3>1, <3>2
  <2>. QED  BY <2>1, <2>2 DEF RootAwaits
<1>6. FiberAwaits'
  <2>1. ASSUME NEW i \in DOMAIN log'
        PROVE  /\ log'[i].hook = "state" /\ status'[i] = "queued" =>
                    log'[i].lane \in Arrived' \/ ChangesNothing(log', status', i)
               /\ log'[i].hook = "optimistic" => log'[i].kind = "add"
               /\ log'[i].hook = "optimistic" /\ status'[i] = "shown" =>
                    log'[i].revertLane \in current'.lanes
    <3>1. CASE i = u.id
      BY <1>2, <1>4, <3>1 DEF LogsLane, Arrived
    <3>2. CASE i \in 1..Len(log)
      <4>1. log'[i] = log[i] /\ status'[i] = status[i] /\ i \in DOMAIN log
        BY <1>2, <3>2
      <4>2. ChangesNothing(log, status, i) => ChangesNothing(log', status', i)
        BY <1>1, ChangesNothingGrows
      <4>. QED  BY <4>1, <4>2 DEF AwaitInv, FiberAwaits, LanesStep
    <3>. QED  BY <1>2, <2>1, <3>1, <3>2
  <2>. QED  BY <2>1 DEF FiberAwaits
<1>7. RenderAwaits'
  <2>1. ASSUME NEW i \in DOMAIN log', pc = "begun"
        PROVE  /\ log'[i].hook = "state" /\ RenderedStatus(i)' = "queued" =>
                    log'[i].lane \in wip'.lanes \cup LanesOf(concurrentQueues')
               /\ log'[i].hook = "optimistic" /\ RenderedStatus(i)' = "shown" =>
                    log'[i].revertLane \in wip'.lanes
    <3>1. CASE i = u.id
      <4>1. i > seen'
        BY <1>1, <1>2, <1>3, <3>1
      <4>2. RenderedStatus(i)' = status'[u.id]
        BY <3>1, <4>1 DEF RenderedStatus
      <4>. QED  BY <1>2, <1>4, <3>1, <4>2
    <3>2. CASE i \in 1..Len(log)
      <4>1. log'[i] = log[i] /\ i \in DOMAIN log /\ RenderedStatus(i)' = RenderedStatus(i)
        BY <1>2, <1>3, <3>2 DEF RenderedStatus
      <4>. QED  BY <2>1, <4>1 DEF AwaitInv, RenderAwaits, LanesStep
    <3>. QED  BY <1>2, <2>1, <3>1, <3>2
  <2>2. pc = "skipped" => wip'.lanes = current'.lanes
    BY DEF AwaitInv, RenderAwaits, LanesStep
  <2>. QED  BY <1>3, <2>1, <2>2 DEF RenderAwaits
<1>. QED  BY <1>5, <1>6, <1>7 DEF AwaitInv

LEMMA EventKeepsAwaits ==
  ASSUME TypeInv, TypeInv', WaitInv, ScreenInv, AwaitInv, EagerWhenEmpty,
         \/ \E kind \in Kinds, lane \in EventLanes : DispatchSetState(kind, lane)
         \/ DispatchOptimisticSetState
         \/ \E lane \in EventLanes : UpdateOther(lane)
         \/ StartTransition \/ FinishTransition \/ FinishAction \/ SettleAction
         \/ ProcessRootSchedule
  PROVE  AwaitInv'
<1>1. /\ EventStep /\ LanesStep
      /\ \/ LogsNothing
         \/ \E u \in Update, st \in {"queued", "shown"} : LogsEagerly(u, st) /\ LogsLane(u)
  BY LogsLanes DEF WaitInv
<1>. QED  BY <1>1, NothingLoggedKeepsAwaits, LogsKeepsAwaits

(* A render that starts, is skipped or suspends takes no lane away.        *)
LEMMA SameArrivedKeepsAwaits ==
  ASSUME AwaitInv, UNCHANGED <<log, status>>, Arrived' = Arrived,
         current.lanes \subseteq current'.lanes, root'.pendingLanes = root.pendingLanes,
         pc' # "begun", pc' = "skipped" => wip'.lanes = current'.lanes
  PROVE  AwaitInv'
<1>1. RootAwaits' /\ FiberAwaits'
  BY DEF AwaitInv, RootAwaits, FiberAwaits
<1>2. RenderAwaits'
  BY DEF RenderAwaits
<1>. QED  BY <1>1, <1>2 DEF AwaitInv

LEMMA RequeuedLanes ==
  ASSUME TypeInv, concurrentQueues' = <<>>,
         current'.lanes = current.lanes \cup LanesOf(concurrentQueues)
  PROVE  Arrived' = Arrived /\ current.lanes \subseteq current'.lanes
<1>1. LanesOf(concurrentQueues)' = {}
  BY EmptyToSet DEF LanesOf
<1>. QED  BY <1>1 DEF Arrived

LEMMA PrepareFreshStackKeepsAwaits ==
  ASSUME TypeInv, AwaitInv, PrepareFreshStack
  PROVE  AwaitInv'
<1>1. /\ UNCHANGED <<log, status, root>> /\ concurrentQueues' = <<>> /\ pc' = "started"
      /\ current' = Mark(current, LanesOf(concurrentQueues))
  BY DEF PrepareFreshStack, FinishQueueing
<1>2. current'.lanes = current.lanes \cup LanesOf(concurrentQueues)
  <2>1. LanesOf(concurrentQueues) \in SUBSET UsedLanes
    BY TypeInvParts, LanesOfType DEF QueuesOK
  <2>. QED  BY <1>1, <2>1, TypeInvParts, MarkedFibers DEF QueuesOK
<1>. QED  BY <1>1, <1>2, RequeuedLanes, SameArrivedKeepsAwaits

LEMMA BailOutKeepsAwaits ==
  ASSUME AwaitInv, BailOut
  PROVE  AwaitInv'
<1>1. /\ UNCHANGED <<log, status, root, current, concurrentQueues>>
      /\ pc' = "skipped" /\ wip' = current
  BY DEF BailOut, historyVars, queueVars
<1>2. Arrived' = Arrived
  BY <1>1 DEF Arrived
<1>. QED  BY <1>1, <1>2, SameArrivedKeepsAwaits

LEMMA SuspendKeepsAwaits ==
  ASSUME TypeInv, AwaitInv, NEW hooks \in SUBSET Hooks, NEW lanes, Suspend(hooks, lanes),
         UNCHANGED historyVars
  PROVE  AwaitInv'
<1>1. /\ UNCHANGED <<log, status>> /\ concurrentQueues' = <<>> /\ pc' = "idle"
  BY DEF Suspend, historyVars
<1>2. current'.lanes = current.lanes \cup LanesOf(concurrentQueues)
  <2>. DEFINE marked == Mark(current, LanesOf(concurrentQueues))
  <2>1. LanesOf(concurrentQueues) \in SUBSET UsedLanes
    BY TypeInvParts, LanesOfType DEF QueuesOK
  <2>2. marked.lanes = current.lanes \cup LanesOf(concurrentQueues) /\ marked \in Fiber
    BY <2>1, TypeInvParts, MarkedFibers, MarkType DEF QueuesOK
  <2>3. current' = [marked EXCEPT !.hooks =
                      [h \in Hooks |->
                         IF h \in hooks THEN [@[h] EXCEPT !.baseQueue = Merged(h)] ELSE @[h]]]
    BY DEF Suspend
  <2>. HIDE DEF marked
  <2>4. current'.lanes = marked.lanes
    BY <2>2, <2>3 DEF Fiber
  <2>. QED  BY <2>2, <2>4
<1>3. root'.pendingLanes = root.pendingLanes
  BY TypeInvParts DEF Suspend, LanesOK, RootRecord, MarkRootSuspended
<1>. QED  BY <1>1, <1>2, <1>3, RequeuedLanes, SameArrivedKeepsAwaits

(* The component is rendered.  What was queued since is still to come.     *)
LEMMA LaterLane ==
  ASSUME TypeInv, UpdatesByHook, HoldInv, OrderInv, pc = "started", NEW u \in DOMAIN log,
         log[u].hook = "state", status[u] = "queued", u > seen
  PROVE  log[u].lane \in LanesOf(concurrentQueues)
<1>1. log[u].lane # NoLane
  BY DEF UpdatesByHook
<1>2. PICK e \in Update : IsEntry(e, log[u], status[u]) /\ e \in ToSet(concurrentQueues)
  BY TakenEntry DEF Hooks
<1>3. e.lane = log[u].lane
  BY <1>2 DEF IsEntry
<1>. QED  BY <1>1, <1>2, <1>3 DEF LanesOf

(* What a render leaves for later has its lane on the new fiber.           *)
LEMMA LeftLanes ==
  ASSUME TypeInv, UpdatesByHook, HoldInv, OrderInv, pc = "started",
         NoLane \notin renderLanes, Unseen(log, status, seen), NEW u \in DOMAIN log
  PROVE  /\ log[u].hook = "state" /\ RenderedStatus(u) = "queued" =>
              log[u].lane \in RenderedState.lanes \cup LanesOf(concurrentQueues)
         /\ log[u].hook = "optimistic" /\ RenderedStatus(u) = "shown" =>
              log[u].revertLane \in RenderedOptimistic.lanes
<1>1. /\ log[u] \in Update /\ u \in Nat /\ seen \in Nat
      /\ status[u] \in {"queued", "shown", "dropped"}
  BY UpdateInLog
<1>2. /\ "state" \in Hooks /\ "optimistic" \in Hooks
      /\ Merged("state") \in Seq(Update) /\ Merged("optimistic") \in Seq(Update)
      /\ current.hooks["state"].baseState \in State
  BY QueuesType DEF Hooks
<1>3. RenderedState.state \in State
  <2>1. RenderedState \in Computed
    BY <1>2, ProcessQueueType DEF RenderedState
  <2>. QED  BY <2>1 DEF Computed
<1>4. ASSUME log[u].hook = "state", RenderedStatus(u) = "queued"
      PROVE  log[u].lane \in RenderedState.lanes \cup LanesOf(concurrentQueues)
  <2>1. status[u] = "queued" /\ log[u].lane # NoLane
    BY <1>1, <1>4 DEF RenderedStatus, UpdatesByHook
  <2>2. CASE u > seen
    BY <1>4, <2>1, <2>2, LaterLane
  <2>3. CASE u <= seen
    <3>1. ~(u > seen)
      BY <1>1, <2>3
    <3>2. log[u].lane \notin renderLanes
      BY <1>4, <2>1, <3>1 DEF RenderedStatus
    <3>3. PICK e \in Update : IsEntry(e, log[u], status[u]) /\ e \in ToSet(Merged("state"))
      BY <1>2, <1>4, <2>1, <2>3, TakenEntry
    <3>4. e.lane = log[u].lane /\ ~Rendered(e)
      BY <2>1, <3>2, <3>3 DEF IsEntry, Rendered
    <3>5. e.lane \in RenderedState.lanes
      BY <1>2, <3>3, <3>4, ProcessQueueLanes DEF RenderedState
    <3>. QED  BY <3>4, <3>5
  <2>. QED  BY <1>1, <2>2, <2>3
<1>5. ASSUME log[u].hook = "optimistic", RenderedStatus(u) = "shown"
      PROVE  log[u].revertLane \in RenderedOptimistic.lanes
  <2>1. log[u].lane = SyncLane /\ SyncLane # NoLane /\ log[u].revertLane # NoLane
    BY <1>5, LanesInUse DEF UpdatesByHook
  <2>2. ~(u > seen) /\ u <= seen /\ status[u] # "dropped"
    BY <1>1, <1>5, <2>1 DEF RenderedStatus, Unseen
  <2>3. log[u].revertLane \notin renderLanes
    BY <1>5, <2>2 DEF RenderedStatus
  <2>4. status[u] = "queued" => log[u].lane \in renderLanes
    BY <1>5, <2>2, <2>3 DEF RenderedStatus
  <2>5. PICK e \in Update : IsEntry(e, log[u], status[u]) /\ e \in ToSet(Merged("optimistic"))
    BY <1>2, <1>5, <2>2, TakenEntry
  <2>6. e.revertLane = log[u].revertLane /\ Rendered(e)
    BY <2>4, <2>5 DEF IsEntry, Rendered
  <2>7. e.revertLane \in RenderedOptimistic.lanes
    BY <1>2, <1>3, <2>1, <2>3, <2>5, <2>6, ProcessQueueLanes DEF RenderedOptimistic
  <2>. QED  BY <2>6, <2>7
<1>. QED  BY <1>4, <1>5

(* What a render shows that leaves the values as they are.                 *)
LEMMA SameStateChangesNothing ==
  ASSUME TypeInv, UpdatesByHook, NoLane \notin renderLanes,
         Screen!StateOf(log, RenderStatuses) = Screen!StateOf(log, status),
         NEW u \in DOMAIN log, log[u].hook = "state", status[u] = "queued",
         u <= seen, log[u].lane \in renderLanes
  PROVE  ChangesNothing(log, status, u)
<1>. DEFINE updates == {v \in QueuedOf(log, status) : RenderStatuses[v] = "shown"}
<1>1. log \in Seq(Update)
  BY TypeInvParts DEF LogOK
<1>2. ASSUME NEW v \in DOMAIN log, log[v].hook = "state"
      PROVE  RenderStatuses[v] = "shown" <=> v \in updates \/ status[v] = "shown"
  <2>1. status[v] \in {"queued", "shown"}
    BY <1>2 DEF UpdatesByHook
  <2>2. status[v] = "shown" => RenderStatuses[v] = "shown"
    BY <1>2, ShownStays
  <2>. QED  BY <1>2, <2>1, <2>2 DEF QueuedOf
<1>3. u \in updates
  <2>1. ~(u > seen)
    BY UpdateInLog
  <2>2. log[u].revertLane \notin renderLanes
    BY DEF UpdatesByHook
  <2>3. RenderStatuses[u] = "shown"
    BY <2>1, <2>2 DEF RenderStatuses, RenderedStatus
  <2>. QED  BY <2>3 DEF QueuedOf
<1>4. updates \in SUBSET QueuedOf(log, status)
  OBVIOUS
<1>. HIDE DEF updates
<1>5. PICK more : more = MoreShown(log, status, updates)
  OBVIOUS
<1>6. \A v \in DOMAIN log :
        log[v].hook = "state" => (RenderStatuses[v] = "shown" <=> more[v] = "shown")
  BY <1>2, <1>5 DEF MoreShown
<1>7. Screen!StateOf(log, RenderStatuses) = Screen!StateOf(log, more)
  BY <1>1, <1>6, StateSame
<1>. QED  BY <1>3, <1>4, <1>5, <1>7 DEF ChangesNothing

LEMMA SameOptimisticIsKept ==
  ASSUME TypeInv, UpdatesByHook, Unseen(log, status, seen), FiberAwaits,
         Screen!OptimisticOf(log, RenderStatuses) = Screen!OptimisticOf(log, status),
         NEW u \in DOMAIN log, log[u].hook = "optimistic", status[u] = "shown"
  PROVE  log[u].revertLane \notin renderLanes
<1>1. /\ log \in Seq(Update) /\ u \in Nat /\ seen \in Nat
  BY TypeInvParts, UpdateInLog DEF LogOK
<1>2. ~(u > seen)
  BY LanesInUse DEF Unseen, UpdatesByHook
<1>3. /\ \A v \in DOMAIN log : log[v].id = v
      /\ \A v \in DOMAIN log : log[v].hook = "optimistic" => log[v].kind = "add"
  BY DEF UpdatesByHook, FiberAwaits
<1>4. /\ u \in ToSet(Screen!OptimisticOf(log, status)) <=> status[u] = "shown"
      /\ u \in ToSet(Screen!OptimisticOf(log, RenderStatuses)) <=> RenderStatuses[u] = "shown"
  BY <1>1, <1>3, OptimisticElements
<1>5. RenderStatuses[u] = "shown"
  BY <1>4
<1>. QED  BY <1>2, <1>5 DEF RenderStatuses, RenderedStatus

LEMMA CompletedLanes ==
  ASSUME NEW newProps, Complete(RenderedState, RenderedOptimistic, newProps)
  PROVE  /\ wip'.lanes = RenderedState.lanes \cup RenderedOptimistic.lanes
         /\ wip'.hooks["state"].memoizedState = RenderedState.state
         /\ wip'.hooks["optimistic"].memoizedState = RenderedOptimistic.state
         /\ \/ current'.lanes = current.lanes
            \/ /\ current'.lanes = current.lanes \ renderLanes
               /\ \/ Merged("state") = <<>>
                  \/ RenderedState.state = current.hooks["state"].memoizedState
               /\ \/ Merged("optimistic") = <<>>
                  \/ RenderedOptimistic.state = current.hooks["optimistic"].memoizedState
<1>. DEFINE result == [state |-> RenderedState, optimistic |-> RenderedOptimistic]
            DidReceiveUpdate(h) ==
              Merged(h) # <<>> /\ result[h].state # current.hooks[h].memoizedState
            bailsOut == ~newProps /\ \A h \in Hooks : ~DidReceiveUpdate(h)
<1>1. /\ result["state"] = RenderedState /\ result["optimistic"] = RenderedOptimistic
      /\ "state" \in Hooks /\ "optimistic" \in Hooks
  BY DEF Hooks
<1>2. /\ current'.lanes = IF bailsOut THEN current.lanes \ renderLanes ELSE current.lanes
      /\ wip'.lanes = RenderedState.lanes \cup RenderedOptimistic.lanes
      /\ \A h \in Hooks : wip'.hooks[h] = NewHook(result[h])
  BY DEF Complete
<1>. HIDE DEF result
<1>3. wip'.hooks["state"] = NewHook(RenderedState)
      /\ wip'.hooks["optimistic"] = NewHook(RenderedOptimistic)
  BY <1>1, <1>2
<1>4. bailsOut =>
        /\ Merged("state") = <<>> \/ RenderedState.state = current.hooks["state"].memoizedState
        /\ \/ Merged("optimistic") = <<>>
           \/ RenderedOptimistic.state = current.hooks["optimistic"].memoizedState
  BY <1>1
<1>. HIDE DEF bailsOut
<1>. QED  BY <1>2, <1>3, <1>4 DEF NewHook

LEMMA CompleteKeepsAwaits ==
  ASSUME TypeInv, WaitInv, ScreenInv, ScreenInv', AwaitInv, NEW newProps, pc = "started",
         Complete(RenderedState, RenderedOptimistic, newProps), UNCHANGED historyVars
  PROVE  AwaitInv'
<1>1. /\ UNCHANGED <<log, status, seen, concurrentQueues, renderLanes, root>> /\ pc' = "begun"
  BY DEF Complete, historyVars
<1>2. /\ UpdatesByHook /\ HoldInv /\ OrderInv /\ SyncInv
      /\ NoLane \notin renderLanes
      /\ Shows(log, seen, current.hooks, pending, concurrentQueues, status)
      /\ Eager(log, status) /\ Unseen(log, status, seen)
      /\ RootAwaits /\ FiberAwaits
  BY TypeInvParts, LanesInUse DEF LanesOK, WaitInv, ScreenInv, AwaitInv
<1>3. /\ wip'.lanes = RenderedState.lanes \cup RenderedOptimistic.lanes
      /\ wip'.hooks["state"].memoizedState = RenderedState.state
      /\ wip'.hooks["optimistic"].memoizedState = RenderedOptimistic.state
      /\ \/ current'.lanes = current.lanes
         \/ /\ current'.lanes = current.lanes \ renderLanes
            /\ \/ Merged("state") = <<>>
               \/ RenderedState.state = current.hooks["state"].memoizedState
            /\ \/ Merged("optimistic") = <<>>
               \/ RenderedOptimistic.state = current.hooks["optimistic"].memoizedState
  BY CompletedLanes
<1>4. /\ current.hooks["state"].memoizedState = Screen!StateOf(log, status)
      /\ current.hooks["optimistic"].memoizedState = Screen!OptimisticOf(log, status)
  BY <1>2, ShownValues
<1>5. /\ RenderedState.state = Screen!StateOf(log, RenderStatuses)
      /\ RenderedOptimistic.state = Screen!OptimisticOf(log, RenderStatuses)
  <2>1. RenderStatuses' = RenderStatuses
    BY <1>1 DEF RenderStatuses, RenderedStatus
  <2>2. Shows(log, seen, wip'.hooks, pending', concurrentQueues, RenderStatuses)
    BY <1>1, <2>1 DEF ScreenInv
  <2>. QED  BY <1>3, <2>2, ShownValues
<1>6. RootAwaits'
  <2>1. Arrived' \subseteq Arrived
    BY <1>1, <1>3 DEF Arrived
  <2>. QED  BY <1>1, <1>2, <2>1 DEF RootAwaits
<1>7. FiberAwaits'
  <2>1. CASE current'.lanes = current.lanes
    BY <1>1, <1>2, <2>1 DEF FiberAwaits, Arrived
  <2>2. CASE /\ current'.lanes = current.lanes \ renderLanes
             /\ \/ Merged("state") = <<>>
                \/ RenderedState.state = current.hooks["state"].memoizedState
             /\ \/ Merged("optimistic") = <<>>
                \/ RenderedOptimistic.state = current.hooks["optimistic"].memoizedState
    <3>1. Screen!StateOf(log, RenderStatuses) = Screen!StateOf(log, status)
      <4>1. CASE Merged("state") = <<>>
        <5>1. \A e \in ToSet(Merged("state")) : e.lane = NoLane
          BY <4>1, EmptyToSet
        <5>2. RenderedState.state = Value("state")
          BY <1>2, <5>1, NothingTaken
        <5>. QED  BY <1>4, <1>5, <5>2 DEF Value
      <4>2. CASE RenderedState.state = current.hooks["state"].memoizedState
        BY <1>4, <1>5, <4>2
      <4>. QED  BY <2>2, <4>1, <4>2
    <3>2. ASSUME NEW u \in DOMAIN log, log[u].hook = "state", status[u] = "queued"
          PROVE  log[u].lane \in Arrived' \/ ChangesNothing(log, status, u)
      <4>1. u \in Nat /\ seen \in Nat
        BY UpdateInLog
      <4>2. CASE u > seen
        BY <1>1, <1>2, <3>2, <4>2, LaterLane DEF Arrived
      <4>3. CASE log[u].lane \notin renderLanes
        BY <1>1, <1>2, <2>2, <3>2, <4>3 DEF FiberAwaits, Arrived
      <4>4. CASE u <= seen /\ log[u].lane \in renderLanes
        BY <1>2, <3>1, <3>2, <4>4, SameStateChangesNothing
      <4>. QED  BY <4>1, <4>2, <4>3, <4>4
    <3>3. ASSUME NEW u \in DOMAIN log, log[u].hook = "optimistic", status[u] = "shown"
          PROVE  log[u].revertLane \in current'.lanes
      <4>1. log[u].revertLane \in current.lanes
        BY <1>2, <3>3 DEF FiberAwaits
      <4>2. Merged("optimistic") # <<>>
        <5>1. u \in Nat /\ seen \in Nat
          BY UpdateInLog
        <5>2. ~(u > seen)
          BY <1>2, <3>3, LanesInUse DEF Unseen, UpdatesByHook
        <5>3. \E e \in Update : e \in ToSet(Merged("optimistic"))
          BY <1>2, <3>3, <5>1, <5>2, TakenEntry DEF Hooks
        <5>. QED  BY <5>3, EmptyToSet
      <4>3. Screen!OptimisticOf(log, RenderStatuses) = Screen!OptimisticOf(log, status)
        BY <1>4, <1>5, <2>2, <4>2
      <4>4. log[u].revertLane \notin renderLanes
        BY <1>2, <3>3, <4>3, SameOptimisticIsKept
      <4>. QED  BY <2>2, <4>1, <4>4
    <3>. QED  BY <1>1, <1>2, <3>2, <3>3 DEF FiberAwaits
  <2>. QED  BY <1>3, <2>1, <2>2
<1>8. RenderAwaits'
  <2>1. \A u \in DOMAIN log : RenderedStatus(u)' = RenderedStatus(u)
    BY <1>1 DEF RenderedStatus
  <2>2. ASSUME NEW u \in DOMAIN log
        PROVE  /\ log[u].hook = "state" /\ RenderedStatus(u) = "queued" =>
                    log[u].lane \in wip'.lanes \cup LanesOf(concurrentQueues)
               /\ log[u].hook = "optimistic" /\ RenderedStatus(u) = "shown" =>
                    log[u].revertLane \in wip'.lanes
    BY <1>2, <1>3, LeftLanes
  <2>. QED  BY <1>1, <2>1, <2>2 DEF RenderAwaits
<1>. QED  BY <1>6, <1>7, <1>8 DEF AwaitInv

LEMMA RenderComponentKeepsAwaits ==
  ASSUME TypeInv, WaitInv, ScreenInv, ScreenInv', AwaitInv, NEW newProps \in BOOLEAN,
         RenderComponent(newProps)
  PROVE  AwaitInv'
<1>1. /\ pc = "started" /\ UNCHANGED historyVars
      /\ \/ Suspend({"state"}, {}) \/ Suspend(Hooks, {})
         \/ Complete(RenderedState, RenderedOptimistic, newProps)
  BY DEF RenderComponent, RenderedState, RenderedOptimistic, PassthroughBase
<1>2. {"state"} \in SUBSET Hooks /\ Hooks \in SUBSET Hooks
  BY DEF Hooks
<1>. QED  BY <1>1, <1>2, SuspendKeepsAwaits, CompleteKeepsAwaits

LEMMA CommitKeepsAwaits ==
  ASSUME TypeInv, WaitInv, AwaitInv, Commit
  PROVE  AwaitInv'
<1>1. /\ UNCHANGED log /\ pc \in {"begun", "skipped"} /\ pc' = "idle"
      /\ concurrentQueues' = <<>> /\ current' = Mark(wip, LanesOf(concurrentQueues))
      /\ status' = [u \in DOMAIN status |-> StatusAfter(u)]
      /\ root' = MarkRootFinished(root, current'.lanes \cup OtherLanes(status'))
  BY DEF Commit
<1>2. /\ LogOK /\ QueuesOK /\ LanesOK /\ DOMAIN status = DOMAIN log /\ NoLane \notin renderLanes
      /\ RootAwaits /\ FiberAwaits /\ RenderAwaits /\ log \in Seq(Update)
  BY TypeInvParts, LenProperties, LanesInUse DEF LogOK, LanesOK, AwaitInv
<1>3. current'.lanes = wip.lanes \cup LanesOf(concurrentQueues)
  <2>1. LanesOf(concurrentQueues) \in SUBSET UsedLanes
    BY <1>2, LanesOfType DEF QueuesOK
  <2>. QED  BY <1>1, <1>2, <2>1, MarkedFibers DEF QueuesOK
<1>4. Arrived' = current'.lanes
  <2>1. LanesOf(concurrentQueues)' = {}
    BY <1>1, EmptyToSet DEF LanesOf
  <2>. QED  BY <2>1 DEF Arrived
<1>5. root'.pendingLanes = current'.lanes \cup OtherLanes(status')
  BY <1>1, <1>2 DEF LanesOK, RootRecord, MarkRootFinished
<1>6. RootAwaits'
  <2>1. ASSUME NEW u \in DOMAIN log, log[u].hook = "other"
        PROVE  /\ log[u].revertLane = NoLane
               /\ status'[u] = "queued" => log[u].lane \in root'.pendingLanes
    BY <1>2, <1>5, <2>1 DEF RootAwaits, OtherLanes
  <2>. QED  BY <1>1, <1>4, <1>5, <2>1 DEF RootAwaits
<1>7. FiberAwaits'
  <2>1. ASSUME NEW u \in DOMAIN log
        PROVE  /\ log[u].hook = "state" /\ status'[u] = "queued" =>
                    log[u].lane \in current'.lanes \/ ChangesNothing(log, status', u)
               /\ log[u].hook = "optimistic" /\ status'[u] = "shown" =>
                    log[u].revertLane \in current'.lanes
    <3>1. CASE pc = "begun"
      <4>1. status'[u] = RenderedStatus(u)
        BY <1>1, <1>2, <3>1 DEF StatusAfter, RenderedStatus
      <4>. QED  BY <1>2, <1>3, <3>1, <4>1 DEF RenderAwaits
    <3>2. CASE pc = "skipped"
      <4>1. \A v \in DOMAIN log : log[v].hook \in Hooks => status'[v] = status[v]
        BY <1>1, <1>2, <3>2 DEF StatusAfter
      <4>2. current'.lanes = Arrived
        BY <1>2, <1>3, <3>2 DEF RenderAwaits, Arrived
      <4>3. \A v \in DOMAIN log : log[v].hook = "state" => status'[v] = status[v]
        BY <4>1 DEF Hooks
      <4>4. ChangesNothing(log, status, u) => ChangesNothing(log, status', u)
        BY <1>2, <4>3, ChangesNothingSame
      <4>. QED  BY <1>2, <4>1, <4>2, <4>4 DEF FiberAwaits, Arrived, Hooks
    <3>. QED  BY <1>1, <3>1, <3>2
  <2>. QED  BY <1>1, <1>2, <1>4, <2>1 DEF FiberAwaits
<1>8. RenderAwaits'
  BY <1>1 DEF RenderAwaits
<1>. QED  BY <1>6, <1>7, <1>8 DEF AwaitInv

LEMMA AwaitInit == Init => AwaitInv
<1>. SUFFICES ASSUME Init PROVE AwaitInv
  OBVIOUS
<1>1. log = <<>> /\ pc = "idle" /\ concurrentQueues = <<>> /\ current.lanes = {}
  BY DEF Init, InitialFiber
<1>2. DOMAIN log = {} /\ Arrived = {}
  BY <1>1, EmptyToSet DEF Arrived, LanesOf
<1>. QED  BY <1>1, <1>2 DEF AwaitInv, RootAwaits, FiberAwaits, RenderAwaits

LEMMA AwaitStep ==
  TypeInv /\ WaitInv /\ ScreenInv /\ AwaitInv /\ [Next /\ EagerWhenEmpty]_vars => AwaitInv'
<1>. SUFFICES ASSUME TypeInv, WaitInv, ScreenInv, AwaitInv, [Next /\ EagerWhenEmpty]_vars
              PROVE  AwaitInv'
  OBVIOUS
<1>1. TypeInv' /\ ScreenInv'
  BY TypeStep, ScreenStep
<1>2. CASE /\ EagerWhenEmpty
           /\ \/ \E kind \in Kinds, lane \in EventLanes : DispatchSetState(kind, lane)
              \/ DispatchOptimisticSetState
              \/ \E lane \in EventLanes : UpdateOther(lane)
              \/ StartTransition \/ FinishTransition \/ FinishAction \/ SettleAction
              \/ ProcessRootSchedule
  BY <1>1, <1>2, EventKeepsAwaits
<1>3. CASE Render
  <2>1. ASSUME SuspendInOther PROVE AwaitInv'
    <3>1. Suspend({}, wip.lanes) /\ UNCHANGED historyVars /\ {} \in SUBSET Hooks
      BY <2>1 DEF SuspendInOther
    <3>. QED  BY <3>1, SuspendKeepsAwaits
  <2>. QED  BY <1>1, <1>3, <2>1, PrepareFreshStackKeepsAwaits, BailOutKeepsAwaits,
            CommitKeepsAwaits, RenderComponentKeepsAwaits DEF Render
<1>4. CASE UNCHANGED vars
  <2>1. UNCHANGED <<log, status, seen, concurrentQueues, current, wip, root, renderLanes, pc>>
    BY <1>4 DEF vars, historyVars, queueVars, fiberVars, renderVars
  <2>2. RootAwaits' /\ FiberAwaits'
    BY <2>1 DEF AwaitInv, RootAwaits, FiberAwaits, Arrived
  <2>3. RenderAwaits'
    BY <2>1 DEF AwaitInv, RenderAwaits, RenderedStatus
  <2>. QED  BY <2>2, <2>3 DEF AwaitInv
<1>. QED  BY <1>2, <1>3, <1>4 DEF Next

LEMMA AwaitsArePending ==
  ASSUME TypeInv, WaitInv, ScreenInv, AwaitInv
  PROVE  UpdatesArePending
<1>. SUFFICES ASSUME NEW u \in DOMAIN log
              PROVE  \/ Awaits(u) \subseteq root.pendingLanes
                     \/ \E updates \in SUBSET QueuedStates :
                          u \in updates /\ Value("state") = StateWith(updates)
  BY DEF UpdatesArePending
<1>1. /\ RootAwaits /\ FiberAwaits /\ UpdatesByHook /\ SyncInv
      /\ current.lanes \subseteq root.pendingLanes /\ Arrived \subseteq root.pendingLanes
  BY DEF AwaitInv, WaitInv, RootAwaits, Arrived
<1>2. log[u].hook \in Hooks \cup {"other"} /\ status[u] \in {"queued", "shown", "dropped"}
  BY UpdateInLog
<1>3. Awaits(u) = IF status[u] = "queued" THEN {log[u].lane}
                  ELSE IF status[u] = "shown" THEN {log[u].revertLane} \ {NoLane} ELSE {}
  BY <1>2 DEF Awaits
<1>4. CASE log[u].hook = "other"
  BY <1>1, <1>2, <1>3, <1>4 DEF RootAwaits
<1>5. CASE log[u].hook = "optimistic"
  BY <1>1, <1>2, <1>3, <1>5 DEF FiberAwaits, SyncInv, UpdatesByHook
<1>6. CASE log[u].hook = "state"
  <2>1. CASE ChangesNothing(log, status, u)
    <3>1. PICK updates \in SUBSET QueuedOf(log, status) :
            /\ u \in updates
            /\ Screen!StateOf(log, status) = Screen!StateOf(log, MoreShown(log, status, updates))
      BY <2>1 DEF ChangesNothing
    <3>2. updates \in SUBSET QueuedStates
      BY DEF QueuedOf, QueuedStates
    <3>3. Value("state") = Screen!StateOf(log, status)
      BY ShownValues DEF ScreenInv, Value
    <3>4. Screen!StateOf(log, MoreShown(log, status, updates)) = StateWith(updates)
      BY DEF Screen!StateOf, StateWith, MoreShown
    <3>. QED  BY <3>1, <3>2, <3>3, <3>4
  <2>2. CASE ~ChangesNothing(log, status, u)
    BY <1>1, <1>2, <1>3, <1>6, <2>2 DEF FiberAwaits, UpdatesByHook
  <2>. QED  BY <2>1, <2>2
<1>. QED  BY <1>2, <1>4, <1>5, <1>6 DEF Hooks

(* If a state is computed eagerly only when every update to the state has  *)
(* been shown, no update is forgotten: the lane that it waits for is among *)
(* the root's pending lanes, or it is one of updates that together change  *)
(* nothing.                                                                *)
THEOREM HookQueueUpdatesArePending == EmptyQueueSpec => []UpdatesArePending
<1>1. [Next /\ EagerWhenEmpty]_vars => [Next]_vars
  OBVIOUS
<1>2. TypeInv /\ WaitInv /\ ScreenInv /\ AwaitInv => UpdatesArePending
  BY AwaitsArePending
<1>. QED  BY <1>1, <1>2, TypeInit, TypeStep, WaitInit, WaitStep, ScreenInit, ScreenStep,
          AwaitInit, AwaitStep, PTL DEF EmptyQueueSpec
=============================================================================
