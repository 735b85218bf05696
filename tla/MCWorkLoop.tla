----------------------------- MODULE MCWorkLoop -----------------------------
(***************************************************************************)
(* WorkLoop for TLC: three transition lanes and three retry lanes, and the *)
(* environments of the runs.                                               *)
(***************************************************************************)
EXTENDS WorkLoop, TLC

CONSTANTS r1, r2

MCLanes == {1, 5, 7, 8, 9, 22, 23, 24, 28}

(* One root; nothing but updates in events, data and errors.               *)
Plain ==
  [roots |-> {r1}, eventLanes |-> {1, 7}, layoutUpdates |-> FALSE,
   contents |-> {"plain"}, popState |-> FALSE, timeOuts |-> FALSE,
   suspendsCommits |-> FALSE, storesTear |-> FALSE, errorsThrow |-> FALSE]

(* Two roots, commits that the host delays.                                *)
Suspending ==
  [Plain EXCEPT !.roots = {r1, r2}, !.layoutUpdates = TRUE,
                !.contents = {"plain", "inner", "shell", "root"},
                !.popState = TRUE, !.suspendsCommits = TRUE]

(* Errors, stores that tear, tasks that expire, and the lane of idle work. *)
Failing ==
  [Plain EXCEPT !.eventLanes = {1, 5, 7, 28}, !.layoutUpdates = TRUE,
                !.contents = {"plain", "shell", "root", "error"},
                !.popState = TRUE, !.timeOuts = TRUE, !.storesTear = TRUE,
                !.errorsThrow = TRUE]

AllEnvironments == {Suspending, Failing}
Loading == {[Plain EXCEPT !.contents = {"shell", "root"}]}
Recovering == {[Plain EXCEPT !.contents = {"root", "error"}]}
Throwing ==
  {[Plain EXCEPT !.eventLanes = {1}, !.layoutUpdates = TRUE,
                 !.contents = {"plain", "error"}, !.errorsThrow = TRUE]}

(* One root; the host delays commits, boundaries are mounted and a         *)
(* component suspends at the root.                                         *)
Delaying ==
  {[Plain EXCEPT !.eventLanes = {1}, !.contents = {"inner", "root"},
                 !.suspendsCommits = TRUE]}

(* Roots are alike: no property is about their order.                      *)
RootsAreAlike == Permutations({r1, r2})

(* A stack is dead when it has been committed or unwound, and so is a tree *)
(* whose commit is not delayed.                                            *)
RelevantState ==
  <<screenVars, queueVars, root, pendingCommit, listenerVars, flagVars,
    isFlushingWork, callbackVars, claimVars, frameVars,
    IF wip.root = NoRoot /\ pc # "exit" THEN <<>> ELSE wip,
    [r \in Roots |-> IF pendingCommit[r] = "no" THEN <<>> ELSE finished[r]]>>
=============================================================================
