------------------------------ MODULE MCGitService ------------------------------
(* A repository of two commits, the second of which is main: clean, and dev is at  *)
(* the first; with a staged file, and no dev; or detached, with an edited file, and *)
(* two histories that have nothing in common.                                      *)
EXTENDS GitService, TLC

CONSTANTS f1, f2, main, dev

First == (f1 :> "a") @@ (f2 :> "a")
Second == (f1 :> "b") @@ (f2 :> "a")
Changed == [Second EXCEPT ![f2] = "b"]
Repository(parent, refs, head, index, work) ==
  [commits |-> <<[tree |-> First, parent |-> 0], [tree |-> Second, parent |-> parent]>>,
   refs |-> refs, head |-> head, at |-> 2, index |-> index, work |-> work, stale |-> FALSE]
MCStart ==
  {Repository(1, (main :> 2) @@ (dev :> 1), main, Second, Second),
   Repository(1, main :> 2, main, Changed, Changed),
   Repository(0, (main :> 2) @@ (dev :> 1), Detached, Second, Changed)}
================================================================================
