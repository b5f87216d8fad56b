------------------------------- MODULE GitService -------------------------------
(***************************************************************************)
(* GitService on one repository: mutations, reviews and patches of several *)
(* callers in one process, who share the repository's asyncio lock, and    *)
(* people who use git and an editor in the same working tree without it.   *)
(*                                                                         *)
(* A service call is a sequence of git commands with an await at each.     *)
(* Commands that only validate (_repository, _prepare_mutation,            *)
(* _branch_name, _paths) leave nothing behind but the permission to go on  *)
(* and are one step that may fail.  A tree gives every file a version; a   *)
(* deleted file is a version as well.                                      *)
(***************************************************************************)
EXTENDS Integers, Sequences, FiniteSets, FiniteSetsExt

CONSTANTS
  Callers,      \* concurrent requests and agent runs
  Files,
  Versions,     \* contents of a file
  Branches,     \* names of branches
  Start,        \* repositories to start from
  Detached,     \* HEAD names no branch
  Free,         \* nobody holds the lock
  MaxCalls,     \* bound: service calls
  MaxOthers,    \* bound: steps of other people
  MaxFaults     \* bound: commands that fail, time out or are cancelled

\* A review's mode is the base branch, or one of two words that name no branch.
ASSUME GitAssumption ==
  /\ Detached \notin Branches /\ Free \notin Callers
  /\ "unstaged" \notin Branches /\ "staged" \notin Branches

VARIABLES
  repo,    \* commits, refs, head, at, index, work, and a stale index.lock
  lock,    \* holder of repository_lock
  call,    \* Callers -> the call in progress, or the last one
  used     \* calls, steps of others and faults so far

vars == <<repo, lock, call, used>>

Kinds == {"stage", "unstage", "commit", "checkout", "create_branch", "patch", "review"}

\* files and branch: what the call is about.  mode: what a review compares; for a
\* branch, revisions are the two commits.  seen: the index that commit looked at.
\* disturbed: somebody outside the service wrote while the call held the lock.
NoCall == [kind |-> "none", pc |-> "idle", result |-> "none", files |-> {}, branch |-> Detached,
           mode |-> "unstaged", revisions |-> <<>>, patches |-> {}, seen |-> <<>>,
           disturbed |-> FALSE]

Trees == [Files -> Versions]

\* A commit's parent is an earlier commit, 0 for a root; HEAD names a branch that
\* exists, or a commit.
WellFormed(r) ==
  LET commits == 1 .. Len(r.commits) IN
  /\ r \in [commits : Seq([tree : Trees, parent : Nat]),
            refs : UNION {[bs -> commits] : bs \in SUBSET Branches},
            head : Branches \cup {Detached}, at : commits,
            index : Trees, work : Trees, stale : BOOLEAN]
  /\ \A n \in commits : r.commits[n].parent < n
  /\ r.head \in DOMAIN r.refs \cup {Detached}

ASSUME StartAssumption == \A r \in Start : WellFormed(r)

--------------------------------------------------------------------------------
(* What the git commands do *)

HeadCommit(r) == IF r.head = Detached THEN r.at ELSE r.refs[r.head]
HeadTree(r) == r.commits[HeadCommit(r)].tree
Clean(r) == r.work = HeadTree(r) /\ r.index = HeadTree(r)

Ancestors(r, n) ==
  LET before[m \in 0 .. Len(r.commits)] ==
        IF m = 0 THEN {} ELSE {m} \cup before[r.commits[m].parent]
  IN before[n]

\* There are no merges, so common ancestors are in one line; without any the
\* command fails.
Common(r, m, n) == Ancestors(r, m) \cap Ancestors(r, n)
MergeBase(r, m, n) == Max(Common(r, m, n))

Added(r, fs) == [r EXCEPT !.index = [f \in Files |-> IF f \in fs THEN r.work[f] ELSE @[f]]]
Restored(r, fs) ==
  [r EXCEPT !.index = [f \in Files |-> IF f \in fs THEN HeadTree(r)[f] ELSE @[f]]]

CanCommit(r) == r.index # HeadTree(r)
Committed(r) ==
  LET n == Len(r.commits) + 1 IN
  [r EXCEPT !.commits = Append(@, [tree |-> r.index, parent |-> HeadCommit(r)]),
            !.refs = IF r.head = Detached THEN @ ELSE [@ EXCEPT ![r.head] = n],
            !.at = n]

\* git switch carries uncommitted changes over: of the files in which the two trees
\* differ, one that is clean is replaced, one whose index has the new version
\* already is left alone, and any other makes it refuse.
Target(r, b) == r.commits[r.refs[b]].tree
Differing(r, b) == {f \in Files : HeadTree(r)[f] # Target(r, b)[f]}
CanSwitch(r, b) ==
  /\ b \in DOMAIN r.refs
  /\ \A f \in Differing(r, b) : \/ r.index[f] = HeadTree(r)[f] /\ r.work[f] = HeadTree(r)[f]
                               \/ r.index[f] = Target(r, b)[f]
Replaced(r, b) == {f \in Differing(r, b) : r.index[f] = HeadTree(r)[f]}
Checked(r, b, fs) == [f \in Files |-> IF f \in fs THEN Target(r, b)[f] ELSE r.work[f]]
Switched(r, b) ==
  [r EXCEPT !.head = b, !.at = r.refs[b], !.work = Checked(r, b, Replaced(r, b)),
            !.index = [f \in Files |-> IF f \in Differing(r, b) THEN Target(r, b)[f] ELSE @[f]]]

Branched(r, b) ==
  [r EXCEPT !.refs = [x \in DOMAIN r.refs \cup {b} |->
                        IF x = b THEN HeadCommit(r) ELSE r.refs[x]]]

\* The files and versions `git diff` lists between two trees.
Diff(old, new) ==
  {[file |-> f, old |-> old[f], new |-> new[f]] : f \in {g \in Files : old[g] # new[g]}}

\* What a review compares, given the commits of a branch review.
ReviewDiff(r, mode, revisions) ==
  IF mode = "unstaged" THEN Diff(r.index, r.work)
  ELSE IF mode = "staged" THEN Diff(HeadTree(r), r.index)
  ELSE Diff(r.commits[revisions[1]].tree, r.commits[revisions[2]].tree)

--------------------------------------------------------------------------------
(* Calls *)

Init ==
  /\ repo \in Start
  /\ lock = Free
  /\ call = [c \in Callers |-> NoCall]
  /\ used = [calls |-> 0, others |-> 0, faults |-> 0]

Fault == used.faults < MaxFaults /\ used' = [used EXCEPT !.faults = @ + 1]

At(c, pc) == call[c].pc = pc
Goto(c, pc) == call' = [call EXCEPT ![c].pc = pc]

\* The call returns or raises, and leaves the lock.
End(c, result) ==
  /\ call' = [call EXCEPT ![c].pc = "idle", ![c].result = result]
  /\ lock' = Free

Call(c) ==
  /\ At(c, "idle") /\ used.calls < MaxCalls
  /\ used' = [used EXCEPT !.calls = @ + 1]
  /\ \E kind \in Kinds, fs \in SUBSET Files \ {{}}, b \in Branches,
        mode \in {"unstaged", "staged"} \cup Branches :
       /\ kind \notin {"stage", "unstage", "patch"} => fs = Files
       /\ kind \notin {"checkout", "create_branch"} => b = CHOOSE x \in Branches : TRUE
       /\ kind # "review" => mode = "unstaged"
       /\ call' = [call EXCEPT ![c] = [NoCall EXCEPT !.kind = kind, !.pc = "waiting",
                     !.files = fs, !.branch = b, !.mode = mode]]
  /\ UNCHANGED <<repo, lock>>

\* Faulty variant: the call does not wait for the lock.
EnterUnlocked(c) ==
  /\ At(c, "waiting")
  /\ lock' = c /\ Goto(c, "prepare")
  /\ UNCHANGED <<repo, used>>

\* async with self.repository_lock(path)
Enter(c) ==
  /\ At(c, "waiting") /\ lock = Free
  /\ lock' = c /\ Goto(c, "prepare")
  /\ UNCHANGED <<repo, used>>

\* The validating commands have passed.
Prepare(c) ==
  /\ At(c, "prepare")
  /\ Goto(c, CASE call[c].kind = "review" ->
                    (IF call[c].mode \in Branches THEN "base" ELSE "names")
               [] call[c].kind = "patch" -> "write"
               [] call[c].kind \in {"commit", "checkout"} -> "check"
               [] OTHER -> "mutate")
  /\ UNCHANGED <<repo, lock, used>>

\* Faulty variant: checkout leaves it to git whether the tree is clean.
CheckBranchOnly(c) ==
  /\ At(c, "check") /\ UNCHANGED <<repo, used>>
  /\ LET passes == IF call[c].kind = "checkout" THEN call[c].branch \in DOMAIN repo.refs
                   ELSE repo.head # Detached /\ CanCommit(repo) IN
     \/ /\ passes
        /\ call' = [call EXCEPT ![c].pc = "mutate", ![c].seen = repo.index]
        /\ lock' = lock
     \/ ~passes /\ End(c, "error")

\* checkout: status is clean and the branch exists; commit: HEAD is on a branch
\* and something is staged.
Check(c) ==
  /\ At(c, "check") /\ UNCHANGED <<repo, used>>
  /\ LET passes == IF call[c].kind = "checkout"
                   THEN Clean(repo) /\ call[c].branch \in DOMAIN repo.refs
                   ELSE repo.head # Detached /\ CanCommit(repo) IN
     \/ /\ passes
        /\ call' = [call EXCEPT ![c].pc = "mutate", ![c].seen = repo.index]
        /\ lock' = lock
     \/ ~passes /\ End(c, "error")

\* The command that writes: is it possible, and what does it leave?
Possible(c) ==
  LET k == call[c].kind IN
  /\ k # "create_branch" => ~repo.stale
  /\ k = "commit" => CanCommit(repo)
  /\ k = "checkout" => CanSwitch(repo, call[c].branch)
  /\ k = "create_branch" => call[c].branch \notin DOMAIN repo.refs

Effect(c) ==
  CASE call[c].kind = "stage" -> Added(repo, call[c].files)
    [] call[c].kind = "unstage" -> Restored(repo, call[c].files)
    [] call[c].kind = "commit" -> Committed(repo)
    [] call[c].kind = "checkout" -> Switched(repo, call[c].branch)
    [] call[c].kind = "create_branch" -> Branched(repo, call[c].branch)

\* What a killed command leaves: nothing or all of its effect; a switch may have
\* replaced some files only.  git's own index.lock may stay behind.
Interrupted(c) ==
  LET b == call[c].branch
      partial == IF call[c].kind # "checkout" THEN {}
                 ELSE {[repo EXCEPT !.work = Checked(repo, b, fs)] : fs \in SUBSET Replaced(repo, b)}
  IN {[r EXCEPT !.stale = stale] : r \in {repo, Effect(c)} \cup partial,
        stale \in IF call[c].kind = "create_branch" THEN {repo.stale} ELSE BOOLEAN}

\* It is killed at its timeout, or when the caller is cancelled.
Mutate(c) ==
  /\ At(c, "mutate")
  /\ \/ /\ Possible(c)
        /\ repo' = Effect(c) /\ Goto(c, "report") /\ UNCHANGED <<lock, used>>
     \/ ~Possible(c) /\ End(c, "error") /\ UNCHANGED <<repo, used>>
     \/ Possible(c) /\ Fault /\ End(c, "error") /\ repo' \in Interrupted(c)

\* The status, or the new HEAD, that is returned is read after the mutation.
Report(c) ==
  /\ At(c, "report") /\ End(c, "ok") /\ UNCHANGED <<repo, used>>

\* Any other command fails, or the caller is cancelled, also while it waits.
Fail(c) ==
  /\ ~At(c, "idle") /\ ~At(c, "mutate") /\ Fault
  /\ call' = [call EXCEPT ![c].pc = "idle", ![c].result = "error"]
  /\ lock' = IF lock = c THEN Free ELSE lock
  /\ UNCHANGED repo

--------------------------------------------------------------------------------
(* review_diff *)

\* rev-parse of the base ref.
ResolveBase(c) ==
  /\ At(c, "base") /\ UNCHANGED <<repo, used>>
  /\ \/ /\ call[c].mode \in DOMAIN repo.refs
        /\ call' = [call EXCEPT ![c].pc = "ancestor", ![c].revisions = <<repo.refs[call[c].mode]>>]
        /\ lock' = lock
     \/ call[c].mode \notin DOMAIN repo.refs /\ End(c, "error")

\* HEAD and the merge base, as commit IDs.
ResolveRange(c) ==
  LET base == call[c].revisions[1]
      head == HeadCommit(repo) IN
  /\ At(c, "ancestor") /\ UNCHANGED <<repo, used>>
  /\ \/ /\ Common(repo, base, head) # {} /\ lock' = lock
        /\ call' = [call EXCEPT ![c].pc = "names",
                                ![c].revisions = <<MergeBase(repo, base, head), head>>]
     \/ Common(repo, base, head) = {} /\ End(c, "error")

\* diff --name-only
Names(c) ==
  LET fs == {d.file : d \in ReviewDiff(repo, call[c].mode, call[c].revisions)} IN
  /\ At(c, "names") /\ UNCHANGED <<repo, used>>
  /\ \/ fs = {} /\ End(c, "ok")
     \/ /\ fs # {} /\ lock' = lock
        /\ call' = [call EXCEPT ![c].pc = "patches", ![c].files = fs]

\* Faulty variant: the patch of a branch review is taken up to the HEAD of now.
ReadPatchToHead(c) ==
  /\ At(c, "patches") /\ UNCHANGED <<repo, used>>
  /\ LET f == CHOOSE f \in call[c].files : TRUE
         now == [k \in DOMAIN call[c].revisions |->
                   IF k = 2 THEN HeadCommit(repo) ELSE call[c].revisions[k]]
         patch == {d \in ReviewDiff(repo, call[c].mode, now) : d.file = f} IN
     /\ call' = [call EXCEPT ![c].patches = @ \cup patch, ![c].files = @ \ {f},
                  ![c].pc = IF call[c].files = {f} THEN "idle" ELSE @,
                  ![c].result = IF call[c].files = {f} THEN "ok" ELSE @]
     /\ lock' = IF call[c].files = {f} THEN Free ELSE lock

\* One `git diff` for the next of the names; it may be empty by now.
ReadPatch(c) ==
  /\ At(c, "patches") /\ UNCHANGED <<repo, used>>
  /\ LET f == CHOOSE f \in call[c].files : TRUE
         patch == {d \in ReviewDiff(repo, call[c].mode, call[c].revisions) : d.file = f} IN
     /\ call' = [call EXCEPT ![c].patches = @ \cup patch, ![c].files = @ \ {f},
                  ![c].pc = IF call[c].files = {f} THEN "idle" ELSE @,
                  ![c].result = IF call[c].files = {f} THEN "ok" ELSE @]
     /\ lock' = IF call[c].files = {f} THEN Free ELSE lock

--------------------------------------------------------------------------------
(* PatchService, under the same lock: see module PatchService *)

WriteFile(c) ==
  /\ At(c, "write")
  /\ \E f \in call[c].files, v \in Versions :
       /\ repo' = [repo EXCEPT !.work[f] = v]
       /\ call' = [call EXCEPT ![c].files = @ \ {f},
                    ![c].pc = IF call[c].files = {f} THEN "diff" ELSE @]
  /\ UNCHANGED <<lock, used>>

\* Faulty variant: git diff waits for the lock its caller holds.
DiffLocked(c) ==
  /\ At(c, "diff") /\ lock = Free /\ End(c, "ok") /\ UNCHANGED <<repo, used>>

\* `git diff`, still under the lock; it takes none itself.
DiffOfPatch(c) ==
  /\ At(c, "diff") /\ End(c, "ok") /\ UNCHANGED <<repo, used>>

--------------------------------------------------------------------------------
(* Others *)

\* Somebody edits a file, or uses git, outside the service.
Other ==
  /\ used.others < MaxOthers /\ used' = [used EXCEPT !.others = @ + 1]
  /\ \/ \E f \in Files, v \in Versions : repo' = [repo EXCEPT !.work[f] = v]
     \/ /\ ~repo.stale
        /\ \/ \E f \in Files : repo' = Added(repo, {f})
           \/ CanCommit(repo) /\ repo' = Committed(repo)
           \/ \E b \in Branches : CanSwitch(repo, b) /\ repo' = Switched(repo, b)
  /\ repo' # repo
  /\ call' = [c \in Callers |-> IF lock = c THEN [call[c] EXCEPT !.disturbed = TRUE] ELSE call[c]]
  /\ lock' = lock

Step(c) ==
  \/ Prepare(c) \/ Check(c) \/ Mutate(c) \/ Report(c)
  \/ ResolveBase(c) \/ ResolveRange(c) \/ Names(c) \/ ReadPatch(c)
  \/ WriteFile(c) \/ DiffOfPatch(c)

Next == (\E c \in Callers : Call(c) \/ Enter(c) \/ Step(c) \/ Fail(c)) \/ Other

\* asyncio.Lock wakes its waiters in order; every git command ends, if only by
\* its timeout.
Spec == Init /\ [][Next]_vars /\ \A c \in Callers : SF_vars(Enter(c)) /\ WF_vars(Step(c))

--------------------------------------------------------------------------------
(* Properties *)

Inside(c) == call[c].pc \notin {"idle", "waiting"}

Calls == [kind : Kinds \cup {"none"},
          pc : {"idle", "waiting", "prepare", "check", "mutate", "report", "base", "ancestor",
                "names", "patches", "write", "diff"},
          result : {"none", "ok", "error"}, files : SUBSET Files,
          branch : Branches \cup {Detached}, mode : {"unstaged", "staged"} \cup Branches,
          revisions : Seq(Nat), patches : SUBSET [file : Files, old : Versions, new : Versions],
          seen : Trees \cup {<<>>}, disturbed : BOOLEAN]

\* Variables hold values of their types, the repository stays well formed, and the
\* lock belongs to the one call that is past it.
TypeOK ==
  /\ WellFormed(repo)
  /\ call \in [Callers -> Calls]
  /\ \A c \in Callers : Inside(c) <=> lock = c

Ends(c, kind) ==
  call[c].kind = kind /\ Inside(c) /\ call'[c].pc = "idle" /\ call'[c].result = "ok"

\* The patches a review collected, one git command each, are the diff of one
\* moment: for a branch review of the two commits it resolved, whatever anybody
\* does meanwhile; and of what is there when it ends, if only the service wrote.
ReviewIsSnapshot ==
  [][\A c \in Callers : Ends(c, "review") =>
       /\ call[c].mode \in Branches =>
            call'[c].patches = ReviewDiff(repo, call[c].mode, call[c].revisions)
       /\ ~call[c].disturbed =>
            call'[c].patches = ReviewDiff(repo, call[c].mode,
              IF call[c].mode \notin Branches THEN <<>>
              ELSE <<MergeBase(repo, repo.refs[call[c].mode], HeadCommit(repo)),
                     HeadCommit(repo)>>)]_vars

\* A commit of the service records on a branch the very index that was found to
\* have staged changes, unless somebody outside the service changed it since.
CommitsWhatWasStaged ==
  [][\A c \in Callers :
       At(c, "mutate") /\ call[c].kind = "commit" /\ repo'.commits # repo.commits
         /\ ~call[c].disturbed =>
           /\ repo'.commits[Len(repo'.commits)].tree = call[c].seen
           /\ repo'.head # Detached]_vars

\* A checkout ends on a clean tree of the branch it was asked for, unless somebody
\* outside the service was at work: no uncommitted change is carried over.
CheckoutStartsClean ==
  [][\A c \in Callers : Ends(c, "checkout") /\ ~call[c].disturbed =>
       repo.head = call[c].branch /\ Clean(repo)]_vars

\* Every call ends, also those that wait for the lock.
CallsEnd == \A c \in Callers : At(c, "waiting") ~> At(c, "idle")
================================================================================
