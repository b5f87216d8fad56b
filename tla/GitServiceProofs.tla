---------------------------- MODULE GitServiceProofs ----------------------------
(* The lock makes everything the holder knows of the repository stay true until *)
(* somebody outside the service writes; of the commits a branch review resolved, *)
(* it stays true even then, for no command changes a commit.                    *)
EXTENDS GitService, WellFoundedInduction, SequenceTheorems, TLAPS

--------------------------------------------------------------------------------
(* Induction on natural numbers, with a set in place of a predicate. *)

\* A set of natural numbers that is not empty has a least one.
LEMMA NatMin ==
  ASSUME NEW T, T \subseteq Nat, T # {}
  PROVE  \E n \in T : \A m \in T : n <= m
<1> DEFINE R == OpToRel(<, Nat)
<1>1. IsWellFoundedOn(R, Nat)
  BY NatLessThanWellFounded
<1>2. \E x \in T : \A y \in T : ~(<<y, x>> \in R)
  <2> HIDE DEF R
  <2> QED BY <1>1, WFMin
<1>3. \A x, y \in Nat : y < x => <<y, x>> \in R
  BY DEF OpToRel
<1> HIDE DEF R
<1>4. PICK n \in T : \A m \in T : ~(<<m, n>> \in R)
  BY <1>2
<1>5. \A m \in T : ~(m < n)
  BY <1>3, <1>4
<1> QED BY <1>5

\* A set that has 0, and with each number the next, has every natural number.
LEMMA NatSetInduction ==
  ASSUME NEW S, 0 \in S, \A n \in Nat : n \in S => n + 1 \in S
  PROVE  Nat \subseteq S
<1> SUFFICES ASSUME Nat \ S # {} PROVE FALSE
  OBVIOUS
<1>1. PICK n \in Nat \ S : \A m \in Nat \ S : n <= m
  <2>1. Nat \ S \subseteq Nat
    OBVIOUS
  <2> QED BY <2>1, NatMin
<1>2. n # 0
  OBVIOUS
<1>3. n - 1 \in Nat /\ ~(n <= n - 1) /\ (n - 1) + 1 = n
  BY <1>2
<1>4. n - 1 \in S
  BY <1>1, <1>3
<1> QED BY <1>3, <1>4

\* A set of numbers up to n that is not empty has a greatest one.
LEMMA NatMax ==
  ASSUME NEW n \in Nat, NEW T, T \subseteq 0 .. n, T # {}
  PROVE  \E m \in T : \A k \in T : m >= k
<1> DEFINE U == {d \in Nat : n - d \in T}
<1>1. PICK t \in T : TRUE
  OBVIOUS
<1>2. n - t \in U
  BY <1>1
<1>3. PICK d \in U : \A e \in U : d <= e
  <2>1. U \subseteq Nat /\ U # {}
    BY <1>2
  <2> HIDE DEF U
  <2> QED BY <2>1, NatMin
<1>4. \A k \in T : n - k \in U
  OBVIOUS
<1>5. n - d \in T /\ \A k \in T : d <= n - k /\ k \in Nat /\ d \in Nat
  BY <1>3, <1>4
<1> QED BY <1>5

--------------------------------------------------------------------------------

\* Which calls reach which place.
KindInv(k) ==
  /\ k.pc # "idle" => k.kind \in Kinds /\ k.branch \in Branches
  /\ k.pc = "check" => k.kind \in {"commit", "checkout"}
  /\ k.pc \in {"mutate", "report"} => k.kind \in Kinds \ {"patch", "review"}
  /\ k.pc \in {"write", "diff"} => k.kind = "patch"
  /\ k.pc \in {"base", "ancestor", "names", "patches"} => k.kind = "review"
  /\ k.pc \in {"base", "ancestor"} => k.mode \in Branches

\* What commit and checkout found is still there.
MutationInv(k, r) ==
  ~k.disturbed =>
    /\ k.pc = "mutate" /\ k.kind = "commit" => k.seen = r.index /\ r.head # Detached
    /\ k.pc = "mutate" /\ k.kind = "checkout" => Clean(r)
    /\ k.pc = "report" /\ k.kind = "checkout" => r.head = k.branch /\ Clean(r)

Revisions(k, r) == <<MergeBase(r, r.refs[k.mode], HeadCommit(r)), HeadCommit(r)>>

\* The commits of a branch review exist, and are those of its branch and of HEAD.
RangeInv(k, r) ==
  /\ k.pc = "ancestor" =>
       /\ k.revisions[1] \in 1 .. Len(r.commits)
       /\ ~k.disturbed => k.revisions[1] = r.refs[k.mode]
  /\ k.pc \in {"names", "patches"} /\ k.mode \in Branches =>
       /\ k.revisions[1] \in 1 .. Len(r.commits) /\ k.revisions[2] \in 1 .. Len(r.commits)
       /\ ~k.disturbed => k.revisions = Revisions(k, r)

\* The patches collected are those of the names that are done.
PatchesInv(k, r) ==
  /\ k.pc \in {"waiting", "prepare", "base", "ancestor", "names"} => k.patches = {}
  /\ k.pc = "patches" /\ (k.mode \in Branches \/ ~k.disturbed) =>
       k.patches = {d \in ReviewDiff(r, k.mode, k.revisions) : d.file \notin k.files}

CallInv(k, r) == KindInv(k) /\ MutationInv(k, r) /\ RangeInv(k, r) /\ PatchesInv(k, r)

GInv == TypeOK /\ \A c \in Callers : CallInv(call[c], repo)

--------------------------------------------------------------------------------
(* The git commands keep a repository well formed *)

\* What is known of the parts of a repository.
LEMMA Parts ==
  ASSUME NEW r, WellFormed(r)
  PROVE  /\ r.commits \in Seq([tree : Trees, parent : Nat])
         /\ Len(r.commits) \in Nat
         /\ \A n \in 1 .. Len(r.commits) : /\ r.commits[n].tree \in Trees
                                           /\ r.commits[n].parent \in 0 .. n - 1
         /\ DOMAIN r.refs \subseteq Branches
         /\ r.refs \in [DOMAIN r.refs -> 1 .. Len(r.commits)]
         /\ r.head \in DOMAIN r.refs \cup {Detached}
         /\ r.at \in 1 .. Len(r.commits)
         /\ r.index \in Trees /\ r.work \in Trees /\ r.stale \in BOOLEAN
         /\ HeadCommit(r) \in 1 .. Len(r.commits)
         /\ HeadTree(r) \in Trees
<1>1. /\ r.commits \in Seq([tree : Trees, parent : Nat])
      /\ r.refs \in UNION {[bs -> 1 .. Len(r.commits)] : bs \in SUBSET Branches}
      /\ r.head \in DOMAIN r.refs \cup {Detached}
      /\ r.at \in 1 .. Len(r.commits)
      /\ r.index \in Trees /\ r.work \in Trees /\ r.stale \in BOOLEAN
  BY DEF WellFormed
<1>2. \A n \in 1 .. Len(r.commits) : r.commits[n].parent < n
  BY DEF WellFormed
<1>3. \A n \in 1 .. Len(r.commits) : /\ r.commits[n].tree \in Trees
                                     /\ r.commits[n].parent \in 0 .. n - 1
  <2> TAKE n \in 1 .. Len(r.commits)
  <2>1. r.commits[n] \in [tree : Trees, parent : Nat]
    BY <1>1, ElementOfSeq
  <2> QED BY <1>2, <2>1
<1>4. PICK bs \in SUBSET Branches : r.refs \in [bs -> 1 .. Len(r.commits)]
  BY <1>1
<1>5. DOMAIN r.refs \subseteq Branches /\ r.refs \in [DOMAIN r.refs -> 1 .. Len(r.commits)]
  BY <1>4
<1>6. HeadCommit(r) \in 1 .. Len(r.commits)
  BY <1>1, <1>5 DEF HeadCommit
<1>7. HeadTree(r) \in Trees
  BY <1>3, <1>6 DEF HeadTree
<1> QED BY <1>1, <1>3, <1>5, <1>6, <1>7, LenProperties

\* A repository put together from such parts is well formed.
LEMMA Whole ==
  ASSUME NEW r,
         r = [commits |-> r.commits, refs |-> r.refs, head |-> r.head, at |-> r.at,
              index |-> r.index, work |-> r.work, stale |-> r.stale],
         r.commits \in Seq([tree : Trees, parent : Nat]),
         \A n \in 1 .. Len(r.commits) : r.commits[n].parent < n,
         DOMAIN r.refs \subseteq Branches,
         r.refs \in [DOMAIN r.refs -> 1 .. Len(r.commits)],
         r.head \in DOMAIN r.refs \cup {Detached}, r.at \in 1 .. Len(r.commits),
         r.index \in Trees, r.work \in Trees, r.stale \in BOOLEAN
  PROVE  WellFormed(r)
<1>1. r.refs \in UNION {[bs -> 1 .. Len(r.commits)] : bs \in SUBSET Branches}
  OBVIOUS
<1>2. r.head \in Branches \cup {Detached}
  OBVIOUS
<1>3. r \in [commits : Seq([tree : Trees, parent : Nat]),
            refs : UNION {[bs -> 1 .. Len(r.commits)] : bs \in SUBSET Branches},
            head : Branches \cup {Detached}, at : 1 .. Len(r.commits),
            index : Trees, work : Trees, stale : BOOLEAN]
  BY <1>1, <1>2, Zenon
<1> QED BY <1>3, Zenon DEF WellFormed

\* A well-formed repository is the record of its parts.
LEMMA Record ==
  ASSUME NEW r, WellFormed(r)
  PROVE  r = [commits |-> r.commits, refs |-> r.refs, head |-> r.head, at |-> r.at,
              index |-> r.index, work |-> r.work, stale |-> r.stale]
  BY Zenon DEF WellFormed

\* Another index, working tree, or leftover index.lock.
LEMMA SameHistory ==
  ASSUME NEW r, WellFormed(r), NEW s,
         s = [commits |-> r.commits, refs |-> r.refs, head |-> r.head, at |-> r.at,
              index |-> s.index, work |-> s.work, stale |-> s.stale],
         s.index \in Trees, s.work \in Trees, s.stale \in BOOLEAN
  PROVE  WellFormed(s)
<1>1. \A n \in 1 .. Len(r.commits) : r.commits[n].parent < n
  BY DEF WellFormed
<1>2. s.commits = r.commits /\ s.refs = r.refs /\ s.head = r.head /\ s.at = r.at
  BY SMT
<1>3. /\ s.commits \in Seq([tree : Trees, parent : Nat])
      /\ DOMAIN s.refs \subseteq Branches
      /\ s.refs \in [DOMAIN s.refs -> 1 .. Len(s.commits)]
      /\ s.head \in DOMAIN s.refs \cup {Detached} /\ s.at \in 1 .. Len(s.commits)
  BY <1>2, Parts
<1> QED BY <1>1, <1>2, <1>3, Whole

\* What an assignment to one field of a repository leaves of the others.
LEMMA Assigned ==
  ASSUME NEW r, NEW x,
         r = [commits |-> r.commits, refs |-> r.refs, head |-> r.head, at |-> r.at,
              index |-> r.index, work |-> r.work, stale |-> r.stale]
  PROVE   /\ [r EXCEPT !.commits = x] =
              [commits |-> x, refs |-> r.refs, head |-> r.head, at |-> r.at,
               index |-> r.index, work |-> r.work, stale |-> r.stale]
         /\ [r EXCEPT !.refs = x] =
              [commits |-> r.commits, refs |-> x, head |-> r.head, at |-> r.at,
               index |-> r.index, work |-> r.work, stale |-> r.stale]
         /\ [r EXCEPT !.head = x] =
              [commits |-> r.commits, refs |-> r.refs, head |-> x, at |-> r.at,
               index |-> r.index, work |-> r.work, stale |-> r.stale]
         /\ [r EXCEPT !.at = x] =
              [commits |-> r.commits, refs |-> r.refs, head |-> r.head, at |-> x,
               index |-> r.index, work |-> r.work, stale |-> r.stale]
         /\ [r EXCEPT !.index = x] =
              [commits |-> r.commits, refs |-> r.refs, head |-> r.head, at |-> r.at,
               index |-> x, work |-> r.work, stale |-> r.stale]
         /\ [r EXCEPT !.work = x] =
              [commits |-> r.commits, refs |-> r.refs, head |-> r.head, at |-> r.at,
               index |-> r.index, work |-> x, stale |-> r.stale]
         /\ [r EXCEPT !.stale = x] =
              [commits |-> r.commits, refs |-> r.refs, head |-> r.head, at |-> r.at,
               index |-> r.index, work |-> r.work, stale |-> x]
<1> DEFINE a == r.commits
           b == r.refs
           c == r.head
           d == r.at
           e == r.index
           f == r.work
           g == r.stale
<1>1. r = [commits |-> a, refs |-> b, head |-> c, at |-> d, index |-> e, work |-> f, stale |-> g]
  OBVIOUS
<1> HIDE DEF a, b, c, d, e, f, g
<1>2. /\ [r EXCEPT !.commits = x] =
           [commits |-> x, refs |-> b, head |-> c, at |-> d,
            index |-> e, work |-> f, stale |-> g]
      /\ [r EXCEPT !.refs = x] =
           [commits |-> a, refs |-> x, head |-> c, at |-> d,
            index |-> e, work |-> f, stale |-> g]
      /\ [r EXCEPT !.head = x] =
           [commits |-> a, refs |-> b, head |-> x, at |-> d,
            index |-> e, work |-> f, stale |-> g]
      /\ [r EXCEPT !.at = x] =
           [commits |-> a, refs |-> b, head |-> c, at |-> x,
            index |-> e, work |-> f, stale |-> g]
      /\ [r EXCEPT !.index = x] =
           [commits |-> a, refs |-> b, head |-> c, at |-> d,
            index |-> x, work |-> f, stale |-> g]
      /\ [r EXCEPT !.work = x] =
           [commits |-> a, refs |-> b, head |-> c, at |-> d,
            index |-> e, work |-> x, stale |-> g]
      /\ [r EXCEPT !.stale = x] =
           [commits |-> a, refs |-> b, head |-> c, at |-> d,
            index |-> e, work |-> f, stale |-> x]
  BY <1>1, SMT
<1> QED BY <1>2, Zenon DEF a, b, c, d, e, f, g

\* No command changes a commit.
Extends(r, s) ==
  /\ Len(r.commits) <= Len(s.commits)
  /\ \A n \in 1 .. Len(r.commits) : s.commits[n] = r.commits[n]

\* What a command may do to a repository.
Sound(r, s) == WellFormed(s) /\ Extends(r, s)

\* A command that makes no commit extends the history.
LEMMA ExtendsSelf ==
  ASSUME NEW r, WellFormed(r), NEW s, s.commits = r.commits
  PROVE  Extends(r, s)
  BY Parts DEF Extends

\* git add writes the index only.
LEMMA AddedSound ==
  ASSUME NEW r, WellFormed(r), NEW fs \in SUBSET Files
  PROVE  Sound(r, Added(r, fs)) /\ Added(r, fs).commits = r.commits
<1> DEFINE index == [f \in Files |-> IF f \in fs THEN r.work[f] ELSE r.index[f]]
<1>1. index \in Trees
  BY Parts DEF Trees
<1>2. Added(r, fs) = [commits |-> r.commits, refs |-> r.refs, head |-> r.head, at |-> r.at,
                      index |-> index, work |-> r.work, stale |-> r.stale]
  <2>1. Added(r, fs) = [r EXCEPT !.index = index]
    BY Zenon DEF Added
  <2> HIDE DEF index
  <2>2. r = [commits |-> r.commits, refs |-> r.refs, head |-> r.head, at |-> r.at,
             index |-> r.index, work |-> r.work, stale |-> r.stale]
    BY Record, Zenon
  <2> QED BY <2>1, <2>2, Assigned, Zenon
<1> HIDE DEF index
<1>3. WellFormed(Added(r, fs))
  BY <1>1, <1>2, Parts, SameHistory
<1> QED BY <1>2, <1>3, ExtendsSelf DEF Sound

\* git restore --staged writes the index only.
LEMMA RestoredSound ==
  ASSUME NEW r, WellFormed(r), NEW fs \in SUBSET Files
  PROVE  Sound(r, Restored(r, fs))
<1> DEFINE index == [f \in Files |-> IF f \in fs THEN HeadTree(r)[f] ELSE r.index[f]]
<1>1. index \in Trees
  BY Parts DEF Trees
<1>2. Restored(r, fs) = [commits |-> r.commits, refs |-> r.refs, head |-> r.head, at |-> r.at,
                         index |-> index, work |-> r.work, stale |-> r.stale]
  <2>1. Restored(r, fs) = [r EXCEPT !.index = index]
    BY Zenon DEF Restored
  <2> HIDE DEF index
  <2>2. r = [commits |-> r.commits, refs |-> r.refs, head |-> r.head, at |-> r.at,
             index |-> r.index, work |-> r.work, stale |-> r.stale]
    BY Record, Zenon
  <2> QED BY <2>1, <2>2, Assigned, Zenon
<1> HIDE DEF index
<1>3. WellFormed(Restored(r, fs))
  BY <1>1, <1>2, Parts, SameHistory
<1> QED BY <1>2, <1>3, ExtendsSelf DEF Sound

\* A sequence with one more element.
LEMMA Appended ==
  ASSUME NEW S, NEW s \in Seq(S), NEW e \in S
  PROVE  /\ Append(s, e) \in Seq(S) /\ Len(Append(s, e)) = Len(s) + 1
         /\ Append(s, e)[Len(s) + 1] = e /\ \A i \in 1 .. Len(s) : Append(s, e)[i] = s[i]
  OBVIOUS

\* git commit records the index, at the end; a branch that is out moves along.
LEMMA CommittedSound ==
  ASSUME NEW r, WellFormed(r)
  PROVE  /\ Sound(r, Committed(r))
         /\ Len(Committed(r).commits) = Len(r.commits) + 1
         /\ Committed(r).commits[Len(r.commits) + 1].tree = r.index
         /\ Committed(r).head = r.head
<1> DEFINE n == Len(r.commits) + 1
           new == [tree |-> r.index, parent |-> HeadCommit(r)]
           commits == Append(r.commits, new)
           refs == IF r.head = Detached THEN r.refs ELSE [r.refs EXCEPT ![r.head] = n]
<1>1. new \in [tree : Trees, parent : Nat] /\ new.parent < n
  BY Parts
<1>2. commits \in Seq([tree : Trees, parent : Nat])
  BY <1>1, Parts, Appended
<1>3. /\ Len(commits) = n /\ commits[n] = new
      /\ \A i \in 1 .. Len(r.commits) : commits[i] = r.commits[i]
  <2>1. r.commits \in Seq([tree : Trees, parent : Nat])
    BY Parts
  <2> HIDE DEF new
  <2> QED BY <1>1, <2>1, Appended
<1>5. Committed(r) = [commits |-> commits, refs |-> refs, head |-> r.head, at |-> n,
                      index |-> r.index, work |-> r.work, stale |-> r.stale]
  <2> DEFINE s == [r EXCEPT !.commits = commits]
             t == [s EXCEPT !.refs = refs]
  <2>1. Committed(r) = [t EXCEPT !.at = n]
    BY Zenon DEF Committed
  <2> HIDE DEF commits, refs, n
  <2>2. s = [commits |-> commits, refs |-> r.refs, head |-> r.head, at |-> r.at,
             index |-> r.index, work |-> r.work, stale |-> r.stale]
    BY Record, Assigned, Zenon
  <2> HIDE DEF s
  <2>3. t = [commits |-> commits, refs |-> refs, head |-> r.head, at |-> r.at,
             index |-> r.index, work |-> r.work, stale |-> r.stale]
    BY <2>2, SMT
  <2> HIDE DEF t
  <2> QED BY <2>1, <2>3, SMT
<1>7. Len(r.commits) \in Nat /\ n = Len(r.commits) + 1
  BY Parts
<1>8. n \in 1 .. Len(commits)
  BY <1>3, <1>7
<1> HIDE DEF commits, n
<1>9. \A i \in 1 .. Len(commits) : commits[i].parent < i
  <2> TAKE i \in 1 .. Len(commits)
  <2>1. CASE i = n
    BY <2>1, <1>1, <1>3
  <2>2. CASE i # n
    <3>1. i \in 1 .. Len(r.commits) /\ commits[i] = r.commits[i]
      BY <2>2, <1>3, <1>7
    <3> QED BY <3>1 DEF WellFormed
  <2> QED BY <2>1, <2>2
<1>10. refs \in [DOMAIN r.refs -> 1 .. Len(commits)]
  <2>1. 1 .. Len(r.commits) \subseteq 1 .. Len(commits)
    BY <1>3, <1>7
  <2> QED BY <1>8, <2>1, Parts
<1> HIDE DEF refs, new
<1>11. WellFormed(Committed(r))
  BY <1>2, <1>5, <1>8, <1>9, <1>10, Parts, Whole
<1>12. Committed(r).commits = commits /\ Committed(r).head = r.head
  BY <1>5
<1>13. commits[n].tree = r.index
  BY <1>3 DEF new
<1> QED BY <1>3, <1>7, <1>11, <1>12, <1>13 DEF Extends, Sound

\* What git switch has replaced so far are files of the working tree.
LEMMA CheckedTree ==
  ASSUME NEW r, WellFormed(r), NEW b \in DOMAIN r.refs, NEW fs
  PROVE  Target(r, b) \in Trees /\ Checked(r, b, fs) \in Trees
<1>1. Target(r, b) \in Trees
  BY Parts DEF Target
<1> QED BY <1>1, Parts DEF Checked, Trees

\* git switch goes to the commit of the branch.
LEMMA SwitchedSound ==
  ASSUME NEW r, WellFormed(r), NEW b \in DOMAIN r.refs
  PROVE  /\ Sound(r, Switched(r, b))
         /\ Switched(r, b).head = b
         /\ Switched(r, b).commits = r.commits
         /\ Clean(r) => Clean(Switched(r, b))
<1> DEFINE work == Checked(r, b, Replaced(r, b))
           index == [f \in Files |-> IF f \in Differing(r, b) THEN Target(r, b)[f] ELSE r.index[f]]
           s == Switched(r, b)
<1>1. work \in Trees /\ index \in Trees
  BY CheckedTree, Parts DEF Trees
<1>2. s = [commits |-> r.commits, refs |-> r.refs, head |-> b, at |-> r.refs[b],
           index |-> index, work |-> work, stale |-> r.stale]
  <2> DEFINE t == [r EXCEPT !.head = b]
             u == [t EXCEPT !.at = r.refs[b]]
             v == [u EXCEPT !.work = work]
  <2>1. s = [v EXCEPT !.index = index]
    BY Zenon DEF Switched
  <2> HIDE DEF s, index, work
  <2>2. t = [commits |-> r.commits, refs |-> r.refs, head |-> b, at |-> r.at,
             index |-> r.index, work |-> r.work, stale |-> r.stale]
    BY Record, Assigned, Zenon
  <2> HIDE DEF t
  <2>3. u = [commits |-> r.commits, refs |-> r.refs, head |-> b, at |-> r.refs[b],
             index |-> r.index, work |-> r.work, stale |-> r.stale]
    BY <2>2, SMT
  <2> HIDE DEF u
  <2>4. v = [commits |-> r.commits, refs |-> r.refs, head |-> b, at |-> r.refs[b],
             index |-> r.index, work |-> work, stale |-> r.stale]
    BY <2>3, SMT
  <2> HIDE DEF v
  <2> QED BY <2>1, <2>4, SMT
<1>3. \A n \in 1 .. Len(r.commits) : r.commits[n].parent < n
  BY DEF WellFormed
<1> HIDE DEF work, index, s
<1>4. WellFormed(s)
  BY <1>1, <1>2, <1>3, Parts, Whole
<1>5. Sound(r, s) /\ s.head = b /\ s.commits = r.commits
  BY <1>2, <1>4, ExtendsSelf DEF Sound
<1>6. ASSUME Clean(r) PROVE Clean(s)
  <2>1. b # Detached
    BY Parts, GitAssumption
  <2>2. HeadTree(s) = Target(r, b)
    BY <1>2, <2>1 DEF HeadTree, HeadCommit, Target
  <2>3. r.index = HeadTree(r) /\ r.work = HeadTree(r)
    BY <1>6 DEF Clean
  <2>4. Target(r, b) \in Trees /\ HeadTree(r) \in Trees
    BY CheckedTree, Parts
  <2>5. index = Target(r, b)
    <3>1. \A f \in Files : index[f] = Target(r, b)[f]
      BY <2>3 DEF index, Differing
    <3> QED BY <3>1, <2>4, <1>1 DEF Trees
  <2>6. work = Target(r, b)
    <3>1. \A f \in Files : work[f] = Target(r, b)[f]
      BY <2>3 DEF work, Checked, Replaced, Differing
    <3> QED BY <3>1, <2>4, <1>1 DEF Trees
  <2> QED BY <1>2, <2>2, <2>5, <2>6 DEF Clean
<1> QED BY <1>5, <1>6 DEF s

\* git branch adds a ref.
LEMMA BranchedSound ==
  ASSUME NEW r, WellFormed(r), NEW b \in Branches
  PROVE  Sound(r, Branched(r, b))
<1> DEFINE bs == DOMAIN r.refs \cup {b}
           refs == [x \in bs |-> IF x = b THEN HeadCommit(r) ELSE r.refs[x]]
<1>1. bs \in SUBSET Branches /\ refs \in [bs -> 1 .. Len(r.commits)] /\ r.head \in bs \cup {Detached}
  BY Parts
<1>2. Branched(r, b) = [commits |-> r.commits, refs |-> refs, head |-> r.head, at |-> r.at,
                        index |-> r.index, work |-> r.work, stale |-> r.stale]
  <2>1. Branched(r, b) = [r EXCEPT !.refs = refs]
    BY Zenon DEF Branched
  <2> HIDE DEF refs
  <2>2. r = [commits |-> r.commits, refs |-> r.refs, head |-> r.head, at |-> r.at,
             index |-> r.index, work |-> r.work, stale |-> r.stale]
    BY Record, Zenon
  <2> QED BY <2>1, <2>2, Assigned, Zenon
<1>3. \A n \in 1 .. Len(r.commits) : r.commits[n].parent < n
  BY DEF WellFormed
<1> HIDE DEF bs, refs
<1>4. WellFormed(Branched(r, b))
  BY <1>1, <1>2, <1>3, Parts, Whole
<1> QED BY <1>2, <1>4, ExtendsSelf DEF Sound

\* Somebody writes one file of the working tree.
LEMMA EditedSound ==
  ASSUME NEW r, WellFormed(r), NEW f \in Files, NEW v \in Versions
  PROVE  Sound(r, [r EXCEPT !.work[f] = v]) /\ [r EXCEPT !.work[f] = v].commits = r.commits
<1> DEFINE work == [r.work EXCEPT ![f] = v]
           s == [r EXCEPT !.work[f] = v]
<1>1. work \in Trees
  BY Parts DEF Trees
<1>2. s = [commits |-> r.commits, refs |-> r.refs, head |-> r.head, at |-> r.at,
           index |-> r.index, work |-> work, stale |-> r.stale]
  <2>1. s = [r EXCEPT !.work = work]
    BY Zenon
  <2> HIDE DEF s, work
  <2> QED BY <2>1, Record, Assigned, Zenon
<1> HIDE DEF work, s
<1>3. s.index = r.index /\ s.work = work /\ s.stale = r.stale /\ s.commits = r.commits
  BY <1>2, SMT
<1>4. s.index \in Trees /\ s.work \in Trees /\ s.stale \in BOOLEAN
  BY <1>1, <1>3, Parts, Zenon
<1>5. WellFormed(s)
  BY <1>2, <1>3, <1>4, SameHistory
<1> QED BY <1>3, <1>5, ExtendsSelf DEF Sound, s

\* A timeout that leaves git's own lock behind, or a switch half done.
LEMMA LeftoversSound ==
  ASSUME NEW r, WellFormed(r), NEW work \in Trees, NEW stale \in BOOLEAN
  PROVE  /\ Sound(r, [r EXCEPT !.work = work]) /\ Sound(r, [r EXCEPT !.stale = stale])
         /\ [r EXCEPT !.stale = stale].commits = r.commits
         /\ [r EXCEPT !.stale = stale].head = r.head
<1> DEFINE s == [r EXCEPT !.work = work]
           t == [r EXCEPT !.stale = stale]
<1>1. /\ s = [commits |-> r.commits, refs |-> r.refs, head |-> r.head, at |-> r.at,
              index |-> r.index, work |-> work, stale |-> r.stale]
      /\ t = [commits |-> r.commits, refs |-> r.refs, head |-> r.head, at |-> r.at,
              index |-> r.index, work |-> r.work, stale |-> stale]
  BY Record, Assigned, Zenon
<1> HIDE DEF s, t
<1>2. s.index = r.index /\ s.work = work /\ s.stale = r.stale /\ s.commits = r.commits
  BY <1>1, SMT
<1>3. /\ t.index = r.index /\ t.work = r.work /\ t.stale = stale
      /\ t.commits = r.commits /\ t.head = r.head
  BY <1>1, SMT
<1>4. s.index \in Trees /\ s.work \in Trees /\ s.stale \in BOOLEAN
  BY <1>2, Parts, Zenon
<1>5. t.index \in Trees /\ t.work \in Trees /\ t.stale \in BOOLEAN
  BY <1>3, Parts, Zenon
<1>6. WellFormed(s)
  BY <1>1, <1>2, <1>4, SameHistory
<1>7. WellFormed(t)
  BY <1>1, <1>3, <1>5, SameHistory
<1>8. Sound(r, s) /\ Sound(r, t)
  BY <1>2, <1>3, <1>6, <1>7, ExtendsSelf DEF Sound
<1> QED BY <1>3, <1>8, Zenon DEF s, t

\* Sound steps compose.
LEMMA SoundTransitive ==
  ASSUME NEW r, WellFormed(r), NEW s, Sound(r, s), NEW t, Sound(s, t)
  PROVE  Sound(r, t)
<1>1. Len(r.commits) \in Nat /\ Len(s.commits) \in Nat /\ Len(t.commits) \in Nat
  BY Parts DEF Sound
<1> QED BY <1>1 DEF Sound, Extends

--------------------------------------------------------------------------------
(* The writing command of a call *)

\* What a command that went through leaves is well formed, and no commit changed.
LEMMA EffectSound ==
  ASSUME TypeOK, NEW c \in Callers, call[c].kind \in Kinds \ {"patch", "review"},
         call[c].branch \in Branches, Possible(c)
  PROVE  Sound(repo, Effect(c))
<1>1. WellFormed(repo) /\ call[c] \in Calls
  BY DEF TypeOK
<1>2. call[c].files \in SUBSET Files
  BY <1>1 DEF Calls
<1>3. CASE call[c].kind = "stage"
  BY <1>1, <1>2, <1>3, AddedSound DEF Effect
<1>4. CASE call[c].kind = "unstage"
  BY <1>1, <1>2, <1>4, RestoredSound DEF Effect
<1>5. CASE call[c].kind = "commit"
  BY <1>1, <1>5, CommittedSound DEF Effect
<1>6. CASE call[c].kind = "checkout"
  <2>1. call[c].branch \in DOMAIN repo.refs
    BY <1>6 DEF Possible, CanSwitch
  <2> QED BY <1>1, <1>6, <2>1, SwitchedSound DEF Effect
<1>7. CASE call[c].kind = "create_branch"
  BY <1>1, <1>7, BranchedSound DEF Effect
<1> QED BY <1>3, <1>4, <1>5, <1>6, <1>7 DEF Kinds

\* So is what a killed command leaves.
LEMMA InterruptedSound ==
  ASSUME TypeOK, NEW c \in Callers, call[c].kind \in Kinds \ {"patch", "review"},
         call[c].branch \in Branches, Possible(c),
         NEW s \in Interrupted(c)
  PROVE  Sound(repo, s)
<1> DEFINE b == call[c].branch
           partial == IF call[c].kind # "checkout" THEN {}
                      ELSE {[repo EXCEPT !.work = Checked(repo, b, fs)] :
                              fs \in SUBSET Replaced(repo, b)}
<1>1. WellFormed(repo)
  BY DEF TypeOK
<1>2. repo.stale \in BOOLEAN
  BY <1>1, Parts
<1>3. PICK r \in {repo, Effect(c)} \cup partial, stale \in BOOLEAN : s = [r EXCEPT !.stale = stale]
  BY <1>2 DEF Interrupted
<1>4. Sound(repo, r)
  <2>1. CASE r = repo
    BY <1>1, <2>1, ExtendsSelf DEF Sound
  <2>2. CASE r = Effect(c)
    BY <2>2, EffectSound
  <2>3. CASE r \in partial
    <3>1. call[c].kind = "checkout"
      BY <2>3
    <3>2. b \in DOMAIN repo.refs
      BY <3>1 DEF Possible, CanSwitch
    <3>3. PICK fs : r = [repo EXCEPT !.work = Checked(repo, b, fs)]
      BY <2>3
    <3> QED BY <1>1, <3>2, <3>3, CheckedTree, LeftoversSound
  <2> QED BY <1>3, <2>1, <2>2, <2>3
<1>5. Sound(r, s)
  BY <1>3, <1>4, LeftoversSound, Parts DEF Sound
<1> QED BY <1>1, <1>4, <1>5, SoundTransitive

--------------------------------------------------------------------------------
(* The merge base of a review *)

\* The ancestors of a commit are the commit itself and those of its parent.
LEMMA AncestorsEquation ==
  ASSUME NEW r, WellFormed(r)
  PROVE  \A n \in 0 .. Len(r.commits) :
           Ancestors(r, n) = IF n = 0 THEN {} ELSE {n} \cup Ancestors(r, r.commits[n].parent)
<1> DEFINE size == Len(r.commits)
           parent(m) == r.commits[m].parent
           Line(g, n) == [m \in 0 .. n |-> IF m = 0 THEN {} ELSE {m} \cup g[parent(m)]]
           before == CHOOSE g : g = Line(g, size)
           S == {n \in Nat : n <= size => \E g : g = Line(g, n)}
<1>1. size \in Nat /\ \A m \in 1 .. size : parent(m) \in 0 .. m - 1
  BY Parts
<1>2. 0 \in S
  <2>1. [m \in 0 .. 0 |-> {}] = Line([m \in 0 .. 0 |-> {}], 0)
    OBVIOUS
  <2> QED BY <2>1
<1> HIDE DEF size, parent
<1>3. ASSUME NEW n \in Nat, n \in S PROVE n + 1 \in S
  <2> SUFFICES ASSUME n + 1 <= size PROVE \E h : h = Line(h, n + 1)
    OBVIOUS
  <2>1. PICK g : g = Line(g, n)
    BY <1>1, <1>3
  <2> DEFINE h == [m \in 0 .. n + 1 |-> IF m = n + 1 THEN {m} \cup g[parent(m)] ELSE g[m]]
  <2>2. ASSUME NEW m \in 0 .. n + 1
        PROVE  h[m] = IF m = 0 THEN {} ELSE {m} \cup h[parent(m)]
    <3>1. CASE m = 0
      <4>1. m # n + 1 /\ m \in 0 .. n
        BY <3>1
      <4>2. h[m] = g[m] /\ g[m] = Line(g, n)[m]
        BY <2>1, <4>1
      <4> QED BY <3>1, <4>1, <4>2
    <3>2. CASE m # 0 /\ m # n + 1
      <4>1. m \in 0 .. n /\ parent(m) \in 0 .. n /\ parent(m) # n + 1
        BY <1>1, <3>2
      <4>2. g[m] = {m} \cup g[parent(m)]
        <5>1. g[m] = Line(g, n)[m]
          BY <2>1
        <5> QED BY <3>2, <4>1, <5>1
      <4> QED BY <3>2, <4>1, <4>2
    <3>3. CASE m = n + 1
      <4>1. parent(m) \in 0 .. n + 1 /\ parent(m) # n + 1 /\ m # 0
        BY <1>1, <3>3
      <4> QED BY <3>3, <4>1
    <3> QED BY <3>1, <3>2, <3>3
  <2>3. h = Line(h, n + 1)
    BY <2>2
  <2> HIDE DEF h
  <2> QED BY <2>3
<1>4. size \in S
  <2> HIDE DEF S
  <2> QED BY <1>1, <1>2, <1>3, NatSetInduction
<1>5. before = Line(before, size)
  <2>1. \E g : g = Line(g, size)
    BY <1>1, <1>4
  <2> QED BY <2>1, Zenon
<1>6. \A n : Ancestors(r, n) = before[n]
  BY DEF Ancestors, size, parent
<1> HIDE DEF before
<1>7. \A n \in 0 .. size : before[n] = IF n = 0 THEN {} ELSE {n} \cup before[parent(n)]
  BY <1>5
<1> QED BY <1>6, <1>7 DEF size, parent

\* The ancestors of a commit are commits.
LEMMA AncestorsAreCommits ==
  ASSUME NEW r, WellFormed(r), NEW n \in 0 .. Len(r.commits)
  PROVE  Ancestors(r, n) \subseteq 1 .. n
<1> DEFINE size == Len(r.commits)
           S == {k \in Nat : \A m \in 0 .. size : m <= k => Ancestors(r, m) \subseteq 1 .. m}
<1>1. size \in Nat /\ \A m \in 1 .. size : r.commits[m].parent \in 0 .. m - 1
  BY Parts
<1>2. \A m \in 0 .. size :
        Ancestors(r, m) = IF m = 0 THEN {} ELSE {m} \cup Ancestors(r, r.commits[m].parent)
  BY AncestorsEquation
<1> HIDE DEF size
<1>3. 0 \in S
  <2>1. Ancestors(r, 0) = {}
    BY <1>1, <1>2
  <2> QED BY <2>1
<1>4. ASSUME NEW k \in Nat, k \in S PROVE k + 1 \in S
  <2>1. ASSUME NEW m \in 0 .. size, m <= k + 1 PROVE Ancestors(r, m) \subseteq 1 .. m
    <3>1. CASE m <= k
      BY <1>4, <3>1
    <3>2. CASE m = k + 1
      <4>1. r.commits[m].parent \in 0 .. k /\ r.commits[m].parent \in 0 .. size
        BY <1>1, <2>1, <3>2
      <4>2. Ancestors(r, r.commits[m].parent) \subseteq 1 .. r.commits[m].parent
        BY <1>4, <4>1
      <4>3. Ancestors(r, m) = {m} \cup Ancestors(r, r.commits[m].parent)
        BY <1>2, <3>2
      <4> QED BY <3>2, <4>1, <4>2, <4>3
    <3> QED BY <2>1, <3>1, <3>2
  <2> QED BY <2>1
<1>5. n \in S
  <2> HIDE DEF S
  <2>1. n \in Nat
    BY <1>1 DEF size
  <2> QED BY <1>3, <1>4, <2>1, NatSetInduction
<1> QED BY <1>5 DEF size

\* So is the merge base, when there is one.
LEMMA MergeBaseIsCommit ==
  ASSUME NEW r, WellFormed(r), NEW m \in 1 .. Len(r.commits), NEW n \in 1 .. Len(r.commits),
         Common(r, m, n) # {}
  PROVE  MergeBase(r, m, n) \in 1 .. Len(r.commits)
<1>1. Len(r.commits) \in Nat
  BY Parts
<1>2. Ancestors(r, m) \subseteq 1 .. m /\ Ancestors(r, n) \subseteq 1 .. n
  BY AncestorsAreCommits
<1>3. Common(r, m, n) \subseteq 1 .. Len(r.commits) /\ Common(r, m, n) \subseteq 0 .. Len(r.commits)
  BY <1>1, <1>2 DEF Common
<1>4. \E x \in Common(r, m, n) : \A y \in Common(r, m, n) : x >= y
  BY <1>1, <1>3, NatMax
<1> QED BY <1>3, <1>4 DEF MergeBase, Max

--------------------------------------------------------------------------------
(* The calls *)

\* A call that is not past the lock knows nothing of the repository.
LEMMA OutsideKnowsNothing ==
  ASSUME NEW k, NEW r, NEW s, CallInv(k, r), k.pc \in {"idle", "waiting"}
  PROVE  CallInv(k, s)
<1>1. k.pc \notin {"mutate", "report", "base", "ancestor", "names", "patches"}
  OBVIOUS
<1> QED BY <1>1 DEF CallInv, MutationInv, RangeInv, PatchesInv

\* The step of one call, which is the holder of the lock if it writes, becomes the
\* holder, or stops being it.
LEMMA OneCall ==
  ASSUME GInv, NEW c \in Callers, NEW k \in Calls, call' = [call EXCEPT ![c] = k],
         CallInv(k, repo'), WellFormed(repo'),
         repo' = repo \/ lock = c,
         \/ lock' = lock /\ (k.pc \in {"idle", "waiting"} <=> call[c].pc \in {"idle", "waiting"})
         \/ lock' = c /\ lock = Free /\ k.pc \notin {"idle", "waiting"}
         \/ lock' = Free /\ lock = c /\ k.pc \in {"idle", "waiting"}
  PROVE  GInv'
<1>1. call \in [Callers -> Calls] /\ \A d \in Callers : Inside(d) <=> lock = d
  BY DEF GInv, TypeOK
<1>2. /\ call' \in [Callers -> Calls] /\ call'[c] = k
      /\ \A d \in Callers : d # c => call'[d] = call[d]
  BY <1>1, Zenon
<1>3. ASSUME NEW d \in Callers PROVE CallInv(call'[d], repo')
  <2>1. CASE d = c
    BY <2>1, <1>2
  <2>2. CASE d # c /\ repo' = repo
    BY <2>2, <1>2 DEF GInv
  <2>3. CASE d # c /\ lock = c
    <3>1. call[d].pc \in {"idle", "waiting"}
      BY <2>3, <1>1 DEF Inside
    <3> QED BY <2>3, <3>1, <1>2, OutsideKnowsNothing DEF GInv
  <2> QED BY <2>1, <2>2, <2>3
<1>4. ASSUME NEW d \in Callers PROVE Inside(d)' <=> lock' = d
  <2>1. CASE d = c
    BY <2>1, <1>1, <1>2, GitAssumption DEF Inside
  <2>2. CASE d # c
    <3>1. Inside(d)' <=> lock = d
      BY <2>2, <1>1, <1>2 DEF Inside
    <3> QED BY <2>2, <3>1, GitAssumption
  <2> QED BY <2>1, <2>2
<1> QED BY <1>2, <1>3, <1>4 DEF GInv, TypeOK

\* What is known of a call, and of the repository it works in.
LEMMA Known ==
  ASSUME GInv, NEW c \in Callers
  PROVE  /\ WellFormed(repo) /\ call[c] \in Calls /\ call \in [Callers -> Calls]
         /\ CallInv(call[c], repo)
         /\ call[c].pc \notin {"idle", "waiting"} <=> lock = c
  BY DEF GInv, TypeOK, Inside

\* A call that has ended makes no claim.
LEMMA EndedInv ==
  ASSUME NEW k, k.pc = "idle", NEW r
  PROVE  CallInv(k, r)
  BY DEF CallInv, KindInv, MutationInv, RangeInv, PatchesInv

\* A call ends and leaves the lock.
LEMMA EndInv ==
  ASSUME GInv, NEW c \in Callers, NEW result \in {"ok", "error"}, End(c, result), lock = c,
         WellFormed(repo')
  PROVE  GInv'
<1> DEFINE k == [call[c] EXCEPT !.pc = "idle", !.result = result]
<1>1. call' = [call EXCEPT ![c] = k]
  BY Zenon DEF End
<1>2. k \in Calls /\ k.pc = "idle"
  <2>1. call[c] \in Calls
    BY Known
  <2>2. k \in Calls
    BY <2>1, Zenon DEF Calls
  <2>3. k.pc = "idle"
    BY <2>1, Zenon DEF Calls
  <2> QED BY <2>2, <2>3
<1> HIDE DEF k
<1>3. CallInv(k, repo')
  BY <1>2, EndedInv
<1>4. lock' = Free
  BY DEF End
<1> QED BY <1>1, <1>2, <1>3, <1>4, OneCall

\* A new call waits for the lock.
LEMMA CallStep == ASSUME GInv, NEW c \in Callers, Call(c) PROVE GInv'
<1>1. PICK kind \in Kinds, fs \in SUBSET Files \ {{}}, b \in Branches,
           mode \in {"unstaged", "staged"} \cup Branches :
        call' = [call EXCEPT ![c] = [NoCall EXCEPT !.kind = kind, !.pc = "waiting",
                   !.files = fs, !.branch = b, !.mode = mode]]
  BY Zenon DEF Call
<1> DEFINE k == [NoCall EXCEPT !.kind = kind, !.pc = "waiting",
                   !.files = fs, !.branch = b, !.mode = mode]
<1>2. NoCall \in Calls
  <2>1. <<>> \in Seq(Nat)
    OBVIOUS
  <2> QED BY <2>1, Zenon DEF NoCall, Calls
<1>3. k \in Calls
  BY <1>2, Zenon DEF Calls
<1>4. k.pc = "waiting" /\ k.kind = kind /\ k.branch = b /\ k.patches = {}
  BY Zenon DEF NoCall
<1>5. call' = [call EXCEPT ![c] = k]
  BY <1>1
<1> HIDE DEF k
<1>6. CallInv(k, repo')
  BY <1>4 DEF CallInv, KindInv, MutationInv, RangeInv, PatchesInv
<1>7. call[c].pc = "idle" /\ repo' = repo /\ lock' = lock
  BY DEF Call, At
<1>8. k.pc \in {"idle", "waiting"} <=> call[c].pc \in {"idle", "waiting"}
  BY <1>4, <1>7
<1>9. WellFormed(repo')
  BY <1>7, Known
<1> QED BY <1>3, <1>5, <1>6, <1>7, <1>8, <1>9, OneCall

\* The call gets the lock.
LEMMA EnterStep == ASSUME GInv, NEW c \in Callers, Enter(c) PROVE GInv'
<1> DEFINE k == [call[c] EXCEPT !.pc = "prepare"]
<1>1. call' = [call EXCEPT ![c] = k]
  BY Zenon DEF Enter, Goto
<1>2. k \in Calls /\ k.pc = "prepare"
  BY Known, ZenonT(30) DEF Calls
<1>3. k.kind = call[c].kind /\ k.branch = call[c].branch /\ k.patches = call[c].patches
  BY Known, Zenon DEF Calls
<1> HIDE DEF k
<1>4. call[c].pc = "waiting" /\ lock = Free /\ lock' = c /\ repo' = repo
  BY DEF Enter, At
<1>5. CallInv(call[c], repo)
  BY Known
<1>6. CallInv(k, repo')
  BY <1>2, <1>3, <1>4, <1>5 DEF CallInv, KindInv, MutationInv, RangeInv, PatchesInv
<1>7. WellFormed(repo')
  BY <1>4, Known
<1> QED BY <1>1, <1>2, <1>4, <1>6, <1>7, OneCall

\* The validating commands have passed.
LEMMA PrepareStep == ASSUME GInv, NEW c \in Callers, Prepare(c) PROVE GInv'
<1> DEFINE pc == CASE call[c].kind = "review" ->
                        (IF call[c].mode \in Branches THEN "base" ELSE "names")
                   [] call[c].kind = "patch" -> "write"
                   [] call[c].kind \in {"commit", "checkout"} -> "check"
                   [] OTHER -> "mutate"
           k == [call[c] EXCEPT !.pc = pc]
<1>1. call' = [call EXCEPT ![c] = k]
  BY Zenon DEF Prepare, Goto
<1>2. pc \in {"base", "names", "write", "check", "mutate"}
  OBVIOUS
<1>3. k \in Calls /\ k.pc = pc
  <2> HIDE DEF pc
  <2>1. pc \in {"idle", "waiting", "prepare", "check", "mutate", "report", "base", "ancestor",
                "names", "patches", "write", "diff"}
    BY <1>2
  <2> QED BY <2>1, Known, ZenonT(30) DEF Calls
<1>4. /\ k.kind = call[c].kind /\ k.branch = call[c].branch /\ k.mode = call[c].mode
      /\ k.patches = call[c].patches
  BY Known, Zenon DEF Calls
<1> HIDE DEF k
<1>5. call[c].pc = "prepare" /\ lock' = lock /\ repo' = repo
  BY DEF Prepare, At
<1>6. CallInv(call[c], repo)
  BY Known
<1>7. call[c].kind \in Kinds /\ call[c].branch \in Branches /\ call[c].patches = {}
  BY <1>5, <1>6 DEF CallInv, KindInv, PatchesInv
<1>8. /\ pc \in {"base", "names"} => k.kind = "review"
      /\ pc = "base" => k.mode \in Branches
      /\ pc = "names" => k.mode \notin Branches
      /\ pc = "write" => k.kind = "patch"
      /\ pc = "check" => k.kind \in {"commit", "checkout"}
      /\ pc = "mutate" => k.kind \in Kinds \ {"patch", "review", "commit", "checkout"}
  BY <1>4, <1>7
<1> HIDE DEF pc
<1>9. CallInv(k, repo')
  <2>1. KindInv(k)
    BY <1>2, <1>3, <1>4, <1>7, <1>8 DEF KindInv
  <2>2. MutationInv(k, repo')
    BY <1>2, <1>3, <1>8 DEF MutationInv
  <2>3. RangeInv(k, repo')
    BY <1>2, <1>3, <1>8 DEF RangeInv
  <2>4. PatchesInv(k, repo')
    BY <1>2, <1>3, <1>4, <1>7 DEF PatchesInv
  <2> QED BY <2>1, <2>2, <2>3, <2>4 DEF CallInv
<1>10. WellFormed(repo')
  BY <1>5, Known
<1>11. k.pc \notin {"idle", "waiting"}
  BY <1>2, <1>3
<1> QED BY <1>1, <1>3, <1>5, <1>9, <1>10, <1>11, OneCall

\* What the last look before a mutation found.
LEMMA CheckStep == ASSUME GInv, NEW c \in Callers, Check(c) PROVE GInv'
<1> DEFINE k == [call[c] EXCEPT !.pc = "mutate", !.seen = repo.index]
           passes == IF call[c].kind = "checkout"
                     THEN Clean(repo) /\ call[c].branch \in DOMAIN repo.refs
                     ELSE repo.head # Detached /\ CanCommit(repo)
<1>1. call[c].pc = "check" /\ repo' = repo
  BY DEF Check, At
<1>2. /\ WellFormed(repo) /\ WellFormed(repo') /\ CallInv(call[c], repo) /\ lock = c
      /\ call[c] \in Calls
  BY <1>1, Known
<1>3. CASE ~passes /\ End(c, "error")
  BY <1>2, <1>3, EndInv
<1>4. CASE /\ passes
           /\ call' = [call EXCEPT ![c].pc = "mutate", ![c].seen = repo.index]
           /\ lock' = lock
  <2>1. call' = [call EXCEPT ![c] = k]
    BY <1>4, Zenon
  <2>2. repo.index \in Trees
    BY <1>2, Parts
  <2>3. k \in Calls
    BY <1>2, <2>2, Zenon DEF Calls
  <2>4. k.pc = "mutate"
    BY <1>2, Zenon DEF Calls
  <2>5. k.seen = repo.index
    BY <1>2, Zenon DEF Calls
  <2>6. k.kind = call[c].kind /\ k.branch = call[c].branch
    BY <1>2, Zenon DEF Calls
  <2> HIDE DEF k
  <2>7. KindInv(k)
    BY <1>1, <1>2, <2>4, <2>6 DEF KindInv, CallInv, Kinds
  <2>8. MutationInv(k, repo')
    BY <1>1, <1>4, <2>4, <2>5, <2>6 DEF MutationInv
  <2>9. CallInv(k, repo')
    BY <2>4, <2>7, <2>8 DEF CallInv, RangeInv, PatchesInv
  <2> QED BY <1>1, <1>2, <1>4, <2>1, <2>3, <2>4, <2>9, OneCall
<1> QED BY <1>3, <1>4 DEF Check

\* The command that writes: a checkout that went through ends on a clean tree if
\* it started from one.
LEMMA MutateStep == ASSUME GInv, NEW c \in Callers, Mutate(c) PROVE GInv'
<1>1. call[c].pc = "mutate"
  BY DEF Mutate, At
<1>2. /\ WellFormed(repo) /\ CallInv(call[c], repo) /\ lock = c /\ call[c] \in Calls
  BY <1>1, Known
<1>3. call[c].kind \in Kinds \ {"patch", "review"} /\ call[c].branch \in Branches
  BY <1>1, <1>2 DEF CallInv, KindInv
<1>4. TypeOK
  BY DEF GInv
<1>5. CASE ~Possible(c) /\ End(c, "error") /\ UNCHANGED <<repo, used>>
  BY <1>2, <1>5, EndInv
<1>6. CASE Possible(c) /\ Fault /\ End(c, "error") /\ repo' \in Interrupted(c)
  <2>1. WellFormed(repo')
    BY <1>3, <1>4, <1>6, InterruptedSound DEF Sound
  <2> QED BY <1>2, <1>6, <2>1, EndInv
<1>7. CASE Possible(c) /\ repo' = Effect(c) /\ Goto(c, "report") /\ UNCHANGED <<lock, used>>
  <2> DEFINE k == [call[c] EXCEPT !.pc = "report"]
  <2>1. call' = [call EXCEPT ![c] = k]
    BY <1>7, Zenon DEF Goto
  <2>2. k \in Calls /\ k.pc = "report"
    BY <1>2, Zenon DEF Calls
  <2>3. /\ k.kind = call[c].kind /\ k.branch = call[c].branch
        /\ k.disturbed = call[c].disturbed
    BY <1>2, Zenon DEF Calls
  <2> HIDE DEF k
  <2>4. WellFormed(repo')
    BY <1>3, <1>4, <1>7, EffectSound DEF Sound
  <2>5. KindInv(k)
    BY <1>3, <2>2, <2>3 DEF KindInv
  <2>6. ASSUME k.kind = "checkout", ~k.disturbed
        PROVE  repo'.head = k.branch /\ Clean(repo')
    <3>1. repo' = Switched(repo, call[c].branch) /\ call[c].branch \in DOMAIN repo.refs
      BY <1>7, <2>3, <2>6 DEF Effect, Possible, CanSwitch
    <3>2. Clean(repo)
      BY <1>1, <1>2, <2>3, <2>6 DEF CallInv, MutationInv
    <3> QED BY <1>2, <2>3, <3>1, <3>2, SwitchedSound
  <2>7. MutationInv(k, repo')
    BY <2>2, <2>6 DEF MutationInv
  <2>8. CallInv(k, repo')
    BY <2>2, <2>5, <2>7 DEF CallInv, RangeInv, PatchesInv
  <2>9. lock' = lock /\ k.pc \notin {"idle", "waiting"} /\ call[c].pc \notin {"idle", "waiting"}
    BY <1>1, <1>7, <2>2
  <2> QED BY <1>2, <2>1, <2>2, <2>4, <2>8, <2>9, OneCall
<1> QED BY <1>5, <1>6, <1>7 DEF Mutate

\* The last steps of a mutation and of a patch.
LEMMA LastStep ==
  ASSUME GInv, NEW c \in Callers, Report(c) \/ DiffOfPatch(c)
  PROVE  GInv'
<1>1. call[c].pc \in {"report", "diff"} /\ repo' = repo /\ End(c, "ok")
  BY DEF Report, DiffOfPatch, At
<1>2. WellFormed(repo) /\ lock = c
  BY <1>1, Known
<1> QED BY <1>1, <1>2, EndInv

\* A failure, also of a call that still waits.
LEMMA FailStep == ASSUME GInv, NEW c \in Callers, Fail(c) PROVE GInv'
<1> DEFINE k == [call[c] EXCEPT !.pc = "idle", !.result = "error"]
<1>1. call' = [call EXCEPT ![c] = k]
  BY Zenon DEF Fail
<1>2. k \in Calls
  BY Known, ZenonT(30) DEF Calls
<1>3. k.pc = "idle"
  BY Known, Zenon DEF Calls
<1> HIDE DEF k
<1>4. CallInv(k, repo')
  BY <1>3, EndedInv
<1>5. WellFormed(repo') /\ repo' = repo
  BY Known DEF Fail
<1>6. \/ lock = c /\ lock' = Free
      \/ lock # c /\ lock' = lock /\ call[c].pc \in {"idle", "waiting"}
  BY Known DEF Fail
<1> QED BY <1>1, <1>2, <1>3, <1>4, <1>5, <1>6, OneCall

\* What a review lists, and where the revisions it needs exist.
LEMMA ReviewDiffType ==
  ASSUME NEW r, WellFormed(r), NEW mode \in {"unstaged", "staged"} \cup Branches, NEW revisions,
         mode \in Branches => /\ revisions[1] \in 1 .. Len(r.commits)
                              /\ revisions[2] \in 1 .. Len(r.commits)
  PROVE  ReviewDiff(r, mode, revisions) \subseteq [file : Files, old : Versions, new : Versions]
<1>1. ASSUME NEW old \in Trees, NEW new \in Trees
      PROVE  Diff(old, new) \subseteq [file : Files, old : Versions, new : Versions]
  BY DEF Diff, Trees
<1>2. CASE mode = "unstaged"
  BY <1>1, <1>2, Parts DEF ReviewDiff
<1>3. CASE mode = "staged"
  BY <1>1, <1>3, Parts DEF ReviewDiff
<1>4. CASE mode \in Branches
  <2>1. mode # "unstaged" /\ mode # "staged"
    BY <1>4, GitAssumption
  <2> QED BY <1>1, <1>4, <2>1, Parts DEF ReviewDiff
<1> QED BY <1>2, <1>3, <1>4

\* rev-parse of the base ref.
LEMMA ResolveBaseStep == ASSUME GInv, NEW c \in Callers, ResolveBase(c) PROVE GInv'
<1> DEFINE k == [call[c] EXCEPT !.pc = "ancestor", !.revisions = <<repo.refs[call[c].mode]>>]
<1>1. call[c].pc = "base" /\ repo' = repo
  BY DEF ResolveBase, At
<1>2. /\ WellFormed(repo) /\ WellFormed(repo') /\ CallInv(call[c], repo) /\ lock = c
      /\ call[c] \in Calls
  BY <1>1, Known
<1>3. CASE End(c, "error")
  BY <1>2, <1>3, EndInv
<1>4. CASE /\ call[c].mode \in DOMAIN repo.refs
           /\ call' = [call EXCEPT ![c].pc = "ancestor", ![c].revisions = <<repo.refs[call[c].mode]>>]
           /\ lock' = lock
  <2>1. call' = [call EXCEPT ![c] = k]
    BY <1>4, Zenon
  <2>2. repo.refs[call[c].mode] \in 1 .. Len(repo.commits)
    BY <1>2, <1>4, Parts
  <2>3. <<repo.refs[call[c].mode]>> \in Seq(Nat)
    BY <2>2
  <2>4. k \in Calls
    BY <1>2, <2>3, Zenon DEF Calls
  <2>5. k.pc = "ancestor"
    BY <1>2, Zenon DEF Calls
  <2>6. k.revisions = <<repo.refs[call[c].mode]>>
    BY <1>2, Zenon DEF Calls
  <2>7. /\ k.kind = call[c].kind /\ k.mode = call[c].mode /\ k.branch = call[c].branch
        /\ k.patches = call[c].patches
    BY <1>2, Zenon DEF Calls
  <2> HIDE DEF k
  <2>8. KindInv(k)
    BY <1>1, <1>2, <2>5, <2>7 DEF CallInv, KindInv
  <2>9. k.revisions[1] = repo.refs[k.mode]
    BY <2>6, <2>7
  <2>10. RangeInv(k, repo')
    BY <1>1, <2>2, <2>5, <2>7, <2>9 DEF RangeInv
  <2>11. PatchesInv(k, repo')
    BY <1>1, <1>2, <2>5, <2>7 DEF CallInv, PatchesInv
  <2>12. CallInv(k, repo')
    BY <2>5, <2>8, <2>10, <2>11 DEF CallInv, MutationInv
  <2>13. k.pc \notin {"idle", "waiting"} /\ call[c].pc \notin {"idle", "waiting"}
    BY <1>1, <2>5
  <2> QED BY <1>1, <1>2, <1>4, <2>1, <2>4, <2>12, <2>13, OneCall
<1> QED BY <1>3, <1>4 DEF ResolveBase

\* The merge base and HEAD.
LEMMA ResolveRangeStep == ASSUME GInv, NEW c \in Callers, ResolveRange(c) PROVE GInv'
<1> DEFINE base == call[c].revisions[1]
           head == HeadCommit(repo)
           range == <<MergeBase(repo, base, head), head>>
           k == [call[c] EXCEPT !.pc = "names", !.revisions = range]
<1>1. call[c].pc = "ancestor" /\ repo' = repo
  BY DEF ResolveRange, At
<1>2. /\ WellFormed(repo) /\ WellFormed(repo') /\ CallInv(call[c], repo) /\ lock = c
      /\ call[c] \in Calls
  BY <1>1, Known
<1>3. CASE End(c, "error")
  BY <1>2, <1>3, EndInv
<1>4. CASE /\ Common(repo, base, head) # {} /\ lock' = lock
           /\ call' = [call EXCEPT ![c].pc = "names", ![c].revisions = range]
  <2>1. call' = [call EXCEPT ![c] = k]
    BY <1>4, Zenon
  <2>2. base \in 1 .. Len(repo.commits) /\ head \in 1 .. Len(repo.commits)
    BY <1>1, <1>2, Parts DEF CallInv, RangeInv
  <2>3. MergeBase(repo, base, head) \in 1 .. Len(repo.commits)
    BY <1>2, <1>4, <2>2, MergeBaseIsCommit
  <2>4. range \in Seq(Nat) /\ range[1] = MergeBase(repo, base, head) /\ range[2] = head
    BY <2>2, <2>3
  <2> HIDE DEF range
  <2>5. k \in Calls
    BY <1>2, <2>4, Zenon DEF Calls
  <2>6. k.pc = "names"
    BY <1>2, Zenon DEF Calls
  <2>7. k.revisions = range
    BY <1>2, Zenon DEF Calls
  <2>8. /\ k.kind = call[c].kind /\ k.mode = call[c].mode /\ k.branch = call[c].branch
        /\ k.patches = call[c].patches
    BY <1>2, Zenon DEF Calls
  <2>9. k.disturbed = call[c].disturbed
    BY <1>2, Zenon DEF Calls
  <2> HIDE DEF k
  <2>10. KindInv(k)
    BY <1>1, <1>2, <2>6, <2>8 DEF CallInv, KindInv
  <2>11. ASSUME ~k.disturbed PROVE k.revisions = Revisions(k, repo)
    <3>1. base = repo.refs[k.mode]
      BY <1>1, <1>2, <2>8, <2>9, <2>11 DEF CallInv, RangeInv
    <3> QED BY <2>7, <3>1 DEF Revisions, range
  <2>12. RangeInv(k, repo')
    BY <1>1, <2>2, <2>3, <2>4, <2>6, <2>7, <2>11 DEF RangeInv
  <2>13. PatchesInv(k, repo')
    BY <1>1, <1>2, <2>6, <2>8 DEF CallInv, PatchesInv
  <2>14. CallInv(k, repo')
    BY <2>6, <2>10, <2>12, <2>13 DEF CallInv, MutationInv
  <2>15. k.pc \notin {"idle", "waiting"} /\ call[c].pc \notin {"idle", "waiting"}
    BY <1>1, <2>6
  <2> QED BY <1>1, <1>2, <1>4, <2>1, <2>5, <2>14, <2>15, OneCall
<1> QED BY <1>3, <1>4 DEF ResolveRange

\* The files of the diff: nothing is collected yet of any of them.
LEMMA NamesStep == ASSUME GInv, NEW c \in Callers, Names(c) PROVE GInv'
<1> DEFINE diff == ReviewDiff(repo, call[c].mode, call[c].revisions)
           fs == {d.file : d \in diff}
           k == [call[c] EXCEPT !.pc = "patches", !.files = fs]
<1>1. call[c].pc = "names" /\ repo' = repo
  BY DEF Names, At
<1>2. /\ WellFormed(repo) /\ WellFormed(repo') /\ CallInv(call[c], repo) /\ lock = c
      /\ call[c] \in Calls
  BY <1>1, Known
<1>3. CASE End(c, "ok")
  BY <1>2, <1>3, EndInv
<1>4. CASE /\ fs # {} /\ lock' = lock
           /\ call' = [call EXCEPT ![c].pc = "patches", ![c].files = fs]
  <2>1. call' = [call EXCEPT ![c] = k]
    BY <1>4, Zenon
  <2>2. fs \in SUBSET Files
    <3>1. call[c].mode \in {"unstaged", "staged"} \cup Branches
      BY <1>2 DEF Calls
    <3>2. diff \subseteq [file : Files, old : Versions, new : Versions]
      BY <1>1, <1>2, <3>1, ReviewDiffType DEF CallInv, RangeInv
    <3> HIDE DEF diff
    <3> QED BY <3>2
  <2>3. \A d \in diff : d.file \in fs
    OBVIOUS
  <2> HIDE DEF fs, diff
  <2>4. k \in Calls
    BY <1>2, <2>2, Zenon DEF Calls
  <2>5. k.pc = "patches"
    BY <1>2, Zenon DEF Calls
  <2>6. k.files = fs
    BY <1>2, Zenon DEF Calls
  <2>7. /\ k.kind = call[c].kind /\ k.mode = call[c].mode /\ k.branch = call[c].branch
        /\ k.revisions = call[c].revisions /\ k.patches = call[c].patches
    BY <1>2, Zenon DEF Calls
  <2>8. k.disturbed = call[c].disturbed
    BY <1>2, Zenon DEF Calls
  <2> HIDE DEF k
  <2>9. KindInv(k)
    BY <1>1, <1>2, <2>5, <2>7 DEF CallInv, KindInv
  <2>10. RangeInv(k, repo')
    <3>1. Revisions(k, repo) = Revisions(call[c], repo)
      BY <2>7 DEF Revisions
    <3> QED BY <1>1, <1>2, <2>5, <2>7, <2>8, <3>1 DEF CallInv, RangeInv
  <2>11. PatchesInv(k, repo')
    <3>1. k.patches = {}
      BY <1>1, <1>2, <2>7 DEF CallInv, PatchesInv
    <3>2. {d \in ReviewDiff(repo, k.mode, k.revisions) : d.file \notin k.files} = {}
      BY <2>3, <2>6, <2>7 DEF diff
    <3> QED BY <1>1, <2>5, <3>1, <3>2 DEF PatchesInv
  <2>12. CallInv(k, repo')
    BY <2>5, <2>9, <2>10, <2>11 DEF CallInv, MutationInv
  <2>13. k.pc \notin {"idle", "waiting"} /\ call[c].pc \notin {"idle", "waiting"}
    BY <1>1, <2>5
  <2> QED BY <1>1, <1>2, <1>4, <2>1, <2>4, <2>12, <2>13, OneCall
<1> QED BY <1>3, <1>4 DEF Names

\* One more file is done.
LEMMA ReadPatchStep ==
  ASSUME GInv, NEW c \in Callers, ReadPatch(c)
  PROVE  /\ GInv'
         /\ call[c].files = {CHOOSE f \in call[c].files : TRUE}
              /\ (call[c].mode \in Branches \/ ~call[c].disturbed) =>
                call'[c].patches = ReviewDiff(repo, call[c].mode, call[c].revisions)
<1> DEFINE f == CHOOSE f \in call[c].files : TRUE
           diff == ReviewDiff(repo, call[c].mode, call[c].revisions)
           patch == {d \in diff : d.file = f}
           last == call[c].files = {f}
           patches == call[c].patches \cup patch
           files == call[c].files \ {f}
           pc == IF last THEN "idle" ELSE call[c].pc
           result == IF last THEN "ok" ELSE call[c].result
           k == [call[c] EXCEPT !.patches = patches, !.files = files, !.pc = pc, !.result = result]
<1>1. call[c].pc = "patches" /\ repo' = repo
  BY DEF ReadPatch, At
<1>2. /\ WellFormed(repo) /\ WellFormed(repo') /\ CallInv(call[c], repo) /\ lock = c
      /\ call[c] \in Calls /\ call \in [Callers -> Calls]
  BY <1>1, Known
<1>3. lock' = IF last THEN Free ELSE lock
  BY DEF ReadPatch
<1>4. call' = [call EXCEPT ![c] = k]
  BY Zenon DEF ReadPatch
<1>5. patch \in SUBSET [file : Files, old : Versions, new : Versions]
  <2>1. call[c].mode \in {"unstaged", "staged"} \cup Branches
    BY <1>2 DEF Calls
  <2>2. diff \subseteq [file : Files, old : Versions, new : Versions]
    BY <1>1, <1>2, <2>1, ReviewDiffType DEF CallInv, RangeInv
  <2> HIDE DEF diff
  <2> QED BY <2>2
<1>6. \A d \in diff : d \in patch <=> d.file = f
  OBVIOUS
<1>7. patch \subseteq diff
  OBVIOUS
<1> HIDE DEF f, diff, patch
<1>8. /\ patches \in SUBSET [file : Files, old : Versions, new : Versions]
      /\ files \in SUBSET Files
  <2>1. /\ call[c].patches \in SUBSET [file : Files, old : Versions, new : Versions]
        /\ call[c].files \in SUBSET Files
    BY <1>2, Zenon DEF Calls
  <2> QED BY <1>5, <2>1, Zenon
<1>9. /\ pc \in {"idle", "waiting", "prepare", "check", "mutate", "report", "base", "ancestor",
                 "names", "patches", "write", "diff"}
      /\ result \in {"none", "ok", "error"}
  <2>1. call[c].result \in {"none", "ok", "error"}
    BY <1>2, Zenon DEF Calls
  <2> HIDE DEF last
  <2> QED BY <1>1, <2>1
<1> HIDE DEF last, patches, files, pc, result
<1>10. k \in Calls
  BY <1>2, <1>8, <1>9, ZenonT(60) DEF Calls
<1>11. k.pc = pc
  BY <1>2, Zenon DEF Calls
<1>12. k.files = files
  BY <1>2, Zenon DEF Calls
<1>13. k.patches = patches
  BY <1>2, Zenon DEF Calls
<1>14. /\ k.kind = call[c].kind /\ k.mode = call[c].mode /\ k.branch = call[c].branch
       /\ k.revisions = call[c].revisions
  BY <1>2, Zenon DEF Calls
<1>15. k.disturbed = call[c].disturbed
  BY <1>2, Zenon DEF Calls
<1>16. call'[c] = k
  BY <1>2, <1>4, Zenon
<1> HIDE DEF k
<1>17. ASSUME call[c].mode \in Branches \/ ~call[c].disturbed
       PROVE  k.patches = {d \in diff : d.file \notin k.files}
  <2>1. call[c].patches = {d \in diff : d.file \notin call[c].files}
    BY <1>1, <1>2, <1>17 DEF CallInv, PatchesInv, diff
  <2> QED BY <1>6, <1>7, <1>12, <1>13, <2>1 DEF patches, files
<1>18. CallInv(k, repo')
  <2>1. CASE last
    BY <1>11, <2>1, EndedInv DEF pc
  <2>2. CASE ~last
    <3>1. k.pc = "patches"
      BY <1>1, <1>11, <2>2 DEF pc
    <3>2. KindInv(k)
      BY <1>1, <1>2, <1>14, <3>1 DEF CallInv, KindInv
    <3>3. RangeInv(k, repo')
      <4>1. Revisions(k, repo) = Revisions(call[c], repo)
        BY <1>14 DEF Revisions
      <4> QED BY <1>1, <1>2, <1>14, <1>15, <3>1, <4>1 DEF CallInv, RangeInv
    <3>4. PatchesInv(k, repo')
      BY <1>1, <1>14, <1>15, <1>17, <3>1 DEF PatchesInv, diff
    <3> QED BY <3>1, <3>2, <3>3, <3>4 DEF CallInv, MutationInv
  <2> QED BY <2>1, <2>2
<1>19. GInv'
  <2>1. CASE last
    BY <1>1, <1>2, <1>3, <1>4, <1>10, <1>11, <1>18, <2>1, OneCall DEF pc
  <2>2. CASE ~last
    <3>1. k.pc \notin {"idle", "waiting"} /\ call[c].pc \notin {"idle", "waiting"} /\ lock' = lock
      BY <1>1, <1>3, <1>11, <2>2 DEF pc
    <3> QED BY <1>1, <1>2, <1>4, <1>10, <1>18, <3>1, OneCall
  <2> QED BY <2>1, <2>2
<1>20. ASSUME last, call[c].mode \in Branches \/ ~call[c].disturbed
       PROVE  call'[c].patches = diff
  <2>1. k.files = {}
    BY <1>12, <1>20 DEF last, files
  <2> QED BY <1>16, <1>17, <1>20, <2>1
<1> QED BY <1>19, <1>20 DEF last, f, diff

\* PatchService writes one file.
LEMMA WriteFileStep == ASSUME GInv, NEW c \in Callers, WriteFile(c) PROVE GInv'
<1>1. PICK f \in call[c].files, v \in Versions :
        /\ repo' = [repo EXCEPT !.work[f] = v]
        /\ call' = [call EXCEPT ![c].files = @ \ {f},
                     ![c].pc = IF call[c].files = {f} THEN "diff" ELSE @]
  BY Zenon DEF WriteFile
<1> DEFINE pc == IF call[c].files = {f} THEN "diff" ELSE call[c].pc
           k == [call[c] EXCEPT !.files = call[c].files \ {f}, !.pc = pc]
<1>2. call[c].pc = "write" /\ lock' = lock
  BY DEF WriteFile, At
<1>3. WellFormed(repo) /\ CallInv(call[c], repo) /\ lock = c /\ call[c] \in Calls
  BY <1>2, Known
<1>4. call[c].files \in SUBSET Files
  BY <1>3, Zenon DEF Calls
<1>5. WellFormed(repo')
  BY <1>1, <1>3, <1>4, EditedSound DEF Sound
<1>6. call' = [call EXCEPT ![c] = k]
  BY <1>1, Zenon
<1>7. pc \in {"write", "diff"} /\ call[c].files \ {f} \in SUBSET Files
  BY <1>2, <1>4
<1> HIDE DEF pc
<1>8. pc \in {"idle", "waiting", "prepare", "check", "mutate", "report", "base", "ancestor",
               "names", "patches", "write", "diff"}
  BY <1>7
<1>9. k \in Calls
  BY <1>3, <1>7, <1>8, Zenon DEF Calls
<1>10. k.pc = pc
  BY <1>3, Zenon DEF Calls
<1>11. k.kind = call[c].kind /\ k.branch = call[c].branch
  BY <1>3, Zenon DEF Calls
<1> HIDE DEF k
<1>12. KindInv(k)
  BY <1>2, <1>3, <1>7, <1>10, <1>11 DEF CallInv, KindInv
<1>13. CallInv(k, repo')
  BY <1>7, <1>10, <1>12 DEF CallInv, MutationInv, RangeInv, PatchesInv
<1>14. k.pc \notin {"idle", "waiting"} /\ call[c].pc \notin {"idle", "waiting"}
  BY <1>2, <1>7, <1>10
<1> QED BY <1>2, <1>3, <1>5, <1>6, <1>9, <1>13, <1>14, OneCall

\* Only the ghost of a call changes when another writer interferes with it.
LEMMA DisturbedIsCall ==
  ASSUME NEW k \in Calls, NEW x \in BOOLEAN
  PROVE  [k EXCEPT !.disturbed = x] \in Calls
  BY Zenon DEF Calls

\* Somebody else's step: the commits a review resolved are what they were, and the
\* holder of the lock has lost everything else.
LEMMA OtherStep == ASSUME GInv, Other PROVE GInv'
<1>1. WellFormed(repo) /\ call \in [Callers -> Calls] /\ \A c \in Callers : Inside(c) <=> lock = c
  BY DEF GInv, TypeOK
<1>2. Sound(repo, repo')
  <2>1. ASSUME NEW f \in Files, NEW v \in Versions, repo' = [repo EXCEPT !.work[f] = v]
        PROVE  Sound(repo, repo')
    BY <1>1, <2>1, EditedSound
  <2>2. ASSUME NEW f \in Files, repo' = Added(repo, {f}) PROVE Sound(repo, repo')
    BY <1>1, <2>2, AddedSound
  <2>3. ASSUME repo' = Committed(repo) PROVE Sound(repo, repo')
    BY <1>1, <2>3, CommittedSound
  <2>4. ASSUME NEW b \in Branches, CanSwitch(repo, b), repo' = Switched(repo, b)
        PROVE  Sound(repo, repo')
    BY <1>1, <2>4, SwitchedSound DEF CanSwitch
  <2> QED BY <2>1, <2>2, <2>3, <2>4, Zenon DEF Other
<1>3. /\ lock' = lock
      /\ call' = [c \in Callers |->
                    IF lock = c THEN [call[c] EXCEPT !.disturbed = TRUE] ELSE call[c]]
  BY DEF Other
<1>4. ASSUME NEW c \in Callers
      PROVE  /\ call'[c] \in Calls /\ call'[c].pc = call[c].pc
             /\ CallInv(call'[c], repo')
  <2>1. CASE lock # c
    <3>1. call'[c] = call[c]
      BY <1>3, <2>1
    <3>2. call[c].pc \in {"idle", "waiting"}
      BY <1>1, <2>1 DEF Inside
    <3> QED BY <1>1, <3>1, <3>2, OutsideKnowsNothing DEF GInv
  <2>2. CASE lock = c
    <3> DEFINE k == [call[c] EXCEPT !.disturbed = TRUE]
    <3>1. call'[c] = k
      BY <1>3, <2>2
    <3>2. k \in Calls
      <4>1. TRUE \in BOOLEAN
        OBVIOUS
      <4> QED BY <1>1, <4>1, DisturbedIsCall
    <3>3. k.disturbed = TRUE
      BY <1>1, Zenon DEF Calls
    <3>4. /\ k.kind = call[c].kind /\ k.pc = call[c].pc /\ k.mode = call[c].mode
          /\ k.files = call[c].files /\ k.branch = call[c].branch
          /\ k.revisions = call[c].revisions /\ k.patches = call[c].patches
      BY <1>1, ZenonT(30) DEF Calls
    <3> HIDE DEF k
    <3>5. CallInv(call[c], repo)
      BY DEF GInv
    <3>6. KindInv(k)
      BY <3>4, <3>5 DEF CallInv, KindInv
    <3>7. RangeInv(k, repo')
      <4>1. 1 .. Len(repo.commits) \subseteq 1 .. Len(repo'.commits)
        BY <1>1, <1>2, Parts DEF Sound, Extends
      <4> QED BY <3>3, <3>4, <3>5, <4>1 DEF CallInv, RangeInv
    <3>8. PatchesInv(k, repo')
      <4>1. k.pc \in {"waiting", "prepare", "base", "ancestor", "names"} => k.patches = {}
        BY <3>4, <3>5 DEF CallInv, PatchesInv
      <4>2. ASSUME k.pc = "patches", k.mode \in Branches
            PROVE  k.patches = {d \in ReviewDiff(repo', k.mode, k.revisions) : d.file \notin k.files}
        <5>1. k.mode # "unstaged" /\ k.mode # "staged"
          BY <4>2, GitAssumption
        <5>2. /\ k.revisions[1] \in 1 .. Len(repo.commits)
              /\ k.revisions[2] \in 1 .. Len(repo.commits)
          BY <3>4, <3>5, <4>2 DEF CallInv, RangeInv
        <5>3. ReviewDiff(repo', k.mode, k.revisions) = ReviewDiff(repo, k.mode, k.revisions)
          BY <1>2, <5>1, <5>2 DEF Sound, Extends, ReviewDiff
        <5> QED BY <3>4, <3>5, <4>2, <5>3 DEF CallInv, PatchesInv
      <4> QED BY <3>3, <4>1, <4>2 DEF PatchesInv
    <3>9. CallInv(k, repo')
      BY <3>3, <3>6, <3>7, <3>8 DEF CallInv, MutationInv
    <3> QED BY <3>1, <3>2, <3>4, <3>9
  <2> QED BY <2>1, <2>2
<1>5. call' \in [Callers -> Calls]
  <2>1. call' = [c \in Callers |-> call'[c]]
    BY <1>3, Zenon
  <2> QED BY <1>4, <2>1, Zenon
<1>6. \A c \in Callers : Inside(c)' <=> lock' = c
  BY <1>1, <1>3, <1>4 DEF Inside
<1> QED BY <1>2, <1>4, <1>5, <1>6 DEF GInv, TypeOK, Sound

--------------------------------------------------------------------------------
(* The theorems *)

\* Before the first call nobody holds the lock.
THEOREM InitInv == Init => GInv
<1> SUFFICES ASSUME Init PROVE GInv
  OBVIOUS
<1>1. WellFormed(repo)
  BY StartAssumption DEF Init
<1>2. NoCall \in Calls
  <2>1. <<>> \in Seq(Nat)
    OBVIOUS
  <2> QED BY <2>1, Zenon DEF NoCall, Calls
<1>3. call \in [Callers -> Calls] /\ \A c \in Callers : call[c] = NoCall
  BY <1>2, Zenon DEF Init
<1>4. NoCall.pc = "idle"
  BY Zenon DEF NoCall
<1>5. \A c \in Callers : CallInv(call[c], repo)
  BY <1>3, <1>4, EndedInv
<1>6. \A c \in Callers : ~Inside(c) /\ lock # c
  BY <1>3, <1>4, GitAssumption DEF Inside, Init
<1> QED BY <1>1, <1>3, <1>5, <1>6 DEF GInv, TypeOK

\* Every step of a call, and of others, keeps the invariant.
THEOREM StepInv == GInv /\ [Next]_vars => GInv'
<1> SUFFICES ASSUME GInv, [Next]_vars PROVE GInv'
  OBVIOUS
<1>1. ASSUME NEW c \in Callers, Step(c) PROVE GInv'
  BY <1>1, PrepareStep, CheckStep, MutateStep, LastStep, ResolveBaseStep, ResolveRangeStep,
     NamesStep, ReadPatchStep, WriteFileStep DEF Step
<1>2. CASE Next
  BY <1>1, <1>2, CallStep, EnterStep, FailStep, OtherStep DEF Next
<1>3. CASE UNCHANGED vars
  BY <1>3 DEF vars, GInv, TypeOK, Inside
<1> QED BY <1>2, <1>3

\* The service never breaks the repository, whatever fails and whoever else is at
\* work in it; and the lock belongs to the one call that is past it.
THEOREM TypeCorrect == Spec => []TypeOK
<1>1. GInv => TypeOK
  BY DEF GInv
<1> QED BY <1>1, InitInv, StepInv, PTL DEF Spec

\* A call is moved by its own steps only.
LEMMA MovedByItself ==
  ASSUME GInv, Next, NEW c \in Callers, call'[c].pc # call[c].pc
  PROVE  \/ Call(c)
         \/ Enter(c)
         \/ Step(c)
         \/ Fail(c)
<1>1. call \in [Callers -> Calls]
  BY DEF GInv, TypeOK
<1>2. ASSUME NEW d \in Callers, d # c, Call(d) \/ Enter(d) \/ Step(d) \/ Fail(d)
      PROVE  call'[c] = call[c]
  <2>1. CASE Call(d)
    BY <1>1, <1>2, <2>1, Zenon DEF Call
  <2>2. CASE Enter(d) \/ Prepare(d)
    BY <1>1, <1>2, <2>2, Zenon DEF Enter, Prepare, Goto
  <2>3. CASE Check(d)
    BY <1>1, <1>2, <2>3, Zenon DEF Check, End
  <2>4. CASE Mutate(d)
    BY <1>1, <1>2, <2>4, Zenon DEF Mutate, End, Goto
  <2>5. CASE Report(d) \/ DiffOfPatch(d)
    BY <1>1, <1>2, <2>5, Zenon DEF Report, DiffOfPatch, End
  <2>6. CASE ResolveBase(d)
    BY <1>1, <1>2, <2>6, Zenon DEF ResolveBase, End
  <2>7. CASE ResolveRange(d)
    BY <1>1, <1>2, <2>7, Zenon DEF ResolveRange, End
  <2>8. CASE Names(d)
    BY <1>1, <1>2, <2>8, Zenon DEF Names, End
  <2>9. CASE ReadPatch(d)
    BY <1>1, <1>2, <2>9, Zenon DEF ReadPatch
  <2>10. CASE WriteFile(d)
    BY <1>1, <1>2, <2>10, Zenon DEF WriteFile
  <2>11. CASE Fail(d)
    BY <1>1, <1>2, <2>11, Zenon DEF Fail
  <2> QED BY <1>2, <2>1, <2>2, <2>3, <2>4, <2>5, <2>6, <2>7, <2>8, <2>9, <2>10, <2>11 DEF Step
<1>3. ~Other
  <2> SUFFICES ASSUME Other PROVE FALSE
    OBVIOUS
  <2>1. call'[c] = IF lock = c THEN [call[c] EXCEPT !.disturbed = TRUE] ELSE call[c]
    BY Zenon DEF Other
  <2>2. [call[c] EXCEPT !.disturbed = TRUE].pc = call[c].pc
    BY <1>1, Zenon DEF Calls
  <2> QED BY <2>1, <2>2
<1> QED BY <1>2, <1>3 DEF Next

\* How a call that holds the lock can end well.
LEMMA EndsWell ==
  ASSUME GInv, Next, NEW c \in Callers, NEW kind, Ends(c, kind)
  PROVE  /\ lock = c
         /\ \/ kind = "checkout" /\ call[c].pc = "report"
            \/ kind # "checkout" /\ kind # "review"
            \/ kind = "review" /\ ReadPatch(c)
            \/ kind = "review" /\ Names(c) /\ End(c, "ok")
                 /\ {d.file : d \in ReviewDiff(repo, call[c].mode, call[c].revisions)} = {}
<1>1. /\ call[c].kind = kind /\ call[c].pc \notin {"idle", "waiting"} /\ call'[c].pc = "idle"
      /\ call'[c].result = "ok"
  BY DEF Ends, Inside
<1>2. lock = c /\ call[c] \in Calls /\ call \in [Callers -> Calls] /\ KindInv(call[c])
  BY <1>1, Known DEF CallInv
<1>3. ~End(c, "error")
  <2> SUFFICES ASSUME End(c, "error") PROVE FALSE
    OBVIOUS
  <2>1. call'[c].result = "error"
    BY <1>2, Zenon DEF End, Calls
  <2> QED BY <1>1, <2>1
<1>4. ~Call(c) /\ ~Enter(c)
  BY <1>1 DEF Call, Enter, At
<1>5. ~Fail(c)
  <2> SUFFICES ASSUME Fail(c) PROVE FALSE
    OBVIOUS
  <2>1. call'[c].result = "error"
    BY <1>2, Zenon DEF Fail, Calls
  <2> QED BY <1>1, <2>1
<1>6. Step(c)
  BY <1>1, <1>4, <1>5, MovedByItself
<1>7. CASE Prepare(c)
  <2>1. \E pc \in {"base", "names", "write", "check", "mutate"} : Goto(c, pc)
    BY <1>7, SMT DEF Prepare
  <2>2. PICK pc \in {"base", "names", "write", "check", "mutate"} : Goto(c, pc)
    BY <2>1
  <2>3. call'[c].pc = pc
    BY <1>2, <2>2, Zenon DEF Goto, Calls
  <2> QED BY <1>1, <2>2, <2>3
<1>8. CASE call[c].pc \in {"check", "mutate", "report", "write", "diff"}
  <2>1. kind # "review"
    BY <1>1, <1>2, <1>8 DEF KindInv, Kinds
  <2>2. ASSUME kind = "checkout" PROVE call[c].pc = "report"
    <3>1. call[c].pc # "write" /\ call[c].pc # "diff"
      BY <1>1, <1>2, <2>2 DEF KindInv
    <3>2. call[c].pc # "check"
      <4> SUFFICES ASSUME call[c].pc = "check" PROVE FALSE
        OBVIOUS
      <4>1. Check(c)
        BY <1>6 DEF Step, Prepare, Mutate, Report, ResolveBase, ResolveRange, Names, ReadPatch,
                    WriteFile, DiffOfPatch, At
      <4>2. call' = [call EXCEPT ![c].pc = "mutate", ![c].seen = repo.index]
        BY <1>3, <4>1, Zenon DEF Check
      <4>3. call'[c].pc = "mutate"
        BY <1>2, <4>2, Zenon DEF Calls
      <4> QED BY <1>1, <4>3
    <3>3. call[c].pc # "mutate"
      <4> SUFFICES ASSUME call[c].pc = "mutate" PROVE FALSE
        OBVIOUS
      <4>1. Mutate(c)
        BY <1>6 DEF Step, Prepare, Check, Report, ResolveBase, ResolveRange, Names, ReadPatch,
                    WriteFile, DiffOfPatch, At
      <4>2. Goto(c, "report")
        BY <1>3, <4>1 DEF Mutate
      <4>3. call'[c].pc = "report"
        BY <1>2, <4>2, Zenon DEF Goto, Calls
      <4> QED BY <1>1, <4>3
    <3> QED BY <1>8, <3>1, <3>2, <3>3
  <2> QED BY <1>2, <2>1, <2>2
<1>9. CASE ResolveBase(c) \/ ResolveRange(c)
  <2>1. call'[c].pc \in {"ancestor", "names"}
    <3>1. CASE ResolveBase(c)
      <4>1. call'[c].pc = "ancestor"
        BY <1>2, <1>3, <3>1, ZenonT(30) DEF ResolveBase, Calls
      <4> QED BY <4>1
    <3>2. CASE ResolveRange(c)
      <4>1. PICK range : call' = [call EXCEPT ![c].pc = "names", ![c].revisions = range]
        BY <1>3, <3>2, Zenon DEF ResolveRange
      <4>2. call'[c].pc = "names"
        BY <1>2, <4>1, Zenon DEF Calls
      <4> QED BY <4>2
    <3> QED BY <1>9, <3>1, <3>2
  <2> QED BY <1>1, <2>1
<1>10. CASE Names(c)
  <2>1. kind = "review"
    BY <1>1, <1>2, <1>10 DEF KindInv, Names, At
  <2>2. ASSUME ~End(c, "ok") PROVE FALSE
    <3>1. PICK fs : call' = [call EXCEPT ![c].pc = "patches", ![c].files = fs]
      BY <1>10, <2>2, Zenon DEF Names
    <3>2. call'[c].pc = "patches"
      BY <1>2, <3>1, Zenon DEF Calls
    <3> QED BY <1>1, <3>2
  <2>3. {d.file : d \in ReviewDiff(repo, call[c].mode, call[c].revisions)} = {}
    <3> SUFFICES ASSUME {d.file : d \in ReviewDiff(repo, call[c].mode, call[c].revisions)} # {}
                 PROVE FALSE
      OBVIOUS
    <3>1. call'[c].pc = "patches"
      BY <1>2, <1>10, Zenon DEF Names, Calls
    <3> QED BY <1>1, <3>1
  <2> QED BY <1>2, <1>10, <2>1, <2>2, <2>3
<1>11. CASE ReadPatch(c)
  BY <1>1, <1>2, <1>11 DEF KindInv, ReadPatch, At
<1>12. Check(c) \/ Mutate(c) \/ Report(c) \/ WriteFile(c) \/ DiffOfPatch(c) =>
         call[c].pc \in {"check", "mutate", "report", "write", "diff"}
  BY DEF Check, Mutate, Report, WriteFile, DiffOfPatch, At
<1> QED BY <1>6, <1>7, <1>8, <1>9, <1>10, <1>11, <1>12 DEF Step

\* The diff of two commits, or of the index, does not depend on how the other kind
\* of review is told its revisions.
LEMMA ReviewDiffOfKind ==
  ASSUME NEW r, NEW mode \in {"unstaged", "staged"} \cup Branches, mode \notin Branches,
         NEW x, NEW y
  PROVE  ReviewDiff(r, mode, x) = ReviewDiff(r, mode, y)
  BY DEF ReviewDiff

\* The patches of a review are a snapshot: of commits, whatever happens; of what is
\* there, while only the service writes.
LEMMA SnapshotStep ==
  ASSUME GInv, Next, NEW c \in Callers, Ends(c, "review")
  PROVE  /\ call[c].mode \in Branches =>
              call'[c].patches = ReviewDiff(repo, call[c].mode, call[c].revisions)
         /\ ~call[c].disturbed =>
              call'[c].patches = ReviewDiff(repo, call[c].mode,
                IF call[c].mode \notin Branches THEN <<>>
                ELSE <<MergeBase(repo, repo.refs[call[c].mode], HeadCommit(repo)),
                       HeadCommit(repo)>>)
<1> DEFINE diff == ReviewDiff(repo, call[c].mode, call[c].revisions)
<1>1. \/ ReadPatch(c)
      \/ Names(c) /\ End(c, "ok") /\ {d.file : d \in diff} = {}
  BY EndsWell
<1>2. call[c] \in Calls /\ call \in [Callers -> Calls] /\ CallInv(call[c], repo)
  BY Known
<1>3. ASSUME call[c].mode \in Branches \/ ~call[c].disturbed PROVE call'[c].patches = diff
  <2>1. CASE Names(c) /\ End(c, "ok") /\ {d.file : d \in diff} = {}
    <3>1. call'[c].patches = call[c].patches
      BY <1>2, <2>1, Zenon DEF End, Calls
    <3>2. call[c].patches = {}
      BY <1>2, <2>1 DEF Names, At, CallInv, PatchesInv
    <3>3. diff = {}
      BY <2>1
    <3> QED BY <3>1, <3>2, <3>3
  <2>2. CASE ReadPatch(c)
    <3>1. call[c].files = {CHOOSE f \in call[c].files : TRUE}
      <4> SUFFICES ASSUME call[c].files # {CHOOSE f \in call[c].files : TRUE} PROVE FALSE
        OBVIOUS
      <4>1. call'[c].pc = call[c].pc
        BY <1>2, <2>2, Zenon DEF ReadPatch, Calls
      <4> QED BY <2>2, <4>1 DEF Ends, ReadPatch, At
    <3> QED BY <1>3, <2>2, <3>1, ReadPatchStep
  <2> QED BY <1>1, <2>1, <2>2
<1>4. CASE call[c].mode \notin Branches
  <2>1. call[c].mode \in {"unstaged", "staged"} \cup Branches
    BY <1>2 DEF Calls
  <2>2. diff = ReviewDiff(repo, call[c].mode, <<>>)
    BY <1>4, <2>1, ReviewDiffOfKind
  <2> QED BY <1>3, <1>4, <2>2
<1>5. CASE call[c].mode \in Branches
  <2>1. call[c].pc \in {"names", "patches"}
    BY <1>1 DEF Names, ReadPatch, At
  <2>2. ~call[c].disturbed =>
          call[c].revisions = <<MergeBase(repo, repo.refs[call[c].mode], HeadCommit(repo)),
                                HeadCommit(repo)>>
    BY <1>2, <1>5, <2>1 DEF CallInv, RangeInv, Revisions
  <2> QED BY <1>3, <1>5, <2>2
<1> QED BY <1>4, <1>5

\* A review's patches are the diff of one moment.
THEOREM ReviewsAreSnapshots == Spec => ReviewIsSnapshot
<1>1. GInv /\ [Next]_vars =>
        [\A c \in Callers : Ends(c, "review") =>
           /\ call[c].mode \in Branches =>
                call'[c].patches = ReviewDiff(repo, call[c].mode, call[c].revisions)
           /\ ~call[c].disturbed =>
                call'[c].patches = ReviewDiff(repo, call[c].mode,
                  IF call[c].mode \notin Branches THEN <<>>
                  ELSE <<MergeBase(repo, repo.refs[call[c].mode], HeadCommit(repo)),
                         HeadCommit(repo)>>)]_vars
  <2> SUFFICES ASSUME GInv, Next, NEW c \in Callers, Ends(c, "review")
               PROVE  /\ call[c].mode \in Branches =>
                           call'[c].patches = ReviewDiff(repo, call[c].mode, call[c].revisions)
                      /\ ~call[c].disturbed =>
                           call'[c].patches = ReviewDiff(repo, call[c].mode,
                             IF call[c].mode \notin Branches THEN <<>>
                             ELSE <<MergeBase(repo, repo.refs[call[c].mode], HeadCommit(repo)),
                                    HeadCommit(repo)>>)
    OBVIOUS
  <2> QED BY SnapshotStep
<1> QED BY <1>1, InitInv, StepInv, PTL DEF Spec, ReviewIsSnapshot

\* A checkout ends on a clean tree of its branch.
THEOREM CheckoutsStartClean == Spec => CheckoutStartsClean
<1>1. GInv /\ [Next]_vars =>
        [\A c \in Callers : Ends(c, "checkout") /\ ~call[c].disturbed =>
           repo.head = call[c].branch /\ Clean(repo)]_vars
  <2> SUFFICES ASSUME GInv, Next, NEW c \in Callers, Ends(c, "checkout"), ~call[c].disturbed
               PROVE  repo.head = call[c].branch /\ Clean(repo)
    OBVIOUS
  <2>1. call[c].pc = "report" /\ call[c].kind = "checkout"
    BY EndsWell DEF Ends
  <2> QED BY <2>1, Known DEF CallInv, MutationInv
<1> QED BY <1>1, InitInv, StepInv, PTL DEF Spec, CheckoutStartsClean

\* Which steps write.
LEMMA WrittenByHolder ==
  ASSUME GInv, Next, repo' # repo
  PROVE  \/ Other
         \/ \E c \in Callers : lock = c /\ (Mutate(c) \/ WriteFile(c))
<1>1. ASSUME NEW c \in Callers, Call(c) \/ Enter(c) \/ Step(c) \/ Fail(c)
      PROVE  lock = c /\ (Mutate(c) \/ WriteFile(c))
  <2>1. Mutate(c) \/ WriteFile(c)
    BY <1>1 DEF Call, Enter, Step, Fail, Prepare, Check, Report, ResolveBase, ResolveRange, Names,
                ReadPatch, DiffOfPatch
  <2>2. call[c].pc \in {"mutate", "write"}
    BY <2>1 DEF Mutate, WriteFile, At
  <2> QED BY <2>1, <2>2, Known
<1> QED BY <1>1 DEF Next

\* Of what others may do, only a commit adds one.
LEMMA OtherCommits ==
  ASSUME GInv, Other, repo'.commits # repo.commits
  PROVE  repo' = Committed(repo)
<1>1. WellFormed(repo)
  BY DEF GInv, TypeOK
<1>2. ASSUME NEW f \in Files, NEW v \in Versions, repo' = [repo EXCEPT !.work[f] = v]
      PROVE  FALSE
  BY <1>1, <1>2, EditedSound
<1>3. ASSUME NEW f \in Files, repo' = Added(repo, {f}) PROVE FALSE
  BY <1>1, <1>3, AddedSound
<1>4. ASSUME NEW b \in Branches, CanSwitch(repo, b), repo' = Switched(repo, b) PROVE FALSE
  BY <1>1, <1>4, SwitchedSound DEF CanSwitch
<1> QED BY <1>2, <1>3, <1>4, Zenon DEF Other

\* What git commit leaves at the end of the history, also when it is killed.
LEMMA MutateCommits ==
  ASSUME GInv, NEW c \in Callers, Mutate(c), call[c].kind = "commit",
         repo'.commits # repo.commits
  PROVE  /\ repo'.commits[Len(repo'.commits)].tree = repo.index
         /\ repo'.head = repo.head
<1>1. WellFormed(repo)
  BY DEF GInv, TypeOK
<1>2. /\ Effect(c) = Committed(repo)
      /\ Len(Effect(c).commits) = Len(repo.commits) + 1
      /\ Effect(c).commits[Len(repo.commits) + 1].tree = repo.index
      /\ Effect(c).head = repo.head
  BY <1>1, CommittedSound DEF Effect
<1>3. repo' # repo
  OBVIOUS
<1>4. repo' = Effect(c) \/ repo' \in Interrupted(c)
  BY <1>3 DEF Mutate
<1>5. CASE repo' \in Interrupted(c)
  <2>1. repo.stale \in BOOLEAN /\ WellFormed(Effect(c))
    BY <1>1, <1>2, Parts, CommittedSound DEF Sound
  <2>2. PICK r \in {repo, Effect(c)}, stale \in BOOLEAN : repo' = [r EXCEPT !.stale = stale]
    BY <1>5, <2>1 DEF Interrupted
  <2>3. repo'.commits = r.commits /\ repo'.head = r.head
    BY <1>1, <2>1, <2>2, LeftoversSound, Parts
  <2> QED BY <1>2, <2>2, <2>3
<1> QED BY <1>2, <1>4, <1>5

\* A commit records the index that was found to have staged changes.
THEOREM CommitsAreWhatWasStaged == Spec => CommitsWhatWasStaged
<1>1. GInv /\ [Next]_vars =>
        [\A c \in Callers :
           At(c, "mutate") /\ call[c].kind = "commit" /\ repo'.commits # repo.commits
             /\ ~call[c].disturbed =>
               /\ repo'.commits[Len(repo'.commits)].tree = call[c].seen
               /\ repo'.head # Detached]_vars
  <2> SUFFICES ASSUME GInv, Next, NEW c \in Callers, At(c, "mutate"), call[c].kind = "commit",
                      repo'.commits # repo.commits, ~call[c].disturbed
               PROVE  /\ repo'.commits[Len(repo'.commits)].tree = call[c].seen
                      /\ repo'.head # Detached
    BY Zenon
  <2>1. WellFormed(repo) /\ CallInv(call[c], repo) /\ lock = c
    BY Known DEF At
  <2>2. call[c].seen = repo.index /\ repo.head # Detached
    BY <2>1 DEF CallInv, MutationInv, At
  <2>3. CASE Other
    BY <2>1, <2>2, <2>3, OtherCommits, CommittedSound
  <2>4. CASE Mutate(c)
    BY <2>2, <2>4, MutateCommits
  <2>5. ~WriteFile(c)
    BY DEF WriteFile, At
  <2>6. repo' # repo
    OBVIOUS
  <2> QED BY <2>1, <2>3, <2>4, <2>5, <2>6, WrittenByHolder
<1> QED BY <1>1, InitInv, StepInv, PTL DEF Spec, CommitsWhatWasStaged
================================================================================
