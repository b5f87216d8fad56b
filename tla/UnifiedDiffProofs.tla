--------------------------- MODULE UnifiedDiffProofs ---------------------------
(***************************************************************************)
(* Proofs about UnifiedDiff for patches of any size against texts of any   *)
(* size: a patch that is accepted does what its headers declare, and loses *)
(* nothing of the old text.                                                *)
(***************************************************************************)
EXTENDS UnifiedDiff, WellFoundedInduction, SequenceTheorems, FiniteSetTheorems, TLAPS

--------------------------------------------------------------------------------
(* Induction on natural numbers, with a set in place of a predicate. *)

\* A set of natural numbers that is not empty has a least one.
LEMMA NatMin ==
  ASSUME NEW T, T \subseteq Nat, T # {}
  PROVE  \E n \in T : \A m \in T : n <= m
<1> DEFINE R == OpToRel(<, Nat)
<1>1. IsWellFoundedOn(R, Nat)
  BY NatLessThanWellFounded
<1>2. \E x \in T : \A y \in T : ~(<<y, x>> \in R)
  <2> HIDE DEF R
  <2> QED BY <1>1, WFMin
<1>3. \A x, y \in Nat : y < x => <<y, x>> \in R
  BY DEF OpToRel
<1> HIDE DEF R
<1>4. PICK n \in T : \A m \in T : ~(<<m, n>> \in R)
  BY <1>2
<1>5. \A m \in T : ~(m < n)
  BY <1>3, <1>4
<1> QED BY <1>5

\* A set that has 0, and with each number the next, has every natural number.
LEMMA NatSetInduction ==
  ASSUME NEW S, 0 \in S, \A n \in Nat : n \in S => n + 1 \in S
  PROVE  Nat \subseteq S
<1> SUFFICES ASSUME Nat \ S # {} PROVE FALSE
  OBVIOUS
<1>1. PICK n \in Nat \ S : \A m \in Nat \ S : n <= m
  <2>1. Nat \ S \subseteq Nat
    OBVIOUS
  <2> QED BY <2>1, NatMin
<1>2. n # 0
  OBVIOUS
<1>3. n - 1 \in Nat /\ ~(n <= n - 1) /\ (n - 1) + 1 = n
  BY <1>2
<1>4. n - 1 \in S
  BY <1>1, <1>3
<1> QED BY <1>3, <1>4

--------------------------------------------------------------------------------
(* The types *)
Kinds == {" ", "-", "+"}
HunkOf(lines) == [oldStart : Nat, oldCount : Nat, newStart : Nat, newCount : Nat,
                  lines : Seq(lines)]
Parsed == HunkOf([kind : Kinds, lf : BOOLEAN])                \* without words yet
Hunk == HunkOf([kind : Kinds, lf : BOOLEAN, text : Texts])
FilePatch == [old : Paths \cup {Null}, new : Paths \cup {Null}, hunks : Seq(Parsed)]

Types ==
  /\ pc \in {"top", "new", "hunks", "body", "apply", "done", "rejected"}
  /\ files \in Seq(FilePatch) /\ file \in FilePatch /\ hunk \in Parsed
  /\ source \in Sources /\ applied \in Seq(Hunk)
  /\ at \in [cursor : Nat, output : Seq(Line)]

--------------------------------------------------------------------------------
(* The inductive invariant *)

\* A range with lines in it begins at line one or later.
Ranged(h) == (h.oldCount > 0 => h.oldStart > 0) /\ (h.newCount > 0 => h.newStart > 0)

\* A hunk that has the lines its header declares.
Complete(h) ==
  /\ Ranged(h)
  /\ Seen({" ", "-"}, h.lines) = h.oldCount /\ Seen({" ", "+"}, h.lines) = h.newCount

\* What has been parsed.
ParsedInv ==
  /\ pc = "body" => Ranged(hunk) /\ ~Exceeds(hunk)
  /\ \A k \in 1 .. Len(file.hunks) : Complete(file.hunks[k])
  /\ \A j \in 1 .. Len(files) : \A k \in 1 .. Len(files[j].hunks) : Complete(files[j].hunks[k])

\* Where a hunk begins in the old and in the new text, and where the kth hunk ends.
OldFrom(h) == Before(h.oldStart, h.oldCount)
NewFrom(h) == Before(h.newStart, h.newCount)
OldUpTo(hs, k) == IF k = 0 THEN 0 ELSE OldFrom(hs[k]) + hs[k].oldCount
NewUpTo(hs, k) == IF k = 0 THEN 0 ELSE NewFrom(hs[k]) + hs[k].newCount

\* Between two places n lines are the same.
Same(s, a, t, b, n) == \A x \in 1 .. n : s[a + x] = t[b + x]

\* The kth hunk is where its header says, in both texts, and so is what is before it.
Fits(hs, k, text, out) ==
  /\ OldUpTo(hs, k - 1) <= OldFrom(hs[k]) /\ OldUpTo(hs, k) <= Len(text)
  /\ NewUpTo(hs, k - 1) <= NewFrom(hs[k]) /\ NewUpTo(hs, k) <= Len(out)
  /\ OldFrom(hs[k]) - OldUpTo(hs, k - 1) = NewFrom(hs[k]) - NewUpTo(hs, k - 1)
  /\ Same(text, OldFrom(hs[k]), Old(hs[k]), 0, hs[k].oldCount)
  /\ Same(out, NewFrom(hs[k]), New(hs[k]), 0, hs[k].newCount)
  /\ Same(text, OldUpTo(hs, k - 1), out, NewUpTo(hs, k - 1), OldFrom(hs[k]) - OldUpTo(hs, k - 1))

AllFit(hs, text, out) == \A k \in 1 .. Len(hs) : Complete(hs[k]) /\ Fits(hs, k, text, out)

\* A line that shows in the text.
Whole(line) == line.lf \/ line.text # <<>>

OldDone == OldUpTo(applied, Len(applied))
NewDone == NewUpTo(applied, Len(applied))

\* What has been applied.
AppliedInv ==
  /\ AllFit(applied, source, at.output)
  /\ LeavesNoTrace => \A x \in 1 .. Len(at.output) : Whole(at.output[x])
  /\ pc \notin {"apply", "done"} => applied = <<>>
  /\ pc # "done" => at.cursor = OldDone /\ Len(at.output) = NewDone

\* In the end what follows the last hunk has been carried over.
DoneInv ==
  pc = "done" =>
    /\ Len(source) - OldDone \in Nat /\ Len(source) - OldDone = Len(at.output) - NewDone
    /\ Same(source, OldDone, at.output, NewDone, Len(source) - OldDone)
    /\ \A x \in 1 .. Len(at.output) - 1 : at.output[x].lf

Inv == Types /\ ParsedInv /\ AppliedInv /\ DoneInv

--------------------------------------------------------------------------------
(* What the recursive functions of the model compute. *)

\* A recursive function on 0 .. N exists: the one of CHOOSE in its definition.
LEMMA Recursion ==
  ASSUME NEW S, NEW base \in S, NEW N \in Nat, NEW step \in [1 .. N -> [S -> S]]
  PROVE  \E f \in [0 .. N -> S] :
           f[0] = base /\ \A n \in 1 .. N : f[n] = step[n][f[n - 1]]
<1> DEFINE Upto(m) == {f \in [0 .. N -> S] :
                         f[0] = base /\ \A n \in 1 .. N : n <= m => f[n] = step[n][f[n - 1]]}
           T == {m \in Nat : Upto(m) # {}}
<1>1. 0 \in T
  <2>1. [n \in 0 .. N |-> base] \in Upto(0)
    OBVIOUS
  <2> QED BY <2>1
<1>2. ASSUME NEW m \in Nat, m \in T PROVE m + 1 \in T
  <2>1. PICK f \in [0 .. N -> S] :
               f[0] = base /\ \A n \in 1 .. N : n <= m => f[n] = step[n][f[n - 1]]
    BY <1>2
  <2> DEFINE g == [n \in 0 .. N |-> IF n = m + 1 THEN step[n][f[n - 1]] ELSE f[n]]
  <2>2. \A n \in 1 .. N : n - 1 \in 0 .. N /\ step[n][f[n - 1]] \in S
    OBVIOUS
  <2>3. g \in [0 .. N -> S] /\ g[0] = base
    BY <2>1, <2>2
  <2>4. ASSUME NEW n \in 1 .. N, n <= m + 1 PROVE g[n] = step[n][g[n - 1]]
    <3>1. g[n - 1] = f[n - 1]
      BY <2>4
    <3>2. g[n] = step[n][f[n - 1]]
      BY <2>1, <2>4
    <3> QED BY <3>1, <3>2
  <2> HIDE DEF g
  <2>5. g \in Upto(m + 1)
    BY <2>3, <2>4
  <2> QED BY <2>5
<1>3. N \in T
  <2> HIDE DEF T
  <2> QED BY <1>1, <1>2, NatSetInduction
<1>4. PICK f : f \in Upto(N)
  BY <1>3
<1>5. \A n \in 1 .. N : n <= N
  OBVIOUS
<1> QED BY <1>4, <1>5

\* A line of a hunk that has its words.
HunkLine == [kind : Kinds, lf : BOOLEAN, text : Texts]

\* How the lines of the hunk h that are of these kinds are picked, one after the other.
Picks(kinds, h, kept) ==
  /\ kept \in [0 .. Len(h.lines) -> Seq(Line)] /\ kept[0] = <<>>
  /\ \A n \in 1 .. Len(h.lines) :
       kept[n] = IF h.lines[n].kind \in kinds THEN Append(kept[n - 1], Content(h.lines[n]))
                 ELSE kept[n - 1]

\* Lines picks them.
LEMMA LinesPicks ==
  ASSUME NEW kinds, NEW h, h.lines \in Seq(HunkLine)
  PROVE  \E kept : Picks(kinds, h, kept) /\ Lines(kinds, h) = kept[Len(h.lines)]
<1> DEFINE N == Len(h.lines)
           Step(n, s) == IF h.lines[n].kind \in kinds THEN Append(s, Content(h.lines[n])) ELSE s
           Body(g, n) == IF n = 0 THEN <<>> ELSE Step(n, g[n - 1])
           f == CHOOSE g : g = [n \in 0 .. N |-> Body(g, n)]
           step == [n \in 1 .. N |-> [s \in Seq(Line) |-> Step(n, s)]]
<1>1. Lines(kinds, h) = f[N]
  BY DEF Lines
<1>2. N \in Nat /\ <<>> \in Seq(Line)
  OBVIOUS
<1>3. \A n \in 1 .. N : Content(h.lines[n]) \in Line
  <2>1. \A n \in 1 .. N : h.lines[n] \in HunkLine
    OBVIOUS
  <2>2. \A line \in HunkLine : Content(line) \in Line
    BY DEF HunkLine, Content, Line
  <2> QED BY <2>1, <2>2
<1>4. \A n \in 1 .. N : \A s \in Seq(Line) : Step(n, s) \in Seq(Line)
  BY <1>3
<1> HIDE DEF N, Step
<1>5. step \in [1 .. N -> [Seq(Line) -> Seq(Line)]]
  BY <1>4
<1>6. \E g \in [0 .. N -> Seq(Line)] :
         g[0] = <<>> /\ \A n \in 1 .. N : g[n] = step[n][g[n - 1]]
  <2> DEFINE S == Seq(Line)
             none == <<>>
  <2>1. none \in S /\ step \in [1 .. N -> [S -> S]]
    BY <1>2, <1>5
  <2> HIDE DEF step, S, none
  <2>2. \E g \in [0 .. N -> S] : g[0] = none /\ \A n \in 1 .. N : g[n] = step[n][g[n - 1]]
    BY <1>2, <2>1, Recursion
  <2> QED BY <2>2 DEF S, none
<1>7. PICK g \in [0 .. N -> Seq(Line)] :
         g[0] = <<>> /\ \A n \in 1 .. N : g[n] = Step(n, g[n - 1])
  <2>1. PICK g \in [0 .. N -> Seq(Line)] :
          g[0] = <<>> /\ \A n \in 1 .. N : g[n] = step[n][g[n - 1]]
    BY <1>6
  <2>2. ASSUME NEW n \in 1 .. N PROVE step[n][g[n - 1]] = Step(n, g[n - 1])
    <3>1. n - 1 \in 0 .. N
      BY <1>2
    <3>2. g[n - 1] \in Seq(Line)
      BY <3>1
    <3> QED BY <3>2
  <2> HIDE DEF step
  <2> QED BY <2>1, <2>2
<1>8. g = [n \in 0 .. N |-> Body(g, n)]
  <2>1. \A n \in 0 .. N : g[n] = Body(g, n)
    BY <1>2, <1>7
  <2> QED BY <2>1
<1>9. f = [n \in 0 .. N |-> Body(f, n)]
  <2> HIDE DEF Body
  <2>1. \E x : x = [n \in 0 .. N |-> Body(x, n)]
    BY <1>8
  <2> QED BY <2>1, Zenon
<1> HIDE DEF f
<1>10. f[0] = <<>> /\ \A n \in 1 .. N : f[n] = Step(n, f[n - 1])
  BY <1>2, <1>9
<1>11. f \in [0 .. N -> Seq(Line)]
  <2> DEFINE T == {n \in Nat : n \in 0 .. N => f[n] \in Seq(Line)}
  <2>1. 0 \in T
    BY <1>2, <1>10
  <2>2. ASSUME NEW n \in Nat, n \in T PROVE n + 1 \in T
    <3> SUFFICES ASSUME n + 1 \in 0 .. N PROVE f[n + 1] \in Seq(Line)
      OBVIOUS
    <3>1. n \in 0 .. N /\ n + 1 \in 1 .. N /\ (n + 1) - 1 = n
      BY <1>2
    <3>2. f[n + 1] = Step(n + 1, f[n])
      BY <1>10, <3>1
    <3> QED BY <1>4, <2>2, <3>1, <3>2
  <2>3. Nat \subseteq T
    <3> HIDE DEF T
    <3> QED BY <2>1, <2>2, NatSetInduction
  <2>4. \A n \in 0 .. N : f[n] \in Seq(Line)
    BY <1>2, <2>3
  <2> QED BY <1>9, <2>4
<1>12. Picks(kinds, h, f)
  BY <1>10, <1>11 DEF Picks, N, Step
<1> QED BY <1>1, <1>12 DEF N

\* One more line: the number of lines of these kinds among the first n.
LEMMA SeenGrows ==
  ASSUME NEW P, NEW n \in Nat
  PROVE  /\ Cardinality({k \in 1 .. n : k \in P}) \in Nat
         /\ Cardinality({k \in 1 .. n + 1 : k \in P}) =
              IF n + 1 \in P THEN Cardinality({k \in 1 .. n : k \in P}) + 1
              ELSE Cardinality({k \in 1 .. n : k \in P})
<1> DEFINE A == {k \in 1 .. n : k \in P}
<1>1. IsFiniteSet(1 .. n)
  BY FS_Interval
<1>2. IsFiniteSet(A)
  <2>1. A \in SUBSET (1 .. n)
    OBVIOUS
  <2> HIDE DEF A
  <2> QED BY <1>1, <2>1, FS_Subset
<1>3. n + 1 \notin A
  OBVIOUS
<1>4. {k \in 1 .. n + 1 : k \in P} = IF n + 1 \in P THEN A \cup {n + 1} ELSE A
  OBVIOUS
<1> HIDE DEF A
<1>5. Cardinality(A) \in Nat
  BY <1>2, FS_CardinalityType
<1>6. Cardinality(A \cup {n + 1}) = Cardinality(A) + 1
  BY <1>2, <1>3, FS_AddElement
<1> QED BY <1>4, <1>5, <1>6 DEF A

\* The lines of these kinds are as many as are seen, and each is a line of the hunk.
LEMMA LinesAre ==
  ASSUME NEW kinds, NEW h, h.lines \in Seq(HunkLine)
  PROVE  /\ Lines(kinds, h) \in Seq(Line)
         /\ Len(Lines(kinds, h)) = Seen(kinds, h.lines)
         /\ \A x \in 1 .. Len(Lines(kinds, h)) :
              \E k \in 1 .. Len(h.lines) : Lines(kinds, h)[x] = Content(h.lines[k])
<1> DEFINE N == Len(h.lines)
           P == {k \in 1 .. N : h.lines[k].kind \in kinds}
           Count(n) == Cardinality({k \in 1 .. n : k \in P})
<1>1. N \in Nat /\ DOMAIN h.lines = 1 .. N
  OBVIOUS
<1>2. PICK kept : Picks(kinds, h, kept) /\ Lines(kinds, h) = kept[N]
  BY LinesPicks
<1>3. /\ kept \in [0 .. N -> Seq(Line)] /\ kept[0] = <<>>
      /\ \A n \in 1 .. N : kept[n] = IF n \in P THEN Append(kept[n - 1], Content(h.lines[n]))
                                     ELSE kept[n - 1]
  BY <1>2 DEF Picks
<1>4. Count(N) = Seen(kinds, h.lines)
  <2>1. {k \in 1 .. N : k \in P} = {k \in DOMAIN h.lines : h.lines[k].kind \in kinds}
    BY <1>1
  <2> QED BY <2>1 DEF Seen
<1> DEFINE From(n) == \A x \in 1 .. Len(kept[n]) : \E k \in 1 .. n : kept[n][x] = Content(h.lines[k])
           T == {n \in Nat : n \in 0 .. N => Len(kept[n]) = Count(n) /\ From(n)}
<1>5. 0 \in T
  <2>1. {k \in 1 .. 0 : k \in P} = {}
    OBVIOUS
  <2>2. Count(0) = 0
    BY <2>1, FS_EmptySet
  <2>3. Len(kept[0]) = 0
    BY <1>3
  <2> HIDE DEF Count
  <2> QED BY <2>2, <2>3
<1>6. ASSUME NEW n \in Nat, n \in T PROVE n + 1 \in T
  <2> SUFFICES ASSUME n + 1 \in 0 .. N
               PROVE  Len(kept[n + 1]) = Count(n + 1) /\ From(n + 1)
    OBVIOUS
  <2>1. n \in 0 .. N /\ n + 1 \in 1 .. N /\ (n + 1) - 1 = n
    BY <1>1
  <2>2. Len(kept[n]) = Count(n) /\ From(n) /\ kept[n] \in Seq(Line)
    BY <1>3, <1>6, <2>1
  <2>3. Count(n) \in Nat /\ Count(n + 1) = IF n + 1 \in P THEN Count(n) + 1 ELSE Count(n)
    <3> HIDE DEF P
    <3> QED BY SeenGrows
  <2>4. kept[n + 1] = IF n + 1 \in P THEN Append(kept[n], Content(h.lines[n + 1])) ELSE kept[n]
    BY <1>3, <2>1
  <2> HIDE DEF Count, P
  <2>5. Len(kept[n + 1]) = Count(n + 1)
    BY <2>2, <2>3, <2>4
  <2>6. ASSUME NEW x \in 1 .. Len(kept[n + 1])
        PROVE  \E k \in 1 .. n + 1 : kept[n + 1][x] = Content(h.lines[k])
    <3>1. CASE x \in 1 .. Len(kept[n]) /\ kept[n + 1][x] = kept[n][x]
      <4>1. PICK k \in 1 .. n : kept[n][x] = Content(h.lines[k])
        BY <2>2, <3>1
      <4>2. k \in 1 .. n + 1
        OBVIOUS
      <4> QED BY <3>1, <4>1, <4>2
    <3>2. CASE kept[n + 1][x] = Content(h.lines[n + 1])
      <4>1. n + 1 \in 1 .. n + 1
        BY <1>6
      <4> QED BY <3>2, <4>1
    <3>3. \/ x \in 1 .. Len(kept[n]) /\ kept[n + 1][x] = kept[n][x]
          \/ kept[n + 1][x] = Content(h.lines[n + 1])
      <4>1. CASE n + 1 \in P
        <5> DEFINE s == kept[n]
                   c == Content(h.lines[n + 1])
        <5>1. s \in Seq(Line) /\ kept[n + 1] = Append(s, c)
          BY <2>2, <2>4, <4>1
        <5> HIDE DEF s, c
        <5>2. x \in 1 .. Len(s) + 1
          BY <2>6, <5>1
        <5>3. Append(s, c)[x] = IF x \in 1 .. Len(s) THEN s[x] ELSE c
          BY <5>1, <5>2
        <5> QED BY <5>1, <5>3 DEF s, c
      <4>2. CASE n + 1 \notin P
        BY <2>4, <2>6, <4>2
      <4> QED BY <4>1, <4>2
    <3> QED BY <3>1, <3>2, <3>3
  <2> QED BY <2>5, <2>6
<1>7. Nat \subseteq T
  <2> HIDE DEF T
  <2> QED BY <1>5, <1>6, NatSetInduction
<1>8. N \in 0 .. N /\ N \in T
  <2> HIDE DEF T, N
  <2> QED BY <1>1, <1>7
<1> HIDE DEF Count, P
<1>9. kept[N] \in Seq(Line) /\ Len(kept[N]) = Count(N) /\ From(N)
  BY <1>3, <1>8
<1> QED BY <1>2, <1>4, <1>9

\* Two hunks have the same lines under the kinds that are picked from each.
Alike(here, h, there, g) ==
  /\ h.lines \in Seq(HunkLine) /\ g.lines \in Seq(HunkLine) /\ Len(g.lines) = Len(h.lines)
  /\ \A k \in 1 .. Len(h.lines) : /\ h.lines[k].kind \in here <=> g.lines[k].kind \in there
                                  /\ Content(h.lines[k]) = Content(g.lines[k])

\* Such hunks give the same lines.
LEMMA LinesAlike ==
  ASSUME NEW here, NEW h, NEW there, NEW g, Alike(here, h, there, g)
  PROVE  Lines(here, h) = Lines(there, g) /\ Seen(here, h.lines) = Seen(there, g.lines)
<1> USE DEF Alike
<1> DEFINE N == Len(h.lines)
<1>1. N \in Nat
  OBVIOUS
<1>2. PICK f : Picks(here, h, f) /\ Lines(here, h) = f[N]
  BY LinesPicks
<1>3. PICK e : Picks(there, g, e) /\ Lines(there, g) = e[N]
  BY LinesPicks
<1> DEFINE T == {n \in Nat : n \in 0 .. N => f[n] = e[n]}
<1>4. f[0] = e[0]
  BY <1>2, <1>3 DEF Picks
<1>5. ASSUME NEW n \in 1 .. N, f[n - 1] = e[n - 1] PROVE f[n] = e[n]
  <2>1. f[n] = IF h.lines[n].kind \in here THEN Append(f[n - 1], Content(h.lines[n])) ELSE f[n - 1]
    BY <1>2 DEF Picks
  <2>2. e[n] = IF g.lines[n].kind \in there THEN Append(e[n - 1], Content(g.lines[n])) ELSE e[n - 1]
    BY <1>3 DEF Picks
  <2> QED BY <1>5, <2>1, <2>2, Zenon
<1>6. ASSUME NEW n \in Nat, n \in T PROVE n + 1 \in T
  <2> SUFFICES ASSUME n + 1 \in 0 .. N PROVE f[n + 1] = e[n + 1]
    OBVIOUS
  <2>1. n \in 0 .. N /\ n + 1 \in 1 .. N /\ (n + 1) - 1 = n
    BY <1>1
  <2>2. f[n] = e[n]
    BY <1>6, <2>1
  <2> QED BY <1>5, <2>1, <2>2
<1>7. 0 \in T
  BY <1>4
<1>8. Nat \subseteq T
  <2> HIDE DEF T
  <2> QED BY <1>6, <1>7, NatSetInduction
<1>9. f[N] = e[N]
  BY <1>1, <1>8
<1>10. {k \in DOMAIN h.lines : h.lines[k].kind \in here} = {k \in DOMAIN g.lines : g.lines[k].kind \in there}
  OBVIOUS
<1> QED BY <1>2, <1>3, <1>9, <1>10 DEF Seen

\* The fields of a hunk.
LEMMA HunkFields ==
  ASSUME NEW h \in Hunk
  PROVE  /\ h.oldStart \in Nat /\ h.oldCount \in Nat /\ h.newStart \in Nat /\ h.newCount \in Nat
         /\ h.lines \in Seq(HunkLine)
BY Zenon DEF Hunk, HunkOf, HunkLine

\* A complete hunk has as many old and new lines as its header declares.
LEMMA Sides ==
  ASSUME NEW h \in Hunk, Complete(h)
  PROVE  /\ Old(h) \in Seq(Line) /\ Len(Old(h)) = h.oldCount
         /\ New(h) \in Seq(Line) /\ Len(New(h)) = h.newCount
<1>1. h.lines \in Seq(HunkLine)
  BY HunkFields
<1>2. Seen({" ", "-"}, h.lines) = h.oldCount /\ Seen({" ", "+"}, h.lines) = h.newCount
  BY DEF Complete
<1> QED BY <1>1, <1>2, LinesAre DEF Old, New

\* The lines of a hunk whose lines are whole are whole.
LEMMA WholeSides ==
  ASSUME NEW h \in Hunk, Complete(h), \A line \in Range(h.lines) : Whole(line)
  PROVE  /\ \A x \in 1 .. Len(Old(h)) : Whole(Old(h)[x])
         /\ \A x \in 1 .. Len(New(h)) : Whole(New(h)[x])
<1>1. h.lines \in Seq(HunkLine)
  BY HunkFields
<1>2. ASSUME NEW k \in 1 .. Len(h.lines) PROVE Whole(Content(h.lines[k]))
  <2>1. h.lines[k] \in Range(h.lines)
    BY <1>1 DEF Range
  <2>2. Whole(h.lines[k])
    BY <2>1
  <2> QED BY <2>2 DEF Whole, Content
<1>3. ASSUME NEW kinds PROVE \A x \in 1 .. Len(Lines(kinds, h)) : Whole(Lines(kinds, h)[x])
  BY <1>1, <1>2, LinesAre
<1> QED BY <1>3 DEF Old, New

\* Read backwards, the old lines of a hunk are its new lines, and the new its old.
LEMMA BothWays ==
  ASSUME NEW h \in Hunk
  PROVE  /\ Reversed(h) \in Hunk
         /\ Old(Reversed(h)) = New(h) /\ New(Reversed(h)) = Old(h)
         /\ Complete(h) => Complete(Reversed(h))
<1> DEFINE g == Reversed(h)
           lines == [k \in DOMAIN h.lines |-> [h.lines[k] EXCEPT !.kind = Swapped(@)]]
<1>1. h.lines \in Seq(HunkLine)
  BY HunkFields
<1>2. ASSUME NEW line \in HunkLine
      PROVE  /\ [line EXCEPT !.kind = Swapped(@)] \in HunkLine
             /\ [line EXCEPT !.kind = Swapped(@)].kind = Swapped(line.kind)
             /\ Content([line EXCEPT !.kind = Swapped(@)]) = Content(line)
             /\ line.kind \in Kinds
  <2>1. line.kind \in Kinds
    BY Zenon DEF HunkLine
  <2>2. Swapped(line.kind) \in Kinds
    BY <2>1 DEF Kinds, Swapped
  <2>3. [line EXCEPT !.kind = Swapped(@)] \in HunkLine
    BY <2>2, Zenon DEF HunkLine
  <2>4. [line EXCEPT !.kind = Swapped(@)].kind = Swapped(line.kind)
    BY Zenon DEF HunkLine
  <2>5. /\ [line EXCEPT !.kind = Swapped(@)].text = line.text
        /\ [line EXCEPT !.kind = Swapped(@)].lf = line.lf
    BY Zenon DEF HunkLine
  <2> QED BY <2>1, <2>3, <2>4, <2>5, Zenon DEF Content
<1>3. DOMAIN h.lines = 1 .. Len(h.lines) /\ \A k \in 1 .. Len(h.lines) : h.lines[k] \in HunkLine
  BY <1>1
<1>4. lines \in Seq(HunkLine) /\ Len(lines) = Len(h.lines)
  <2>1. \A k \in 1 .. Len(h.lines) : lines[k] \in HunkLine
    BY <1>2, <1>3
  <2>2. Len(h.lines) \in Nat /\ lines = [k \in 1 .. Len(h.lines) |-> lines[k]]
    BY <1>1, <1>3
  <2> HIDE DEF lines
  <2> QED BY <2>1, <2>2, IsASeq
<1>5. ASSUME NEW k \in 1 .. Len(h.lines)
      PROVE  /\ lines[k].kind = Swapped(h.lines[k].kind) /\ Content(lines[k]) = Content(h.lines[k])
             /\ h.lines[k].kind \in Kinds
  BY <1>2, <1>3
<1>6. ASSUME NEW kind \in Kinds
      PROVE  /\ kind \in {" ", "+"} <=> Swapped(kind) \in {" ", "-"}
             /\ kind \in {" ", "-"} <=> Swapped(kind) \in {" ", "+"}
  BY DEF Kinds, Swapped
<1>7. /\ g.lines = lines /\ g.oldStart = h.newStart /\ g.oldCount = h.newCount
      /\ g.newStart = h.oldStart /\ g.newCount = h.oldCount
  BY DEF Reversed
<1>8. g \in Hunk
  <2>1. /\ h.oldStart \in Nat /\ h.oldCount \in Nat /\ h.newStart \in Nat /\ h.newCount \in Nat
    BY HunkFields
  <2>2. g = [oldStart |-> h.newStart, oldCount |-> h.newCount, newStart |-> h.oldStart,
             newCount |-> h.oldCount, lines |-> lines]
    BY DEF Reversed
  <2> HIDE DEF g, lines
  <2> QED BY <1>4, <2>1, <2>2, Zenon DEF Hunk, HunkOf, HunkLine
<1> HIDE DEF g, lines
<1> DEFINE old == {" ", "-"}
           new == {" ", "+"}
<1>9. /\ g.lines \in Seq(HunkLine) /\ Len(g.lines) = Len(h.lines)
      /\ \A k \in 1 .. Len(h.lines) :
           /\ h.lines[k].kind \in new <=> g.lines[k].kind \in old
           /\ h.lines[k].kind \in old <=> g.lines[k].kind \in new
           /\ Content(h.lines[k]) = Content(g.lines[k])
  <2>1. g.lines \in Seq(HunkLine) /\ Len(g.lines) = Len(h.lines)
    BY <1>4, <1>7
  <2>2. ASSUME NEW k \in 1 .. Len(h.lines)
        PROVE  /\ g.lines[k].kind = Swapped(h.lines[k].kind) /\ h.lines[k].kind \in Kinds
               /\ Content(g.lines[k]) = Content(h.lines[k])
    BY <1>5, <1>7
  <2> HIDE DEF old, new
  <2>3. \A kind \in Kinds : /\ kind \in new <=> Swapped(kind) \in old
                            /\ kind \in old <=> Swapped(kind) \in new
    BY <1>6 DEF old, new
  <2> QED BY <2>1, <2>2, <2>3
<1> HIDE DEF old, new
<1>10. Lines(new, h) = Lines(old, g) /\ Seen(new, h.lines) = Seen(old, g.lines)
  <2>1. Alike(new, h, old, g)
    BY <1>1, <1>9 DEF Alike
  <2> QED BY <2>1, LinesAlike
<1>11. Lines(old, h) = Lines(new, g) /\ Seen(old, h.lines) = Seen(new, g.lines)
  <2>1. Alike(old, h, new, g)
    BY <1>1, <1>9 DEF Alike
  <2> QED BY <2>1, LinesAlike
<1>12. Complete(h) => Complete(g)
  BY <1>7, <1>10, <1>11 DEF Complete, Ranged, old, new
<1> QED BY <1>8, <1>10, <1>11, <1>12 DEF Old, New, g, old, new

\* A text whose lines are whole and in which only the last one lacks its line feed
\* splits into these lines.
LEMMA SplitWhole ==
  ASSUME NEW out \in Seq(Line), \A x \in 1 .. Len(out) : Whole(out[x]),
         \A x \in 1 .. Len(out) - 1 : out[x].lf
  PROVE  Split(out) = out
<1> DEFINE N == Len(out)
           join(lines, line) ==
             IF lines # <<>> /\ ~Last(lines).lf
             THEN Front(lines) \o <<[text |-> Last(lines).text \o line.text, lf |-> line.lf]>>
             ELSE Append(lines, line)
           Body(g, n) == IF n = 0 THEN <<>> ELSE join(g[n - 1], out[n])
           f == CHOOSE g : g = [n \in 0 .. N |-> Body(g, n)]
           e == [n \in 0 .. N |-> SubSeq(out, 1, n)]
<1>1. N \in Nat
  OBVIOUS
<1>2. ASSUME NEW n \in 0 .. N
      PROVE  /\ SubSeq(out, 1, n) \in Seq(Line) /\ Len(SubSeq(out, 1, n)) = n
             /\ \A x \in 1 .. n : SubSeq(out, 1, n)[x] = out[x]
  OBVIOUS
<1>3. ASSUME NEW n \in 1 .. N PROVE join(SubSeq(out, 1, n - 1), out[n]) = SubSeq(out, 1, n)
  <2> DEFINE s == SubSeq(out, 1, n - 1)
  <2>1. s \in Seq(Line) /\ Len(s) = n - 1 /\ \A x \in 1 .. n - 1 : s[x] = out[x]
    BY <1>2
  <2>2. Append(s, out[n]) = SubSeq(out, 1, n)
    OBVIOUS
  <2> HIDE DEF s
  <2>3. s # <<>> => Last(s).lf
    <3> SUFFICES ASSUME s # <<>> PROVE s[n - 1].lf
      BY <2>1 DEF Last
    <3>1. n - 1 \in 1 .. Len(out) - 1
      BY <2>1
    <3>2. out[n - 1].lf
      BY <3>1
    <3>3. s[n - 1] = out[n - 1]
      BY <2>1, <3>1
    <3> QED BY <3>2, <3>3
  <2>4. join(s, out[n]) = Append(s, out[n])
    BY <2>3
  <2> QED BY <2>2, <2>4 DEF s
<1> HIDE DEF join
<1>4. e = [n \in 0 .. N |-> Body(e, n)]
  <2>1. ASSUME NEW n \in 0 .. N PROVE e[n] = Body(e, n)
    <3>1. CASE n = 0
      BY <1>1, <3>1
    <3>2. CASE n # 0
      <4>1. n \in 1 .. N /\ n - 1 \in 0 .. N
        BY <1>1, <3>2
      <4>2. e[n] = SubSeq(out, 1, n) /\ e[n - 1] = SubSeq(out, 1, n - 1)
        BY <4>1
      <4> HIDE DEF e
      <4> QED BY <1>3, <3>2, <4>1, <4>2
    <3> QED BY <3>1, <3>2
  <2>2. e = [n \in 0 .. N |-> e[n]]
    OBVIOUS
  <2> HIDE DEF e, Body
  <2> QED BY <2>1, <2>2
<1>5. f = [n \in 0 .. N |-> Body(f, n)]
  <2> HIDE DEF e, Body
  <2>1. \E x : x = [n \in 0 .. N |-> Body(x, n)]
    BY <1>4
  <2> QED BY <2>1, Zenon
<1> HIDE DEF f
<1>6. f[0] = <<>> /\ \A n \in 1 .. N : f[n] = join(f[n - 1], out[n])
  BY <1>1, <1>5
<1> DEFINE T == {n \in Nat : n \in 0 .. N => f[n] = SubSeq(out, 1, n)}
<1>7. 0 \in T
  <2>1. SubSeq(out, 1, 0) = <<>>
    OBVIOUS
  <2>2. f[0] = SubSeq(out, 1, 0)
    BY <1>6, <2>1, Zenon
  <2> QED BY <2>2
<1>8. ASSUME NEW n \in Nat, n \in T PROVE n + 1 \in T
  <2> SUFFICES ASSUME n + 1 \in 0 .. N PROVE f[n + 1] = SubSeq(out, 1, n + 1)
    OBVIOUS
  <2>1. n \in 0 .. N /\ n + 1 \in 1 .. N /\ (n + 1) - 1 = n
    BY <1>1
  <2>2. f[n] = SubSeq(out, 1, n)
    BY <1>8, <2>1
  <2>3. join(SubSeq(out, 1, n), out[n + 1]) = SubSeq(out, 1, n + 1)
    BY <1>3, <2>1
  <2> QED BY <1>6, <2>1, <2>2, <2>3
<1>9. Nat \subseteq T
  <2> HIDE DEF T
  <2> QED BY <1>7, <1>8, NatSetInduction
<1>10. f[N] = out
  <2>1. SubSeq(out, 1, N) = out
    OBVIOUS
  <2>2. f[N] = SubSeq(out, 1, N)
    BY <1>1, <1>9
  <2> QED BY <2>1, <2>2
<1>11. ~(f[N] # <<>> /\ ~Last(f[N]).lf /\ Last(f[N]).text = <<>>)
  <2> SUFFICES ASSUME out # <<>>, ~Last(out).lf, Last(out).text = <<>> PROVE FALSE
    BY <1>10
  <2>1. N \in 1 .. Len(out)
    BY <1>1
  <2>2. Whole(out[N])
    BY <2>1
  <2> QED BY <2>2 DEF Whole, Last
<1> QED BY <1>10, <1>11 DEF Split, join, f

--------------------------------------------------------------------------------
(* Places in the texts. *)

\* These are the parts of all, one after the other.
Joins(all, a, b, c) ==
  /\ Len(all) = Len(a) + Len(b) + Len(c)
  /\ \A x \in 1 .. Len(a) : all[x] = a[x]
  /\ \A x \in 1 .. Len(b) : all[Len(a) + x] = b[x]
  /\ \A x \in 1 .. Len(c) : all[Len(a) + Len(b) + x] = c[x]

\* A sequence that was put together has its parts.
LEMMA Parts ==
  ASSUME NEW S, NEW a \in Seq(S), NEW b \in Seq(S), NEW c \in Seq(S)
  PROVE  a \o b \o c \in Seq(S) /\ Joins(a \o b \o c, a, b, c)
<1> DEFINE d == a \o b
<1>1. /\ d \in Seq(S) /\ Len(d) = Len(a) + Len(b)
      /\ \A x \in 1 .. Len(d) : d[x] = IF x <= Len(a) THEN a[x] ELSE b[x - Len(a)]
  BY ConcatProperties
<1> HIDE DEF d
<1>2. /\ d \o c \in Seq(S) /\ Len(d \o c) = Len(d) + Len(c)
      /\ \A x \in 1 .. Len(d) + Len(c) : (d \o c)[x] = IF x <= Len(d) THEN d[x] ELSE c[x - Len(d)]
  <2>1. d \in Seq(S)
    BY <1>1
  <2> QED BY <2>1, ConcatProperties
<1> DEFINE e == d \o c
<1> HIDE DEF e
<1>3. Len(a) \in Nat /\ Len(b) \in Nat /\ Len(c) \in Nat
  OBVIOUS
<1>4. ASSUME NEW x \in 1 .. Len(a) PROVE e[x] = a[x]
  <2>1. x \in 1 .. Len(d) /\ x \in 1 .. Len(d) + Len(c) /\ x <= Len(d) /\ x <= Len(a)
    BY <1>1, <1>3
  <2> QED BY <1>1, <1>2, <2>1 DEF e
<1>5. ASSUME NEW x \in 1 .. Len(b) PROVE e[Len(a) + x] = b[x]
  <2>1. /\ Len(a) + x \in 1 .. Len(d) /\ Len(a) + x \in 1 .. Len(d) + Len(c)
        /\ Len(a) + x <= Len(d) /\ ~(Len(a) + x <= Len(a)) /\ (Len(a) + x) - Len(a) = x
    BY <1>1, <1>3
  <2>2. d[Len(a) + x] = b[x]
    BY <1>1, <2>1
  <2>3. e[Len(a) + x] = d[Len(a) + x]
    BY <1>2, <2>1 DEF e
  <2> QED BY <2>2, <2>3
<1>6. ASSUME NEW x \in 1 .. Len(c) PROVE e[Len(a) + Len(b) + x] = c[x]
  <2>1. /\ Len(a) + Len(b) + x \in 1 .. Len(d) + Len(c) /\ ~(Len(a) + Len(b) + x <= Len(d))
        /\ (Len(a) + Len(b) + x) - Len(d) = x
    BY <1>1, <1>3
  <2> QED BY <1>2, <2>1 DEF e
<1>7. e \in Seq(S) /\ Joins(e, a, b, c)
  BY <1>1, <1>2, <1>3, <1>4, <1>5, <1>6 DEF Joins, e
<1> QED BY <1>7 DEF d, e

\* A piece of a text.
LEMMA Piece ==
  ASSUME NEW S, NEW s \in Seq(S), NEW a \in Nat, NEW b \in Nat, a <= b, b <= Len(s)
  PROVE  /\ SubSeq(s, a + 1, b) \in Seq(S) /\ Len(SubSeq(s, a + 1, b)) = b - a
         /\ \A x \in 1 .. b - a : SubSeq(s, a + 1, b)[x] = s[a + x]
<1> DEFINE m == a + 1
<1>1. /\ m \in 1 .. Len(s) + 1 /\ b \in m - 1 .. Len(s) /\ b - m + 1 = b - a
      /\ \A x \in Nat : m + x - 1 = a + x
  OBVIOUS
<1>2. /\ SubSeq(s, m, b) \in Seq(S) /\ Len(SubSeq(s, m, b)) = IF m <= b THEN b - m + 1 ELSE 0
      /\ \A i \in 1 .. b - m + 1 : SubSeq(s, m, b)[i] = s[m + i - 1]
  <2> HIDE DEF m
  <2> QED BY <1>1, SubSeqProperties
<1>3. m <= b \/ b - a = 0
  OBVIOUS
<1> QED BY <1>1, <1>2, <1>3

\* The places a complete hunk names are numbers.
LEMMA PlacesAreNumbers ==
  ASSUME NEW h \in Hunk, Complete(h)
  PROVE  OldFrom(h) \in Nat /\ NewFrom(h) \in Nat
<1>1. h.oldStart \in Nat /\ h.oldCount \in Nat /\ h.newStart \in Nat /\ h.newCount \in Nat
  BY HunkFields
<1>2. (h.oldCount > 0 => h.oldStart > 0) /\ (h.newCount > 0 => h.newStart > 0)
  BY DEF Complete, Ranged
<1> QED BY <1>1, <1>2 DEF OldFrom, NewFrom, Before

\* So are the ends of complete hunks.
LEMMA EndsAreNumbers ==
  ASSUME NEW hs \in Seq(Hunk), \A j \in 1 .. Len(hs) : Complete(hs[j]), NEW k \in 0 .. Len(hs)
  PROVE  OldUpTo(hs, k) \in Nat /\ NewUpTo(hs, k) \in Nat
<1>1. CASE k = 0
  BY <1>1 DEF OldUpTo, NewUpTo
<1>2. CASE k # 0
  <2>1. k \in 1 .. Len(hs) /\ hs[k] \in Hunk /\ Complete(hs[k])
    BY <1>2
  <2> QED BY <1>2, <2>1, HunkFields, PlacesAreNumbers DEF OldUpTo, NewUpTo
<1> QED BY <1>1, <1>2

\* A hunk goes on fitting when hunks are added after it and lines after the output.
LEMMA FitsOn ==
  ASSUME NEW hs \in Seq(Hunk), \A j \in 1 .. Len(hs) : Complete(hs[j]), NEW k \in 1 .. Len(hs),
         NEW text, NEW out \in Seq(Line), Fits(hs, k, text, out),
         NEW gs, \A j \in 1 .. k : gs[j] = hs[j],
         NEW longer \in Seq(Line), Len(out) <= Len(longer),
         \A x \in 1 .. Len(out) : longer[x] = out[x]
  PROVE  Fits(gs, k, text, longer)
<1> DEFINE h == hs[k]
<1>1. /\ k - 1 \in 0 .. Len(hs) /\ k \in 1 .. k /\ h \in Hunk /\ Complete(h)
      /\ k - 1 = 0 \/ k - 1 \in 1 .. k
  OBVIOUS
<1>2. gs[k] = h /\ OldUpTo(gs, k - 1) = OldUpTo(hs, k - 1) /\ NewUpTo(gs, k - 1) = NewUpTo(hs, k - 1)
  BY <1>1 DEF OldUpTo, NewUpTo
<1>3. OldUpTo(gs, k) = OldUpTo(hs, k) /\ NewUpTo(gs, k) = NewUpTo(hs, k)
  BY <1>1 DEF OldUpTo, NewUpTo
<1>4. NewUpTo(hs, k - 1) \in Nat /\ OldUpTo(hs, k - 1) \in Nat
  BY <1>1, EndsAreNumbers
<1>5. NewFrom(h) \in Nat /\ OldFrom(h) \in Nat /\ h.newCount \in Nat
  BY <1>1, PlacesAreNumbers, HunkFields
<1>6. NewUpTo(hs, k) = NewFrom(h) + h.newCount
  BY <1>1 DEF NewUpTo
<1> HIDE DEF h
<1>7. /\ OldUpTo(hs, k - 1) <= OldFrom(h) /\ OldUpTo(hs, k) <= Len(text)
      /\ NewUpTo(hs, k - 1) <= NewFrom(h) /\ NewUpTo(hs, k) <= Len(out)
      /\ OldFrom(h) - OldUpTo(hs, k - 1) = NewFrom(h) - NewUpTo(hs, k - 1)
      /\ Same(text, OldFrom(h), Old(h), 0, h.oldCount)
      /\ Same(out, NewFrom(h), New(h), 0, h.newCount)
      /\ Same(text, OldUpTo(hs, k - 1), out, NewUpTo(hs, k - 1), OldFrom(h) - OldUpTo(hs, k - 1))
  BY DEF Fits, h
<1>8. Len(out) \in Nat /\ Len(longer) \in Nat
  OBVIOUS
<1>9. NewUpTo(hs, k) <= Len(longer)
  BY <1>5, <1>6, <1>7, <1>8
<1>10. Same(longer, NewFrom(h), New(h), 0, h.newCount)
  <2>1. \A x \in 1 .. h.newCount : NewFrom(h) + x \in 1 .. Len(out)
    BY <1>5, <1>6, <1>7, <1>8
  <2> QED BY <1>7, <2>1 DEF Same
<1>11. Same(text, OldUpTo(hs, k - 1), longer, NewUpTo(hs, k - 1), OldFrom(h) - OldUpTo(hs, k - 1))
  <2>1. \A x \in 1 .. OldFrom(h) - OldUpTo(hs, k - 1) : NewUpTo(hs, k - 1) + x \in 1 .. Len(out)
    BY <1>4, <1>5, <1>6, <1>7, <1>8, SMTT(30)
  <2> QED BY <1>7, <2>1 DEF Same
<1> QED BY <1>2, <1>3, <1>7, <1>9, <1>10, <1>11 DEF Fits

\* Where the last of these hunks ends.
OldEndOf(hs) == OldUpTo(hs, Len(hs))
NewEndOf(hs) == NewUpTo(hs, Len(hs))

\* The ends of hunks that fit are in the texts.
LEMMA EndsAreInside ==
  ASSUME NEW hs \in Seq(Hunk), NEW text \in Seq(Line), NEW out \in Seq(Line), AllFit(hs, text, out)
  PROVE  /\ OldEndOf(hs) \in Nat /\ OldEndOf(hs) <= Len(text)
         /\ NewEndOf(hs) \in Nat /\ NewEndOf(hs) <= Len(out)
<1>1. Len(hs) \in 0 .. Len(hs) /\ \A j \in 1 .. Len(hs) : Complete(hs[j])
  BY DEF AllFit
<1>2. OldEndOf(hs) \in Nat /\ NewEndOf(hs) \in Nat
  BY <1>1, EndsAreNumbers DEF OldEndOf, NewEndOf
<1>3. CASE Len(hs) = 0
  BY <1>2, <1>3 DEF OldEndOf, NewEndOf, OldUpTo, NewUpTo
<1>4. CASE Len(hs) # 0
  <2>1. Len(hs) \in 1 .. Len(hs)
    BY <1>4
  <2>2. Fits(hs, Len(hs), text, out)
    BY <2>1 DEF AllFit
  <2> QED BY <1>2, <2>2 DEF Fits, OldEndOf, NewEndOf
<1> QED BY <1>3, <1>4

\* What apply_hunks does with a hunk that is placed and matches: it fits, and what was
\* applied before still does.
LEMMA Grows ==
  ASSUME NEW hs \in Seq(Hunk), NEW text \in Seq(Line), NEW here, NEW out \in Seq(Line),
         here.output = out, AllFit(hs, text, out),
         here.cursor = OldEndOf(hs), Len(out) = NewEndOf(hs),
         NEW h \in Hunk, Complete(h), Placed(text, here, h), Matches(text, h)
  PROVE  LET next == Advance(text, here, h)
             gs == Append(hs, h)
         IN /\ next.output \in Seq(Line) /\ AllFit(gs, text, next.output)
            /\ next.cursor = OldEndOf(gs) /\ Len(next.output) = NewEndOf(gs)
            /\ (/\ \A x \in 1 .. Len(out) : Whole(out[x])
                /\ \A x \in 1 .. Len(text) : Whole(text[x])
                /\ \A line \in Range(h.lines) : Whole(line))
               => \A x \in 1 .. Len(next.output) : Whole(next.output[x])
<1> DEFINE next == Advance(text, here, h)
           gs == Append(hs, h)
           n == Len(hs)
           c == here.cursor
           p == OldFrom(h)
           o == Len(out)
           piece == SubSeq(text, c + 1, p)
           longer == out \o piece \o New(h)
<1>1. n \in Nat /\ o \in Nat /\ Len(text) \in Nat
  OBVIOUS
<1>2. gs \in Seq(Hunk) /\ Len(gs) = n + 1 /\ gs[n + 1] = h /\ \A j \in 1 .. n : gs[j] = hs[j]
  OBVIOUS
<1>3. c \in Nat /\ p \in Nat /\ NewFrom(h) \in Nat /\ h.oldCount \in Nat /\ h.newCount \in Nat
  BY EndsAreInside, PlacesAreNumbers, HunkFields
<1>4. /\ Old(h) \in Seq(Line) /\ Len(Old(h)) = h.oldCount
      /\ New(h) \in Seq(Line) /\ Len(New(h)) = h.newCount
  BY Sides
<1>5. c <= p /\ p <= Len(text) /\ NewFrom(h) = o + p - c
  BY <1>3 DEF Placed, OldFrom, NewFrom
<1>6. p + h.oldCount <= Len(text) /\ Old(h) = SubSeq(text, p + 1, p + h.oldCount)
  BY <1>4 DEF Matches, OldFrom
<1>7. next.cursor = p + h.oldCount /\ next.output = longer
  BY <1>4 DEF Advance, OldFrom
<1>8. piece \in Seq(Line) /\ Len(piece) = p - c /\ \A x \in 1 .. p - c : piece[x] = text[c + x]
  BY <1>1, <1>3, <1>5, Piece, SMTT(30)
<1>9. \A x \in 1 .. h.oldCount : Old(h)[x] = text[p + x]
  <2>1. p + h.oldCount \in Nat /\ p <= p + h.oldCount /\ (p + h.oldCount) - p = h.oldCount
    BY <1>3
  <2> DEFINE q == p + h.oldCount
  <2>2. q \in Nat /\ p <= q /\ q <= Len(text) /\ p \in Nat
    BY <1>3, <1>6, <2>1
  <2> HIDE DEF p, q
  <2>3. \A x \in 1 .. q - p : SubSeq(text, p + 1, q)[x] = text[p + x]
    BY <2>2, Piece
  <2> QED BY <1>6, <2>1, <2>3 DEF q
<1> HIDE DEF next, gs, n, c, p, o, piece
<1>10. /\ longer \in Seq(Line) /\ Len(longer) = o + (p - c) + h.newCount
       /\ \A x \in 1 .. o : longer[x] = out[x]
       /\ \A x \in 1 .. p - c : longer[o + x] = piece[x]
       /\ \A x \in 1 .. h.newCount : longer[o + (p - c) + x] = New(h)[x]
  <2> DEFINE new == New(h)
  <2>1. out \in Seq(Line) /\ piece \in Seq(Line) /\ new \in Seq(Line) /\ longer = out \o piece \o new
    BY <1>4, <1>8
  <2>2. Len(out) = o /\ Len(piece) = p - c /\ Len(new) = h.newCount
    BY <1>4, <1>8 DEF o
  <2> HIDE DEF new, longer
  <2>3. /\ longer \in Seq(Line) /\ Len(longer) = Len(out) + Len(piece) + Len(new)
        /\ \A x \in 1 .. Len(out) : longer[x] = out[x]
        /\ \A x \in 1 .. Len(piece) : longer[Len(out) + x] = piece[x]
        /\ \A x \in 1 .. Len(new) : longer[Len(out) + Len(piece) + x] = new[x]
    <3>1. out \o piece \o new \in Seq(Line) /\ Joins(out \o piece \o new, out, piece, new)
      BY <2>1, Parts
    <3>2. longer \in Seq(Line) /\ Joins(longer, out, piece, new)
      BY <2>1, <3>1
    <3> QED BY <3>2 DEF Joins
  <2> QED BY <2>2, <2>3 DEF new
<1> HIDE DEF longer
<1>11. /\ OldUpTo(gs, n) = c /\ NewUpTo(gs, n) = o
       /\ OldUpTo(gs, n + 1) = p + h.oldCount /\ NewUpTo(gs, n + 1) = o + (p - c) + h.newCount
  <2>1. OldUpTo(gs, n) = c /\ NewUpTo(gs, n) = o
    <3>1. n = 0 \/ gs[n] = hs[n]
      BY <1>1, <1>2
    <3>2. OldUpTo(gs, n) = OldUpTo(hs, n) /\ NewUpTo(gs, n) = NewUpTo(hs, n)
      BY <3>1 DEF OldUpTo, NewUpTo
    <3> QED BY <3>2 DEF OldEndOf, NewEndOf, n, c, o
  <2>2. n + 1 # 0
    BY <1>1
  <2>3. OldUpTo(gs, n + 1) = OldFrom(h) + h.oldCount /\ NewUpTo(gs, n + 1) = NewFrom(h) + h.newCount
    BY <1>2, <2>2 DEF OldUpTo, NewUpTo
  <2>4. NewFrom(h) + h.newCount = o + (p - c) + h.newCount
    BY <1>1, <1>3, <1>5
  <2> QED BY <2>1, <2>3, <2>4 DEF p
<1>12. Fits(gs, n + 1, text, longer)
  <2>1. gs[n + 1] = h /\ (n + 1) - 1 = n /\ OldFrom(h) = p
    BY <1>1, <1>2 DEF p
  <2>2. c <= p /\ p + h.oldCount <= Len(text) /\ o <= NewFrom(h) /\ p - c = NewFrom(h) - o
    BY <1>1, <1>3, <1>5, <1>6
  <2>3. Same(text, p, Old(h), 0, h.oldCount)
    BY <1>3, <1>9 DEF Same
  <2>4. Same(longer, NewFrom(h), New(h), 0, h.newCount)
    <3>1. NewFrom(h) = o + (p - c)
      BY <1>1, <1>3, <1>5
    <3>2. \A x \in 1 .. h.newCount : 0 + x = x
      BY <1>3
    <3> QED BY <1>10, <3>1, <3>2 DEF Same
  <2>5. Same(text, c, longer, o, p - c)
    BY <1>8, <1>10 DEF Same
  <2> QED BY <1>1, <1>3, <1>5, <1>10, <1>11, <2>1, <2>2, <2>3, <2>4, <2>5 DEF Fits
<1>13. \A j \in 1 .. n : Complete(hs[j]) /\ Fits(hs, j, text, out)
  BY DEF AllFit, n
<1>14. ASSUME NEW k \in 1 .. n PROVE Fits(gs, k, text, longer)
  <2>1. \A j \in 1 .. k : gs[j] = hs[j]
    BY <1>1, <1>2
  <2>2. Len(out) <= Len(longer) /\ \A x \in 1 .. Len(out) : longer[x] = out[x]
    BY <1>1, <1>3, <1>5, <1>10 DEF o
  <2>3. k \in 1 .. Len(hs) /\ Fits(hs, k, text, out) /\ \A j \in 1 .. Len(hs) : Complete(hs[j])
    BY <1>13 DEF n
  <2> QED BY <1>10, <2>1, <2>2, <2>3, FitsOn
<1>15. AllFit(gs, text, longer)
  <2> SUFFICES ASSUME NEW k \in 1 .. n + 1 PROVE Complete(gs[k]) /\ Fits(gs, k, text, longer)
    BY <1>2 DEF AllFit
  <2>1. k = n + 1 \/ k \in 1 .. n
    BY <1>1
  <2> QED BY <1>2, <1>12, <1>13, <1>14, <2>1
<1>16. (/\ \A x \in 1 .. Len(out) : Whole(out[x])
        /\ \A x \in 1 .. Len(text) : Whole(text[x])
        /\ \A line \in Range(h.lines) : Whole(line))
       => \A x \in 1 .. Len(longer) : Whole(longer[x])
  <2> SUFFICES ASSUME \A x \in 1 .. o : Whole(out[x]), \A x \in 1 .. Len(text) : Whole(text[x]),
                      \A line \in Range(h.lines) : Whole(line), NEW x \in 1 .. Len(longer)
               PROVE  Whole(longer[x])
    BY DEF o
  <2>1. \/ x \in 1 .. o
        \/ x - o \in 1 .. p - c /\ c + (x - o) \in 1 .. Len(text) /\ x = o + (x - o)
        \/ /\ x - (o + (p - c)) \in 1 .. h.newCount
           /\ x = o + (p - c) + (x - (o + (p - c)))
    BY <1>1, <1>3, <1>5, <1>10
  <2>2. CASE x \in 1 .. o
    BY <1>10, <2>2
  <2>3. CASE x - o \in 1 .. p - c /\ c + (x - o) \in 1 .. Len(text) /\ x = o + (x - o)
    <3>1. longer[x] = text[c + (x - o)]
      BY <1>8, <1>10, <2>3
    <3> QED BY <2>3, <3>1
  <2>4. CASE /\ x - (o + (p - c)) \in 1 .. h.newCount
             /\ x = o + (p - c) + (x - (o + (p - c)))
    <3>1. \A y \in 1 .. h.newCount : Whole(New(h)[y])
      BY <1>4, WholeSides
    <3>2. longer[x] = New(h)[x - (o + (p - c))]
      BY <1>10, <2>4
    <3> QED BY <2>4, <3>1, <3>2
  <2> QED BY <2>1, <2>2, <2>3, <2>4
<1>17. next.cursor = OldEndOf(gs) /\ Len(longer) = NewEndOf(gs)
  BY <1>2, <1>7, <1>10, <1>11 DEF OldEndOf, NewEndOf
<1> QED BY <1>7, <1>10, <1>15, <1>16, <1>17 DEF next, gs

\* What apply_hunks does in the end: what is left of the text follows.
LEMMA Rest ==
  ASSUME NEW hs \in Seq(Hunk), NEW text \in Seq(Line), NEW here, NEW out \in Seq(Line),
         here.output = out, AllFit(hs, text, out),
         here.cursor = OldEndOf(hs), Len(out) = NewEndOf(hs)
  PROVE  LET all == Output(text, here)
             left == Len(text) - OldEndOf(hs)
         IN /\ all \in Seq(Line) /\ AllFit(hs, text, all)
            /\ left \in Nat /\ Len(all) = Len(out) + left
            /\ Same(text, OldEndOf(hs), all, NewEndOf(hs), left)
            /\ (/\ \A x \in 1 .. Len(out) : Whole(out[x])
                /\ \A x \in 1 .. Len(text) : Whole(text[x]))
               => \A x \in 1 .. Len(all) : Whole(all[x])
<1> DEFINE c == OldEndOf(hs)
           piece == SubSeq(text, c + 1, Len(text))
           all == out \o piece
           o == Len(out)
           left == Len(text) - c
<1>1. c \in Nat /\ o \in Nat /\ left \in Nat /\ Len(text) \in Nat /\ c <= Len(text)
  BY EndsAreInside
<1>2. piece \in Seq(Line) /\ Len(piece) = left /\ \A x \in 1 .. left : piece[x] = text[c + x]
  <2> DEFINE n == Len(text)
  <2>1. n \in Nat /\ c <= n /\ n <= Len(text)
    BY <1>1
  <2> HIDE DEF c, n
  <2>2. /\ SubSeq(text, c + 1, n) \in Seq(Line) /\ Len(SubSeq(text, c + 1, n)) = n - c
        /\ \A x \in 1 .. n - c : SubSeq(text, c + 1, n)[x] = text[c + x]
    BY <1>1, <2>1, Piece
  <2> QED BY <2>2 DEF n
<1>3. Output(text, here) = all
  BY DEF Output
<1> HIDE DEF c, piece, left
<1>4. /\ all \in Seq(Line) /\ Len(all) = o + left
      /\ \A x \in 1 .. o : all[x] = out[x]
      /\ \A x \in 1 .. left : all[o + x] = piece[x]
  <2>1. /\ all \in Seq(Line) /\ Len(all) = o + Len(piece)
        /\ \A x \in 1 .. o + Len(piece) : all[x] = IF x <= o THEN out[x] ELSE piece[x - o]
    <3>1. piece \in Seq(Line)
      BY <1>2
    <3> QED BY <3>1, ConcatProperties
  <2> HIDE DEF all, o
  <2>2. \A x \in 1 .. o : x \in 1 .. o + Len(piece) /\ x <= o
    BY <1>1, <1>2
  <2>3. \A x \in 1 .. left : o + x \in 1 .. o + Len(piece) /\ ~(o + x <= o) /\ (o + x) - o = x
    BY <1>1, <1>2
  <2>4. ASSUME NEW x \in 1 .. left PROVE all[o + x] = piece[x]
    BY <2>1, <2>3
  <2> QED BY <1>2, <2>1, <2>2, <2>4
<1> HIDE DEF all, o
<1>5. AllFit(hs, text, all)
  <2> SUFFICES ASSUME NEW k \in 1 .. Len(hs) PROVE Complete(hs[k]) /\ Fits(hs, k, text, all)
    BY DEF AllFit
  <2>1. Fits(hs, k, text, out) /\ \A j \in 1 .. Len(hs) : Complete(hs[j])
    BY DEF AllFit
  <2>2. Len(out) <= Len(all) /\ \A x \in 1 .. Len(out) : all[x] = out[x]
    BY <1>1, <1>4 DEF o
  <2>3. \A j \in 1 .. k : hs[j] = hs[j]
    OBVIOUS
  <2> QED BY <1>4, <2>1, <2>2, <2>3, FitsOn
<1>6. Same(text, c, all, o, left)
  BY <1>2, <1>4 DEF Same
<1>7. (/\ \A x \in 1 .. Len(out) : Whole(out[x])
       /\ \A x \in 1 .. Len(text) : Whole(text[x]))
      => \A x \in 1 .. Len(all) : Whole(all[x])
  <2> SUFFICES ASSUME \A x \in 1 .. o : Whole(out[x]), \A x \in 1 .. Len(text) : Whole(text[x]),
                      NEW x \in 1 .. Len(all)
               PROVE  Whole(all[x])
    BY DEF o
  <2>1. \/ x \in 1 .. o
        \/ x - o \in 1 .. left /\ c + (x - o) \in 1 .. Len(text) /\ x = o + (x - o)
    BY <1>1, <1>4 DEF left
  <2>2. CASE x \in 1 .. o
    BY <1>4, <2>2
  <2>3. CASE x - o \in 1 .. left /\ c + (x - o) \in 1 .. Len(text) /\ x = o + (x - o)
    <3>1. all[x] = text[c + (x - o)]
      BY <1>2, <1>4, <2>3
    <3> QED BY <2>3, <3>1
  <2> QED BY <2>1, <2>2, <2>3
<1>8. Len(all) = Len(out) + left /\ o = NewEndOf(hs)
  BY <1>4 DEF o
<1> QED BY <1>1, <1>3, <1>4, <1>5, <1>6, <1>7, <1>8 DEF c, left

--------------------------------------------------------------------------------
(* Every step keeps the invariant. *)

\* The lines of a text that may be patched.
LEMMA SourceLines ==
  ASSUME NEW s \in Sources
  PROVE  /\ s \in Seq(Line)
         /\ \A x \in 1 .. Len(s) : Whole(s[x])
         /\ \A x \in 1 .. Len(s) - 1 : s[x].lf
<1>1. PICK n \in 0 .. MaxLines : s \in [1 .. n -> Line]
  BY DEF Sources
<1>2. n \in Nat
  BY DiffAssumption
<1>3. s \in Seq(Line) /\ Len(s) = n /\ DOMAIN s = 1 .. n
  BY <1>1, <1>2
<1>4. \A k \in 1 .. n : s[k].lf \/ (k = n /\ s[k].text # <<>>)
  BY <1>3 DEF Sources
<1>5. \A x \in 1 .. n - 1 : x \in 1 .. n /\ x # n
  BY <1>2
<1> QED BY <1>3, <1>4, <1>5 DEF Whole

\* The lines that are seen can be counted, and an empty hunk shows none.
LEMMA SeenIsNumber ==
  ASSUME NEW S, NEW lines \in Seq(S), NEW kinds
  PROVE  Seen(kinds, lines) \in Nat /\ (lines = <<>> => Seen(kinds, lines) = 0)
<1> DEFINE A == {k \in DOMAIN lines : lines[k].kind \in kinds}
<1>1. IsFiniteSet(DOMAIN lines)
  <2>1. DOMAIN lines = 1 .. Len(lines) /\ Len(lines) \in Nat
    OBVIOUS
  <2> QED BY <2>1, FS_Interval
<1>2. A \in SUBSET DOMAIN lines
  OBVIOUS
<1>3. lines = <<>> => A = {}
  OBVIOUS
<1> HIDE DEF A
<1>4. IsFiniteSet(A)
  BY <1>1, <1>2, FS_Subset
<1>5. Cardinality(A) \in Nat /\ (A = {} => Cardinality(A) = 0)
  BY <1>4, FS_CardinalityType, FS_EmptySet
<1> QED BY <1>3, <1>5 DEF Seen, A

\* The fields of what has been parsed.
LEMMA ParsedFields ==
  ASSUME NEW h \in Parsed
  PROVE  /\ h.oldStart \in Nat /\ h.oldCount \in Nat /\ h.newStart \in Nat /\ h.newCount \in Nat
         /\ h.lines \in Seq([kind : Kinds, lf : BOOLEAN])
BY Zenon DEF Parsed, HunkOf

\* No hunk, no file patch and no text yet.
LEMMA Nothing ==
  NoHunk \in Parsed /\ NoFile \in FilePatch /\ <<>> \in Sources /\ Start \in [cursor : Nat, output : Seq(Line)]
<1>1. NoHunk \in Parsed
  <2> DEFINE S == [kind : Kinds, lf : BOOLEAN]
  <2>1. <<>> \in Seq(S) /\ 0 \in Nat
    OBVIOUS
  <2> HIDE DEF S
  <2> QED BY <2>1, Zenon DEF NoHunk, Parsed, HunkOf, S
<1>2. NoFile \in FilePatch
  <2>1. <<>> \in Seq(Parsed)
    OBVIOUS
  <2> QED BY <2>1, Zenon DEF NoFile, FilePatch
<1>3. <<>> \in Sources
  <2>1. 0 \in 0 .. MaxLines
    BY DiffAssumption
  <2>2. <<>> \in [1 .. 0 -> Line] /\ DOMAIN <<>> = {}
    OBVIOUS
  <2>3. <<>> \in UNION {[1 .. n -> Line] : n \in 0 .. MaxLines}
    BY <2>1, <2>2
  <2> QED BY <2>2, <2>3 DEF Sources
<1>4. Start \in [cursor : Nat, output : Seq(Line)]
  <2>1. <<>> \in Seq(Line) /\ 0 \in Nat
    OBVIOUS
  <2> QED BY <2>1, Zenon DEF Start
<1> QED BY <1>1, <1>2, <1>3, <1>4

\* Nothing has been applied, as long as there is no output.
LEMMA NothingApplied ==
  ASSUME applied = <<>>, at = Start, pc # "done"
  PROVE  AppliedInv /\ DoneInv
<1>1. Len(applied) = 0 /\ at.cursor = 0 /\ at.output = <<>> /\ Len(at.output) = 0
  BY DEF Start
<1>2. OldDone = 0 /\ NewDone = 0
  BY <1>1 DEF OldDone, NewDone, OldUpTo, NewUpTo
<1>3. AllFit(applied, source, at.output)
  BY <1>1 DEF AllFit
<1>4. \A x \in 1 .. Len(at.output) : Whole(at.output[x])
  BY <1>1
<1> QED BY <1>1, <1>2, <1>3, <1>4 DEF AppliedInv, DoneInv

\* The program starts in the invariant, with nothing parsed and nothing applied.
LEMMA Initially == Init => Inv
<1> SUFFICES ASSUME Init PROVE Inv
  OBVIOUS
<1>1. Types
  <2>1. files \in Seq(FilePatch) /\ applied \in Seq(Hunk)
    BY DEF Init
  <2> QED BY <2>1, Nothing DEF Types, Init
<1>2. ParsedInv
  <2>1. file.hunks = <<>> /\ Len(file.hunks) = 0 /\ Len(files) = 0 /\ pc = "top"
    BY DEF Init, NoFile
  <2> QED BY <2>1 DEF ParsedInv
<1>3. AppliedInv /\ DoneInv
  BY NothingApplied DEF Init
<1> QED BY <1>1, <1>2, <1>3 DEF Inv

\* A patch that is refused leaves nothing behind.
LEMMA RejectStep == ASSUME Reject PROVE Inv'
<1>1. Types'
  <2>1. files' \in Seq(FilePatch) /\ applied' \in Seq(Hunk)
    BY DEF Reject
  <2> QED BY <2>1, Nothing DEF Types, Reject
<1>2. ParsedInv'
  <2>1. file'.hunks = <<>> /\ Len(file'.hunks) = 0 /\ Len(files') = 0 /\ pc' = "rejected"
    BY DEF Reject, NoFile
  <2> QED BY <2>1 DEF ParsedInv
<1>3. (AppliedInv /\ DoneInv)'
  <2>1. applied' = <<>> /\ at' = Start /\ pc' # "done"
    BY DEF Reject
  <2>2. Len(applied') = 0 /\ at'.cursor = 0 /\ at'.output = <<>> /\ Len(at'.output) = 0
    BY <2>1 DEF Start
  <2>3. OldDone' = 0 /\ NewDone' = 0
    BY <2>2 DEF OldDone, NewDone, OldUpTo, NewUpTo
  <2>4. AllFit(applied', source', at'.output)
    BY <2>2 DEF AllFit
  <2>5. \A x \in 1 .. Len(at'.output) : Whole(at'.output[x])
    BY <2>2
  <2> QED BY <2>1, <2>2, <2>3, <2>4, <2>5 DEF AppliedInv, DoneInv
<1> QED BY <1>1, <1>2, <1>3 DEF Inv

\* While the patch is parsed nothing is applied.
LEMMA ParsingStep ==
  ASSUME Inv, UNCHANGED patching, pc \notin {"apply", "done"}, pc' \notin {"apply", "done"}
  PROVE  /\ source' \in Sources /\ applied' \in Seq(Hunk) /\ at' \in [cursor : Nat, output : Seq(Line)]
         /\ AppliedInv' /\ DoneInv'
<1>1. source' = source /\ applied' = applied /\ at' = at
  BY DEF patching
<1>2. OldDone' = OldDone /\ NewDone' = NewDone /\ LeavesNoTrace' = LeavesNoTrace
  BY <1>1 DEF OldDone, NewDone, LeavesNoTrace
<1>3. Types /\ AppliedInv
  BY DEF Inv
<1>4. source' \in Sources /\ applied' \in Seq(Hunk) /\ at' \in [cursor : Nat, output : Seq(Line)]
  BY <1>1, <1>3 DEF Types
<1>5. pc # "done" /\ pc' # "done"
  OBVIOUS
<1>6. AppliedInv'
  BY <1>1, <1>2, <1>3, <1>5 DEF AppliedInv
<1> QED BY <1>4, <1>5, <1>6 DEF DoneInv

\* The fields of a file patch.
LEMMA FileFields ==
  ASSUME NEW f \in FilePatch
  PROVE  f.old \in Paths \cup {Null} /\ f.new \in Paths \cup {Null} /\ f.hunks \in Seq(Parsed)
BY Zenon DEF FilePatch

\* `--- path`: a file patch begins.
LEMMA ReadOldPathStep == ASSUME Inv, ReadOldPath PROVE Inv'
<1>1. pc = "top" /\ pc' = "new" /\ files' = files /\ hunk' = hunk /\ UNCHANGED patching
  BY DEF ReadOldPath
<1>2. PICK path \in Paths \cup {Null} : file' = [NoFile EXCEPT !.old = path]
  BY DEF ReadOldPath
<1>3. file' \in FilePatch /\ file'.hunks = <<>>
  <2>1. [NoFile EXCEPT !.old = path] \in FilePatch
    BY Nothing, Zenon DEF FilePatch
  <2>2. [NoFile EXCEPT !.old = path].hunks = <<>>
    BY Zenon DEF NoFile
  <2> QED BY <1>2, <2>1, <2>2
<1>4. AppliedInv' /\ DoneInv' /\ Types'
  <2>1. Types
    BY DEF Inv
  <2> QED BY <1>1, <1>3, <2>1, ParsingStep DEF Types
<1>5. ParsedInv'
  <2>1. ParsedInv
    BY DEF Inv
  <2>2. Len(file'.hunks) = 0
    BY <1>3
  <2> QED BY <1>1, <2>1, <2>2 DEF ParsedInv
<1> QED BY <1>4, <1>5 DEF Inv

\* `+++ path`: the file patch has its names.
LEMMA ReadNewPathStep == ASSUME Inv, ReadNewPath PROVE Inv'
<1>1. pc = "new" /\ pc' = "hunks" /\ files' = files /\ hunk' = hunk /\ UNCHANGED patching
  BY DEF ReadNewPath
<1>2. PICK path \in Paths \cup {Null} : file' = [file EXCEPT !.new = path]
  BY DEF ReadNewPath
<1>3. Types /\ ParsedInv
  BY DEF Inv
<1>4. file' \in FilePatch /\ file'.hunks = file.hunks
  <2>1. file \in FilePatch
    BY <1>3 DEF Types
  <2>2. [file EXCEPT !.new = path] \in FilePatch /\ [file EXCEPT !.new = path].hunks = file.hunks
    BY <2>1, Zenon DEF FilePatch
  <2> QED BY <1>2, <2>2
<1>5. AppliedInv' /\ DoneInv' /\ Types'
  BY <1>1, <1>3, <1>4, ParsingStep DEF Types
<1>6. ParsedInv'
  BY <1>1, <1>3, <1>4 DEF ParsedInv
<1> QED BY <1>5, <1>6 DEF Inv

\* A hunk that has all its lines is added to the file patch.
LEMMA CloseStep ==
  ASSUME Inv, pc \notin {"apply", "done"}, NEW h \in Parsed, Complete(h), Close(h),
         UNCHANGED <<files, patching>>
  PROVE  Inv'
<1>1. /\ pc' = "hunks" /\ hunk' = NoHunk /\ file' = [file EXCEPT !.hunks = Append(@, h)]
      /\ files' = files /\ UNCHANGED patching
  BY DEF Close
<1>2. Types /\ ParsedInv
  BY DEF Inv
<1>3. file \in FilePatch /\ file.hunks \in Seq(Parsed)
  BY <1>2, FileFields DEF Types
<1>4. file' \in FilePatch /\ file'.hunks = Append(file.hunks, h)
  <2>1. Append(file.hunks, h) \in Seq(Parsed)
    BY <1>3
  <2>2. /\ [file EXCEPT !.hunks = Append(@, h)] \in FilePatch
        /\ [file EXCEPT !.hunks = Append(@, h)].hunks = Append(file.hunks, h)
    BY <1>3, <2>1, Zenon DEF FilePatch
  <2> QED BY <1>1, <2>2
<1>5. AppliedInv' /\ DoneInv' /\ Types'
  BY <1>1, <1>2, <1>4, Nothing, ParsingStep DEF Types
<1>6. \A k \in 1 .. Len(file'.hunks) : Complete(file'.hunks[k])
  <2> DEFINE hs == file.hunks
  <2>1. \A k \in 1 .. Len(hs) : Complete(hs[k])
    BY <1>2 DEF ParsedInv
  <2>2. hs \in Seq(Parsed)
    BY <1>3
  <2> HIDE DEF hs
  <2>3. \A k \in 1 .. Len(Append(hs, h)) :
           (k \in 1 .. Len(hs) /\ Append(hs, h)[k] = hs[k]) \/ Append(hs, h)[k] = h
    BY <2>2
  <2>4. file'.hunks = Append(hs, h)
    BY <1>4 DEF hs
  <2> QED BY <2>1, <2>3, <2>4
<1>7. ParsedInv'
  BY <1>1, <1>2, <1>6 DEF ParsedInv
<1> QED BY <1>5, <1>7 DEF Inv

\* `@@ -a,b +c,d @@`: a hunk begins, and is complete already if it has no lines.
LEMMA ReadHunkHeaderStep == ASSUME Inv, ReadHunkHeader PROVE Inv'
<1>1. pc = "hunks" /\ files' = files /\ UNCHANGED patching
  BY DEF ReadHunkHeader
<1>2. PICK oldStart, oldCount, newStart, newCount \in 0 .. MaxNumber :
        /\ oldCount > 0 => oldStart > 0
        /\ newCount > 0 => newStart > 0
        /\ LET h == [oldStart |-> oldStart, oldCount |-> oldCount,
                     newStart |-> newStart, newCount |-> newCount, lines |-> <<>>]
           IN IF oldCount + newCount = 0 THEN Close(h)
              ELSE hunk' = h /\ file' = file /\ pc' = "body"
  BY Zenon DEF ReadHunkHeader
<1>3. oldStart \in Nat /\ oldCount \in Nat /\ newStart \in Nat /\ newCount \in Nat
  BY DiffAssumption
<1> DEFINE h == [oldStart |-> oldStart, oldCount |-> oldCount,
                 newStart |-> newStart, newCount |-> newCount, lines |-> <<>>]
<1>4. h \in Parsed
  <2> DEFINE S == [kind : Kinds, lf : BOOLEAN]
  <2>1. <<>> \in Seq(S)
    OBVIOUS
  <2> HIDE DEF S
  <2> QED BY <1>3, <2>1, Zenon DEF Parsed, HunkOf, S
<1>5. /\ h.oldStart = oldStart /\ h.oldCount = oldCount /\ h.newStart = newStart
      /\ h.newCount = newCount /\ h.lines = <<>>
  OBVIOUS
<1>6. IF oldCount + newCount = 0 THEN Close(h) ELSE hunk' = h /\ file' = file /\ pc' = "body"
  BY <1>2, Zenon
<1> HIDE DEF h
<1>7. Ranged(h)
  BY <1>2, <1>5 DEF Ranged
<1>8. Seen({" ", "-"}, h.lines) = 0 /\ Seen({" ", "+"}, h.lines) = 0
  BY <1>5, ParsedFields, <1>4, SeenIsNumber
<1>9. CASE oldCount + newCount = 0
  <2>1. oldCount = 0 /\ newCount = 0
    BY <1>3, <1>9
  <2>2. Complete(h)
    BY <1>5, <1>7, <1>8, <2>1 DEF Complete
  <2> QED BY <1>1, <1>4, <1>6, <1>9, <2>2, CloseStep
<1>10. CASE oldCount + newCount # 0
  <2>1. hunk' = h /\ file' = file /\ pc' = "body"
    BY <1>6, <1>10
  <2>2. Types /\ ParsedInv
    BY DEF Inv
  <2>3. AppliedInv' /\ DoneInv' /\ Types'
    BY <1>1, <1>4, <2>1, <2>2, ParsingStep DEF Types
  <2>4. ~Exceeds(h)
    <3> DEFINE s == Seen({" ", "-"}, h.lines)
               t == Seen({" ", "+"}, h.lines)
    <3>1. s = 0 /\ t = 0 /\ (Exceeds(h) <=> s > h.oldCount \/ t > h.newCount)
      BY <1>8 DEF Exceeds
    <3> HIDE DEF s, t
    <3> QED BY <1>3, <1>5, <3>1
  <2>5. Ranged(hunk') /\ ~Exceeds(hunk')
    BY <1>7, <2>1, <2>4
  <2>6. ParsedInv'
    BY <1>1, <2>1, <2>2, <2>5 DEF ParsedInv
  <2> QED BY <2>3, <2>6 DEF Inv
<1> QED BY <1>9, <1>10

\* Enough and not too many are just as many.
LEMMA Together ==
  ASSUME NEW s \in Nat, NEW t \in Nat, NEW a \in Nat, NEW b \in Nat,
         ~(s > a \/ t > b), s >= a, t >= b
  PROVE  s = a /\ t = b
OBVIOUS

\* A line of the hunk: the hunk is complete as soon as it has enough.
LEMMA ReadHunkLineStep == ASSUME Inv, ReadHunkLine PROVE Inv'
<1>1. pc = "body" /\ files' = files /\ UNCHANGED patching
  BY DEF ReadHunkLine
<1>2. PICK kind \in {" ", "-", "+"}, lf \in BOOLEAN :
        LET h == [hunk EXCEPT !.lines = Append(@, [kind |-> kind, lf |-> lf])] IN
        /\ ~Exceeds(h)
        /\ IF Enough(h) THEN Close(h)
           ELSE ~ended' /\ hunk' = h /\ file' = file /\ pc' = "body"
  BY Zenon DEF ReadHunkLine
<1> DEFINE line == [kind |-> kind, lf |-> lf]
           h == [hunk EXCEPT !.lines = Append(@, line)]
<1>3. Types /\ ParsedInv
  BY DEF Inv
<1>4. hunk \in Parsed /\ hunk.lines \in Seq([kind : Kinds, lf : BOOLEAN])
  BY <1>3, ParsedFields DEF Types
<1>5. h \in Parsed /\ h.oldStart = hunk.oldStart /\ h.oldCount = hunk.oldCount
      /\ h.newStart = hunk.newStart /\ h.newCount = hunk.newCount
  <2> DEFINE S == [kind : Kinds, lf : BOOLEAN]
  <2>1. line \in S /\ hunk.lines \in Seq(S)
    BY <1>4 DEF Kinds
  <2> HIDE DEF S, line
  <2>2. Append(hunk.lines, line) \in Seq(S)
    BY <2>1, AppendProperties, Zenon
  <2>3. HunkOf(S) = Parsed
    BY DEF Parsed, S
  <2>4. hunk \in HunkOf(S)
    BY <1>4, <2>3
  <2>5. h \in HunkOf(S)
    BY <2>2, <2>4, Zenon DEF HunkOf
  <2>6. h.oldStart = hunk.oldStart /\ h.oldCount = hunk.oldCount
        /\ h.newStart = hunk.newStart /\ h.newCount = hunk.newCount
    BY <2>4, Zenon DEF HunkOf
  <2> QED BY <2>3, <2>5, <2>6
<1>6. /\ ~Exceeds(h)
      /\ IF Enough(h) THEN Close(h) ELSE hunk' = h /\ file' = file /\ pc' = "body"
  BY <1>2, Zenon
<1> HIDE DEF h, line
<1>7. Ranged(h)
  <2>1. Ranged(hunk)
    BY <1>1, <1>3 DEF ParsedInv
  <2> QED BY <1>5, <2>1 DEF Ranged
<1>8. CASE Enough(h)
  <2>1. /\ h.oldCount \in Nat /\ h.newCount \in Nat
        /\ Seen({" ", "-"}, h.lines) \in Nat /\ Seen({" ", "+"}, h.lines) \in Nat
    BY <1>5, ParsedFields, SeenIsNumber
  <2>2. Complete(h)
    <3> DEFINE s == Seen({" ", "-"}, h.lines)
               t == Seen({" ", "+"}, h.lines)
    <3>1. /\ ~(s > h.oldCount \/ t > h.newCount) /\ s >= h.oldCount /\ t >= h.newCount
          /\ s \in Nat /\ t \in Nat /\ h.oldCount \in Nat /\ h.newCount \in Nat
          /\ (s = h.oldCount /\ t = h.newCount => Complete(h))
      BY <1>6, <1>7, <1>8, <2>1 DEF Complete, Enough, Exceeds
    <3> HIDE DEF s, t
    <3>2. s = h.oldCount /\ t = h.newCount
      BY <3>1, Together, Zenon
    <3> QED BY <3>1, <3>2
  <2> QED BY <1>1, <1>5, <1>6, <1>8, <2>2, CloseStep
<1>9. CASE ~Enough(h)
  <2>1. hunk' = h /\ file' = file /\ pc' = "body"
    BY <1>6, <1>9
  <2>2. AppliedInv' /\ DoneInv' /\ Types'
    BY <1>1, <1>3, <1>5, <2>1, ParsingStep DEF Types
  <2>3. Ranged(hunk') /\ ~Exceeds(hunk')
    BY <1>6, <1>7, <2>1
  <2>4. ParsedInv'
    BY <1>1, <1>3, <2>1, <2>3 DEF ParsedInv
  <2> QED BY <2>2, <2>4 DEF Inv
<1> QED BY <1>8, <1>9

\* The end of a file patch, which is added to those already parsed.
LEMMA EndFileStep == ASSUME Inv, EndFile PROVE Inv'
<1>1. /\ pc = "hunks" /\ pc' = "top" /\ files' = Append(files, file) /\ file' = NoFile
      /\ hunk' = hunk /\ UNCHANGED patching
  BY DEF EndFile
<1>2. Types /\ ParsedInv
  BY DEF Inv
<1>3. files \in Seq(FilePatch) /\ file \in FilePatch
  BY <1>2 DEF Types
<1>4. files' \in Seq(FilePatch)
  BY <1>1, <1>3
<1>5. AppliedInv' /\ DoneInv' /\ Types'
  BY <1>1, <1>2, <1>4, Nothing, ParsingStep DEF Types
<1>6. \A j \in 1 .. Len(files') : files'[j] = file \/ (j \in 1 .. Len(files) /\ files'[j] = files[j])
  BY <1>1, <1>3
<1>7. \A j \in 1 .. Len(files') : \A k \in 1 .. Len(files'[j].hunks) : Complete(files'[j].hunks[k])
  <2> SUFFICES ASSUME NEW j \in 1 .. Len(files')
               PROVE  \A k \in 1 .. Len(files'[j].hunks) : Complete(files'[j].hunks[k])
    OBVIOUS
  <2>1. CASE files'[j] = file
    BY <1>2, <2>1, Zenon DEF ParsedInv
  <2>2. CASE j \in 1 .. Len(files) /\ files'[j] = files[j]
    BY <1>2, <2>2, Zenon DEF ParsedInv
  <2> QED BY <1>6, <2>1, <2>2
<1>8. file'.hunks = <<>> /\ Len(file'.hunks) = 0
  BY <1>1 DEF NoFile
<1>9. ParsedInv'
  BY <1>1, <1>7, <1>8 DEF ParsedInv
<1> QED BY <1>5, <1>9 DEF Inv

\* One of the file patches is applied to its text.
LEMMA EndPatchStep == ASSUME Inv, EndPatch PROVE Inv'
<1>1. /\ pc = "top" /\ pc' = "apply" /\ files' = <<>> /\ hunk' = hunk
      /\ applied' = applied /\ at' = at
  BY DEF EndPatch
<1>2. PICK f \in Range(files), s \in Sources : file' = f /\ source' = s
  BY DEF EndPatch
<1>3. Types /\ ParsedInv /\ AppliedInv
  BY DEF Inv
<1>4. PICK j \in 1 .. Len(files) : f = files[j]
  <2>1. files \in Seq(FilePatch)
    BY <1>3 DEF Types
  <2> QED BY <2>1 DEF Range
<1>5. Types'
  <2>1. f \in FilePatch
    BY <1>3, <1>4 DEF Types
  <2>2. files' \in Seq(FilePatch)
    BY <1>1
  <2> QED BY <1>1, <1>2, <1>3, <2>1, <2>2 DEF Types
<1>6. ParsedInv'
  <2>1. \A k \in 1 .. Len(f.hunks) : Complete(f.hunks[k])
    BY <1>3, <1>4, Zenon DEF ParsedInv
  <2>2. Len(files') = 0
    BY <1>1
  <2> QED BY <1>1, <1>2, <2>1, <2>2 DEF ParsedInv
<1>7. AppliedInv' /\ DoneInv'
  <2>1. applied = <<>> /\ at.cursor = OldDone /\ Len(at.output) = NewDone
    BY <1>1, <1>3 DEF AppliedInv
  <2>2. OldDone' = OldDone /\ NewDone' = NewDone /\ NewDone = 0
    BY <1>1, <2>1 DEF OldDone, NewDone, NewUpTo
  <2>3. AllFit(applied', source', at'.output)
    <3>1. Len(applied') = 0
      BY <1>1, <2>1
    <3> QED BY <3>1 DEF AllFit
  <2>4. \A x \in 1 .. Len(at'.output) : Whole(at'.output[x])
    BY <1>1, <2>1, <2>2
  <2>5. pc' # "done" /\ at'.cursor = OldDone' /\ Len(at'.output) = NewDone' /\ pc' = "apply"
    BY <1>1, <2>1, <2>2
  <2> QED BY <2>3, <2>4, <2>5 DEF AppliedInv, DoneInv
<1> QED BY <1>5, <1>6, <1>7 DEF Inv

\* A hunk that finds its lines has the words they have.
LEMMA Worded ==
  ASSUME NEW h \in Parsed, Complete(h), NEW texts \in [DOMAIN h.lines -> Texts]
  PROVE  LET worded == [h EXCEPT !.lines =
               [k \in DOMAIN @ |-> [kind |-> @[k].kind, lf |-> @[k].lf, text |-> texts[k]]]]
         IN worded \in Hunk /\ Complete(worded)
<1> DEFINE lines == [k \in DOMAIN h.lines |->
                       [kind |-> h.lines[k].kind, lf |-> h.lines[k].lf, text |-> texts[k]]]
           w == [h EXCEPT !.lines = lines]
           S == [kind : Kinds, lf : BOOLEAN]
<1>1. h.lines \in Seq(S)
  BY ParsedFields
<1>2. DOMAIN h.lines = 1 .. Len(h.lines) /\ Len(h.lines) \in Nat
  BY <1>1
<1>3. ASSUME NEW k \in DOMAIN h.lines
      PROVE  lines[k] \in HunkLine /\ lines[k].kind = h.lines[k].kind
  <2>1. h.lines[k] \in S
    <3> HIDE DEF S
    <3> QED BY <1>1, <1>2
  <2>2. h.lines[k].kind \in Kinds /\ h.lines[k].lf \in BOOLEAN /\ texts[k] \in Texts
    BY <2>1, Zenon
  <2>3. lines[k] = [kind |-> h.lines[k].kind, lf |-> h.lines[k].lf, text |-> texts[k]]
    BY Zenon
  <2>4. /\ [kind |-> h.lines[k].kind, lf |-> h.lines[k].lf, text |-> texts[k]] \in HunkLine
        /\ [kind |-> h.lines[k].kind, lf |-> h.lines[k].lf, text |-> texts[k]].kind = h.lines[k].kind
    BY <2>2, Zenon DEF HunkLine
  <2> HIDE DEF lines
  <2> QED BY <2>3, <2>4, Zenon
<1>4. lines \in Seq(HunkLine) /\ DOMAIN lines = DOMAIN h.lines
  <2>1. lines = [k \in 1 .. Len(h.lines) |-> lines[k]] /\ DOMAIN lines = DOMAIN h.lines
    BY <1>2
  <2> HIDE DEF lines
  <2>2. \A k \in 1 .. Len(h.lines) : lines[k] \in HunkLine
    BY <1>2, <1>3
  <2> QED BY <1>2, <2>1, <2>2, IsASeq
<1> HIDE DEF lines
<1>5. /\ w \in Hunk /\ w.lines = lines
      /\ w.oldStart = h.oldStart /\ w.oldCount = h.oldCount
      /\ w.newStart = h.newStart /\ w.newCount = h.newCount
  BY <1>4, Zenon DEF Parsed, Hunk, HunkOf, HunkLine
<1> HIDE DEF w
<1>6. ASSUME NEW kinds PROVE Seen(kinds, w.lines) = Seen(kinds, h.lines)
  <2>1. {k \in DOMAIN lines : lines[k].kind \in kinds} = {k \in DOMAIN h.lines : h.lines[k].kind \in kinds}
    BY <1>3, <1>4
  <2> QED BY <1>5, <2>1 DEF Seen
<1>7. Complete(w)
  BY <1>5, <1>6 DEF Complete, Ranged
<1> QED BY <1>5, <1>7 DEF w, lines

\* apply_hunks takes the next hunk.
LEMMA ApplyHunkStep == ASSUME Inv, ApplyHunk PROVE Inv'
<1>1. /\ pc = "apply" /\ pc' = "apply" /\ file.hunks # <<>>
      /\ files' = files /\ hunk' = hunk /\ source' = source
      /\ file' = [file EXCEPT !.hunks = Tail(@)]
  BY DEF ApplyHunk
<1> DEFINE h == Head(file.hunks)
<1>2. PICK texts \in [DOMAIN h.lines -> Texts] :
        LET worded == [h EXCEPT !.lines =
               [k \in DOMAIN @ |-> [kind |-> @[k].kind, lf |-> @[k].lf, text |-> texts[k]]]]
        IN /\ Placed(source, at, h)
           /\ Matches(source, worded)
           /\ at' = Advance(source, at, worded)
           /\ applied' = Append(applied, worded)
  BY Zenon DEF ApplyHunk
<1> DEFINE w == [h EXCEPT !.lines =
                  [k \in DOMAIN @ |-> [kind |-> @[k].kind, lf |-> @[k].lf, text |-> texts[k]]]]
<1>3. Types /\ ParsedInv /\ AppliedInv
  BY DEF Inv
<1>4. file \in FilePatch /\ file.hunks \in Seq(Parsed)
  BY <1>3, FileFields DEF Types
<1>5. /\ Tail(file.hunks) \in Seq(Parsed) /\ Len(Tail(file.hunks)) = Len(file.hunks) - 1
      /\ \A k \in 1 .. Len(file.hunks) - 1 : Tail(file.hunks)[k] = file.hunks[k + 1]
      /\ h = file.hunks[1] /\ h \in Parsed /\ Len(file.hunks) \in Nat \ {0}
  <2> DEFINE hs == file.hunks
  <2>1. hs \in Seq(Parsed) /\ hs # <<>>
    BY <1>1, <1>4
  <2> HIDE DEF hs
  <2> QED BY <2>1 DEF hs
<1>6. \A k \in 1 .. Len(file.hunks) : Complete(file.hunks[k])
  BY <1>3 DEF ParsedInv
<1>7. Complete(h)
  BY <1>5, <1>6
<1>8. w \in Hunk /\ Complete(w)
  <2> HIDE DEF h
  <2> QED BY <1>5, <1>7, Worded
<1>9. /\ w.oldStart = h.oldStart /\ w.oldCount = h.oldCount
      /\ w.newStart = h.newStart /\ w.newCount = h.newCount
  <2>1. h \in Parsed
    BY <1>5
  <2> HIDE DEF h
  <2> QED BY <2>1, Zenon DEF Parsed, HunkOf
<1>10. /\ Placed(source, at, h) /\ Matches(source, w)
       /\ at' = Advance(source, at, w) /\ applied' = Append(applied, w)
  <2> HIDE DEF h
  <2> QED BY <1>2, Zenon
<1> HIDE DEF h, w
<1>11. Placed(source, at, w)
  BY <1>9, <1>10 DEF Placed
<1>12. /\ source \in Sources /\ source \in Seq(Line) /\ applied \in Seq(Hunk)
       /\ at \in [cursor : Nat, output : Seq(Line)] /\ at.output \in Seq(Line)
  BY <1>3, SourceLines DEF Types
<1>13. /\ AllFit(applied, source, at.output)
       /\ at.cursor = OldEndOf(applied) /\ Len(at.output) = NewEndOf(applied)
  BY <1>1, <1>3 DEF AppliedInv, OldDone, NewDone, OldEndOf, NewEndOf
<1>14. /\ at'.output \in Seq(Line) /\ AllFit(applied', source, at'.output)
       /\ at'.cursor = OldEndOf(applied') /\ Len(at'.output) = NewEndOf(applied')
       /\ (/\ \A x \in 1 .. Len(at.output) : Whole(at.output[x])
           /\ \A x \in 1 .. Len(source) : Whole(source[x])
           /\ \A line \in Range(w.lines) : Whole(line))
          => \A x \in 1 .. Len(at'.output) : Whole(at'.output[x])
  BY <1>8, <1>10, <1>11, <1>12, <1>13, Grows, Zenon
<1>15. applied' \in Seq(Hunk)
  BY <1>8, <1>10, <1>12, AppendProperties, Zenon
<1>16. at' \in [cursor : Nat, output : Seq(Line)]
  <2>1. at'.cursor \in Nat
    BY <1>12, <1>14, <1>15, EndsAreInside
  <2>2. at' = [cursor |-> at'.cursor, output |-> at'.output]
    BY <1>10, Zenon DEF Advance
  <2> QED BY <1>14, <2>1, <2>2, Zenon
<1>17. file' \in FilePatch /\ file'.hunks = Tail(file.hunks)
  BY <1>1, <1>4, <1>5, Zenon DEF FilePatch
<1>18. Types'
  BY <1>1, <1>3, <1>15, <1>16, <1>17 DEF Types
<1>19. ParsedInv'
  <2>1. ASSUME NEW k \in 1 .. Len(file'.hunks) PROVE Complete(file'.hunks[k])
    <3> DEFINE n == Len(file.hunks)
    <3>1. n \in Nat /\ Len(file'.hunks) = n - 1
      BY <1>5, <1>17
    <3>2. k \in 1 .. n - 1 /\ k + 1 \in 1 .. n
      <4> HIDE DEF n
      <4> QED BY <3>1
    <3>3. file'.hunks[k] = file.hunks[k + 1]
      BY <1>5, <1>17, <3>2
    <3> QED BY <1>6, <3>2, <3>3
  <2> QED BY <1>1, <1>3, <2>1 DEF ParsedInv
<1>20. LeavesNoTrace' => LeavesNoTrace /\ \A line \in Range(w.lines) : Whole(line)
  <2> SUFFICES ASSUME \A g \in Range(applied') : \A line \in Range(g.lines) : Whole(line)
               PROVE  /\ \A g \in Range(applied) : \A line \in Range(g.lines) : Whole(line)
                      /\ \A line \in Range(w.lines) : Whole(line)
    BY Zenon DEF LeavesNoTrace, Whole
  <2>1. \A g \in Range(applied) : g \in Range(applied')
    <3> SUFFICES ASSUME NEW k \in DOMAIN applied PROVE applied[k] \in Range(applied')
      BY DEF Range
    <3>1. k \in DOMAIN applied' /\ applied'[k] = applied[k]
      BY <1>10, <1>12
    <3> QED BY <3>1 DEF Range
  <2>2. w \in Range(applied')
    <3>1. Len(applied) + 1 \in DOMAIN applied' /\ applied'[Len(applied) + 1] = w
      BY <1>10, <1>12
    <3> QED BY <3>1 DEF Range
  <2> QED BY <2>1, <2>2
<1>21. LeavesNoTrace' => \A x \in 1 .. Len(at'.output) : Whole(at'.output[x])
  BY <1>3, <1>12, <1>14, <1>20, SourceLines DEF AppliedInv
<1>22. AppliedInv' /\ DoneInv'
  BY <1>1, <1>14, <1>21 DEF AppliedInv, DoneInv, OldDone, NewDone, OldEndOf, NewEndOf
<1> QED BY <1>18, <1>19, <1>22 DEF Inv

\* No hunk is left: the rest of the text follows, or the patch is refused.
LEMMA FinishPatchStep == ASSUME Inv, FinishPatch PROVE Inv'
<1>1. CASE Reject
  BY <1>1, RejectStep
<1>2. CASE /\ pc = "apply" /\ ValidOutput(Output(source, at), file.new = Null)
           /\ pc' = "done" /\ at' = [cursor |-> Len(source), output |-> Output(source, at)]
           /\ UNCHANGED <<parser, source, applied>>
  <2>1. UNCHANGED <<files, file, hunk, source, applied>>
    BY <1>2 DEF parser
  <2>2. Types /\ ParsedInv /\ AppliedInv
    BY DEF Inv
  <2>3. /\ source \in Sources /\ source \in Seq(Line) /\ applied \in Seq(Hunk)
        /\ at.output \in Seq(Line)
    BY <2>2, SourceLines DEF Types
  <2>4. /\ AllFit(applied, source, at.output)
        /\ at.cursor = OldEndOf(applied) /\ Len(at.output) = NewEndOf(applied)
    BY <1>2, <2>2 DEF AppliedInv, OldDone, NewDone, OldEndOf, NewEndOf
  <2> DEFINE all == Output(source, at)
             left == Len(source) - OldEndOf(applied)
  <2>5. /\ all \in Seq(Line) /\ AllFit(applied, source, all)
        /\ left \in Nat /\ Len(all) = Len(at.output) + left
        /\ Same(source, OldEndOf(applied), all, NewEndOf(applied), left)
        /\ (/\ \A x \in 1 .. Len(at.output) : Whole(at.output[x])
            /\ \A x \in 1 .. Len(source) : Whole(source[x]))
           => \A x \in 1 .. Len(all) : Whole(all[x])
    BY <2>3, <2>4, Rest, Zenon
  <2>6. at'.cursor = Len(source) /\ at'.output = all
    BY <1>2
  <2>7. at' \in [cursor : Nat, output : Seq(Line)]
    <3>1. Len(source) \in Nat
      BY <2>3
    <3> HIDE DEF all
    <3> QED BY <1>2, <2>5, <3>1, Zenon DEF all
  <2> HIDE DEF all
  <2>8. Types'
    BY <1>2, <2>1, <2>2, <2>7 DEF Types
  <2>9. ParsedInv'
    BY <1>2, <2>1, <2>2 DEF ParsedInv
  <2>10. LeavesNoTrace' => \A x \in 1 .. Len(all) : Whole(all[x])
    <3>1. LeavesNoTrace' => LeavesNoTrace
      BY <2>1 DEF LeavesNoTrace
    <3>2. LeavesNoTrace => \A x \in 1 .. Len(at.output) : Whole(at.output[x])
      BY <2>2 DEF AppliedInv
    <3> QED BY <2>3, <2>5, <3>1, <3>2, SourceLines
  <2>11. AppliedInv'
    BY <1>2, <2>1, <2>5, <2>6, <2>10 DEF AppliedInv
  <2>12. DoneInv'
    <3>1. \A x \in 1 .. Len(all) - 1 : all[x].lf
      BY <1>2 DEF ValidOutput, all
    <3>2. OldDone' = OldEndOf(applied) /\ NewDone' = NewEndOf(applied)
      BY <2>1 DEF OldDone, NewDone, OldEndOf, NewEndOf
    <3>3. Len(source) - OldEndOf(applied) = Len(all) - NewEndOf(applied)
      BY <2>4, <2>5, <2>3
    <3> HIDE DEF left
    <3>4. /\ Len(source) - OldEndOf(applied) \in Nat
          /\ Same(source, OldEndOf(applied), all, NewEndOf(applied), Len(source) - OldEndOf(applied))
      BY <2>5 DEF left
    <3> QED BY <2>1, <2>6, <3>1, <3>2, <3>3, <3>4 DEF DoneInv
  <2> QED BY <2>8, <2>9, <2>11, <2>12 DEF Inv
<1>3. \/ Reject
      \/ /\ pc = "apply" /\ ValidOutput(Output(source, at), file.new = Null)
         /\ pc' = "done" /\ at' = [cursor |-> Len(source), output |-> Output(source, at)]
         /\ UNCHANGED <<parser, source, applied>>
  BY Zenon DEF FinishPatch
<1> QED BY <1>1, <1>2, <1>3

\* Every step of the parser and of apply_hunks keeps the invariant.
LEMMA Step == Inv /\ [Next]_vars => Inv'
<1> SUFFICES ASSUME Inv, [Next]_vars PROVE Inv'
  OBVIOUS
<1>1. CASE Unexpected
  BY <1>1, RejectStep DEF Unexpected
<1>2. CASE ReadOldPath
  BY <1>2, ReadOldPathStep
<1>3. CASE ReadNewPath
  BY <1>3, ReadNewPathStep
<1>4. CASE ReadHunkHeader
  BY <1>4, ReadHunkHeaderStep
<1>5. CASE ReadHunkLine
  BY <1>5, ReadHunkLineStep
<1>6. CASE EndFile
  BY <1>6, EndFileStep
<1>7. CASE EndPatch
  BY <1>7, EndPatchStep
<1>8. CASE ApplyHunk
  BY <1>8, ApplyHunkStep
<1>9. CASE RejectHunk
  BY <1>9, RejectStep DEF RejectHunk
<1>10. CASE FinishPatch
  BY <1>10, FinishPatchStep
<1>11. CASE UNCHANGED vars
  BY <1>11 DEF vars, parser, patching, Inv, Types, ParsedInv, AppliedInv, DoneInv, OldDone,
     NewDone, LeavesNoTrace
<1> QED BY <1>1, <1>2, <1>3, <1>4, <1>5, <1>6, <1>7, <1>8, <1>9, <1>10, <1>11 DEF Next

--------------------------------------------------------------------------------
(* What an accepted patch does. *)

\* Pieces of two texts with the same lines.
LEMMA PiecesAlike ==
  ASSUME NEW n \in Nat, NEW s \in Seq(Line), NEW a \in Nat, a + n <= Len(s),
         NEW t \in Seq(Line), NEW b \in Nat, b + n <= Len(t), Same(s, a, t, b, n)
  PROVE  SubSeq(s, a + 1, a + n) = SubSeq(t, b + 1, b + n)
<1> DEFINE c == a + n
           d == b + n
           u == SubSeq(s, a + 1, c)
           v == SubSeq(t, b + 1, d)
<1>1. /\ c \in Nat /\ a <= c /\ c <= Len(s) /\ c - a = n
      /\ d \in Nat /\ b <= d /\ d <= Len(t) /\ d - b = n
  OBVIOUS
<1>2. /\ u \in Seq(Line) /\ Len(u) = n /\ \A x \in 1 .. n : u[x] = s[a + x]
      /\ v \in Seq(Line) /\ Len(v) = n /\ \A x \in 1 .. n : v[x] = t[b + x]
  <2> HIDE DEF c, d
  <2>1. /\ u \in Seq(Line) /\ Len(u) = c - a /\ \A x \in 1 .. c - a : u[x] = s[a + x]
        /\ v \in Seq(Line) /\ Len(v) = d - b /\ \A x \in 1 .. d - b : v[x] = t[b + x]
    BY <1>1, Piece
  <2> QED BY <1>1, <2>1
<1>3. \A x \in 1 .. n : s[a + x] = t[b + x]
  BY DEF Same
<1> HIDE DEF u, v
<1>4. Len(u) = Len(v) /\ \A x \in 1 .. Len(u) : u[x] = v[x]
  BY <1>2, <1>3
<1>5. u = v
  BY <1>2, <1>4, SeqEqual
<1> QED BY <1>5 DEF u, v

\* A piece of a text with the lines of a whole sequence.
LEMMA PieceAlike ==
  ASSUME NEW s \in Seq(Line), NEW a \in Nat, NEW t \in Seq(Line), a + Len(t) <= Len(s),
         Same(s, a, t, 0, Len(t))
  PROVE  SubSeq(s, a + 1, a + Len(t)) = t
<1> DEFINE n == Len(t)
           c == a + n
           u == SubSeq(s, a + 1, c)
<1>1. n \in Nat /\ c \in Nat /\ a <= c /\ c <= Len(s) /\ c - a = n
  OBVIOUS
<1>2. u \in Seq(Line) /\ Len(u) = n /\ \A x \in 1 .. n : u[x] = s[a + x]
  <2> HIDE DEF c, n
  <2>1. u \in Seq(Line) /\ Len(u) = c - a /\ \A x \in 1 .. c - a : u[x] = s[a + x]
    BY <1>1, Piece
  <2> QED BY <1>1, <2>1
<1>3. \A x \in 1 .. n : s[a + x] = t[x]
  <2>1. \A x \in 1 .. n : 0 + x = x
    OBVIOUS
  <2> QED BY <2>1 DEF Same
<1> HIDE DEF u
<1>4. Len(u) = Len(t) /\ \A x \in 1 .. Len(u) : u[x] = t[x]
  BY <1>2, <1>3
<1>5. u = t
  BY <1>2, <1>4, SeqEqual
<1> QED BY <1>5 DEF u

\* What the invariant says once a patch has been applied: the text that is written is
\* read as it was put out, and the hunks fit.
LEMMA Applied ==
  ASSUME Inv, pc = "done", LeavesNoTrace
  PROVE  /\ Split(at.output) = at.output /\ at.output \in Seq(Line)
         /\ source \in Seq(Line) /\ applied \in Seq(Hunk)
         /\ AllFit(applied, source, at.output)
         /\ OldEndOf(applied) <= Len(source) /\ NewEndOf(applied) <= Len(at.output)
         /\ Len(source) - OldEndOf(applied) = Len(at.output) - NewEndOf(applied)
         /\ Same(source, OldEndOf(applied), at.output, NewEndOf(applied), Len(source) - OldEndOf(applied))
<1>1. Types /\ AppliedInv /\ DoneInv
  BY DEF Inv
<1>2. at.output \in Seq(Line) /\ source \in Seq(Line) /\ applied \in Seq(Hunk)
  BY <1>1, SourceLines DEF Types
<1>3. /\ AllFit(applied, source, at.output)
      /\ \A x \in 1 .. Len(at.output) : Whole(at.output[x])
      /\ \A x \in 1 .. Len(at.output) - 1 : at.output[x].lf
  BY <1>1 DEF AppliedInv, DoneInv
<1>4. Split(at.output) = at.output
  BY <1>2, <1>3, SplitWhole
<1>5. OldEndOf(applied) <= Len(source) /\ NewEndOf(applied) <= Len(at.output)
  BY <1>2, <1>3, EndsAreInside
<1> QED BY <1>1, <1>2, <1>3, <1>4, <1>5 DEF DoneInv, OldDone, NewDone, OldEndOf, NewEndOf

\* The kth hunk of an applied patch in numbers.
LEMMA HunkInPlace ==
  ASSUME NEW hs \in Seq(Hunk), NEW text \in Seq(Line), NEW out \in Seq(Line),
         AllFit(hs, text, out), NEW k \in 1 .. Len(hs)
  PROVE  /\ hs[k] \in Hunk /\ Complete(hs[k]) /\ Fits(hs, k, text, out)
         /\ OldUpTo(hs, k - 1) \in Nat /\ NewUpTo(hs, k - 1) \in Nat
         /\ OldFrom(hs[k]) \in Nat /\ NewFrom(hs[k]) \in Nat
         /\ hs[k].oldCount \in Nat /\ hs[k].newCount \in Nat
         /\ OldUpTo(hs, k) = OldFrom(hs[k]) + hs[k].oldCount
         /\ NewUpTo(hs, k) = NewFrom(hs[k]) + hs[k].newCount
         /\ Old(hs[k]) \in Seq(Line) /\ Len(Old(hs[k])) = hs[k].oldCount
         /\ New(hs[k]) \in Seq(Line) /\ Len(New(hs[k])) = hs[k].newCount
<1>1. hs[k] \in Hunk /\ \A j \in 1 .. Len(hs) : Complete(hs[j]) /\ Fits(hs, j, text, out)
  BY DEF AllFit
<1>2. k - 1 \in 0 .. Len(hs) /\ k # 0
  OBVIOUS
<1>3. OldUpTo(hs, k - 1) \in Nat /\ NewUpTo(hs, k - 1) \in Nat
  BY <1>1, <1>2, EndsAreNumbers
<1>4. OldUpTo(hs, k) = OldFrom(hs[k]) + hs[k].oldCount /\ NewUpTo(hs, k) = NewFrom(hs[k]) + hs[k].newCount
  BY <1>2 DEF OldUpTo, NewUpTo
<1> QED BY <1>1, <1>3, <1>4, PlacesAreNumbers, HunkFields, Sides

\* A hunk's lines are where it says.
LEMMA HunkPieces ==
  ASSUME NEW hs \in Seq(Hunk), NEW text \in Seq(Line), NEW out \in Seq(Line),
         AllFit(hs, text, out), NEW k \in 1 .. Len(hs)
  PROVE  /\ SubSeq(text, OldFrom(hs[k]) + 1, OldUpTo(hs, k)) = Old(hs[k])
         /\ SubSeq(out, NewFrom(hs[k]) + 1, NewUpTo(hs, k)) = New(hs[k])
         /\ SubSeq(text, OldUpTo(hs, k - 1) + 1, OldFrom(hs[k]))
              = SubSeq(out, NewUpTo(hs, k - 1) + 1, NewFrom(hs[k]))
<1> DEFINE h == hs[k]
           old == Old(h)
           new == New(h)
           a == OldUpTo(hs, k - 1)
           b == NewUpTo(hs, k - 1)
           c == OldFrom(h)
           d == NewFrom(h)
<1>1. /\ a \in Nat /\ b \in Nat /\ c \in Nat /\ d \in Nat
      /\ OldUpTo(hs, k) = c + h.oldCount /\ NewUpTo(hs, k) = d + h.newCount
      /\ old \in Seq(Line) /\ Len(old) = h.oldCount /\ new \in Seq(Line) /\ Len(new) = h.newCount
      /\ h.oldCount \in Nat /\ h.newCount \in Nat /\ Fits(hs, k, text, out)
  BY HunkInPlace
<1>2. /\ a <= c /\ c + h.oldCount <= Len(text) /\ b <= d /\ d + h.newCount <= Len(out)
      /\ c - a = d - b /\ Same(text, c, old, 0, h.oldCount) /\ Same(out, d, new, 0, h.newCount)
      /\ Same(text, a, out, b, c - a)
  BY <1>1 DEF Fits
<1>3. Len(text) \in Nat /\ Len(out) \in Nat
  OBVIOUS
<1> HIDE DEF h, old, new, a, b, c, d
<1>4. SubSeq(text, c + 1, c + Len(old)) = old
  <2>1. c + Len(old) <= Len(text) /\ Same(text, c, old, 0, Len(old)) /\ c \in Nat /\ old \in Seq(Line)
    BY <1>1, <1>2, Zenon
  <2> QED BY <2>1, PieceAlike
<1>5. SubSeq(out, d + 1, d + Len(new)) = new
  <2>1. d + Len(new) <= Len(out) /\ Same(out, d, new, 0, Len(new)) /\ d \in Nat /\ new \in Seq(Line)
    BY <1>1, <1>2, Zenon
  <2> QED BY <2>1, PieceAlike
<1>6. SubSeq(text, a + 1, c) = SubSeq(out, b + 1, d)
  <2> DEFINE n == c - a
  <2>1. n \in Nat /\ c = a + n /\ d = b + n /\ c <= Len(text) /\ d <= Len(out)
    BY <1>1, <1>2, <1>3, SMTT(30)
  <2>2. Same(text, a, out, b, n)
    BY <1>2
  <2> HIDE DEF n
  <2>3. SubSeq(text, a + 1, a + n) = SubSeq(out, b + 1, b + n)
    BY <1>1, <2>1, <2>2, PiecesAlike
  <2> QED BY <2>1, <2>3
<1> QED BY <1>1, <1>4, <1>5, <1>6 DEF h, old, new, a, b, c, d

\* What follows the last hunk is the same in both texts.
LEMMA RestAlike ==
  ASSUME Inv, pc = "done", LeavesNoTrace
  PROVE  SubSeq(source, OldEndOf(applied) + 1, Len(source))
           = SubSeq(at.output, NewEndOf(applied) + 1, Len(at.output))
<1> DEFINE a == OldEndOf(applied)
           b == NewEndOf(applied)
           n == Len(source) - a
           out == at.output
<1>1. source \in Seq(Line) /\ out \in Seq(Line) /\ a <= Len(source) /\ b <= Len(out)
      /\ n = Len(out) - b /\ Same(source, a, out, b, n)
  BY Applied
<1>2. a \in Nat /\ b \in Nat
  BY Applied, EndsAreInside
<1> HIDE DEF a, b, out
<1>3. n \in Nat /\ Len(source) = a + n /\ Len(out) = b + n
  BY <1>1, <1>2
<1> HIDE DEF n
<1>4. SubSeq(source, a + 1, a + n) = SubSeq(out, b + 1, b + n)
  <2>1. a + n <= Len(source) /\ b + n <= Len(out)
    BY <1>1, <1>2, <1>3
  <2>2. source \in Seq(Line) /\ out \in Seq(Line) /\ Same(source, a, out, b, n) /\ n \in Nat
    BY <1>1, <1>3
  <2> QED BY <1>2, <2>1, <2>2, PiecesAlike
<1> QED BY <1>3, <1>4 DEF a, b, out

\* The invariant says what AppliesWhatItDeclares says.
LEMMA Declared == Inv => AppliesWhatItDeclares
<1> SUFFICES ASSUME Inv, pc = "done", LeavesNoTrace
             PROVE  LET result == Split(at.output)
                        oldFrom(k) == IF k > Len(applied) THEN Len(source)
                                      ELSE Before(applied[k].oldStart, applied[k].oldCount)
                        newFrom(k) == IF k > Len(applied) THEN Len(result)
                                      ELSE Before(applied[k].newStart, applied[k].newCount)
                    IN /\ \A k \in DOMAIN applied : OldEnd(k) <= Len(source) /\ NewEnd(k) <= Len(result)
                       /\ \A k \in DOMAIN applied :
                            /\ SubSeq(source, oldFrom(k) + 1, OldEnd(k)) = Old(applied[k])
                            /\ SubSeq(result, newFrom(k) + 1, NewEnd(k)) = New(applied[k])
                       /\ \A k \in 1 .. Len(applied) + 1 :
                            SubSeq(source, OldEnd(k - 1) + 1, oldFrom(k))
                              = SubSeq(result, NewEnd(k - 1) + 1, newFrom(k))
  BY DEF AppliesWhatItDeclares
<1> DEFINE out == at.output
           n == Len(applied)
           oldFrom(k) == IF k > n THEN Len(source) ELSE Before(applied[k].oldStart, applied[k].oldCount)
           newFrom(k) == IF k > n THEN Len(out) ELSE Before(applied[k].newStart, applied[k].newCount)
<1>1. /\ Split(out) = out /\ out \in Seq(Line) /\ source \in Seq(Line)
      /\ applied \in Seq(Hunk) /\ AllFit(applied, source, out)
  BY Applied
<1>2. n \in Nat /\ DOMAIN applied = 1 .. n
  BY <1>1
<1>3. ASSUME NEW k PROVE OldEnd(k) = OldUpTo(applied, k) /\ NewEnd(k) = NewUpTo(applied, k)
  BY DEF OldEnd, NewEnd, OldUpTo, NewUpTo, OldFrom, NewFrom
<1>4. ASSUME NEW k \in 1 .. n
      PROVE  oldFrom(k) = OldFrom(applied[k]) /\ newFrom(k) = NewFrom(applied[k])
  <2>1. ~(k > n)
    BY <1>2
  <2> QED BY <2>1 DEF OldFrom, NewFrom
<1>5. oldFrom(n + 1) = Len(source) /\ newFrom(n + 1) = Len(out)
  <2>1. n + 1 > n
    BY <1>2
  <2> QED BY <2>1
<1> HIDE DEF out, n, oldFrom, newFrom
<1>6. ASSUME NEW k \in 1 .. n
      PROVE  /\ OldEnd(k) <= Len(source) /\ NewEnd(k) <= Len(out)
             /\ SubSeq(source, oldFrom(k) + 1, OldEnd(k)) = Old(applied[k])
             /\ SubSeq(out, newFrom(k) + 1, NewEnd(k)) = New(applied[k])
             /\ SubSeq(source, OldEnd(k - 1) + 1, oldFrom(k)) = SubSeq(out, NewEnd(k - 1) + 1, newFrom(k))
  <2>1. k \in 1 .. Len(applied)
    BY DEF n
  <2>2. Fits(applied, k, source, out)
    BY <1>1, <2>1, HunkInPlace
  <2>3. OldEnd(k) <= Len(source) /\ NewEnd(k) <= Len(out)
    BY <1>3, <2>2 DEF Fits
  <2>4. /\ SubSeq(source, OldFrom(applied[k]) + 1, OldUpTo(applied, k)) = Old(applied[k])
        /\ SubSeq(out, NewFrom(applied[k]) + 1, NewUpTo(applied, k)) = New(applied[k])
        /\ SubSeq(source, OldUpTo(applied, k - 1) + 1, OldFrom(applied[k]))
             = SubSeq(out, NewUpTo(applied, k - 1) + 1, NewFrom(applied[k]))
    BY <1>1, <2>1, HunkPieces
  <2> QED BY <1>3, <1>4, <2>3, <2>4
<1>7. ASSUME NEW k \in 1 .. n + 1
      PROVE  SubSeq(source, OldEnd(k - 1) + 1, oldFrom(k)) = SubSeq(out, NewEnd(k - 1) + 1, newFrom(k))
  <2>1. k \in 1 .. n \/ (k = n + 1 /\ k - 1 = n)
    BY <1>2
  <2>2. CASE k \in 1 .. n
    BY <1>6, <2>2
  <2>3. CASE k = n + 1 /\ k - 1 = n
    <3>1. SubSeq(source, OldEndOf(applied) + 1, Len(source)) = SubSeq(out, NewEndOf(applied) + 1, Len(out))
      BY RestAlike DEF out
    <3>2. OldEnd(k - 1) = OldEndOf(applied) /\ NewEnd(k - 1) = NewEndOf(applied)
      BY <1>3, <2>3 DEF OldEndOf, NewEndOf, n
    <3> QED BY <1>5, <2>3, <3>1, <3>2
  <2> QED BY <2>1, <2>2, <2>3
<1> QED BY <1>1, <1>2, <1>6, <1>7 DEF out, n, oldFrom, newFrom

\* A patch read backwards up to its kth hunk: the old text up to that hunk.
Back(k) == [ok |-> TRUE, here |-> [cursor |-> NewUpTo(applied, k),
                                   output |-> SubSeq(source, 1, OldUpTo(applied, k))]]

\* The next hunk is accepted backwards, and adds what the old text had there.
LEMMA BackStep ==
  ASSUME Inv, pc = "done", LeavesNoTrace, NEW k \in 1 .. Len(applied)
  PROVE  LET here == Back(k - 1).here
             h == Reversed(applied[k])
         IN /\ Placed(at.output, here, h) /\ Matches(at.output, h)
            /\ Advance(at.output, here, h) = Back(k).here
<1> DEFINE out == at.output
           f == applied[k]
           h == Reversed(f)
           a == OldUpTo(applied, k - 1)
           b == NewUpTo(applied, k - 1)
           p == OldFrom(f)
           q == NewFrom(f)
           here == Back(k - 1).here
<1>1. /\ out \in Seq(Line) /\ source \in Seq(Line) /\ applied \in Seq(Hunk)
      /\ AllFit(applied, source, out)
  BY Applied
<1>2. /\ f \in Hunk /\ Complete(f) /\ Fits(applied, k, source, out)
      /\ a \in Nat /\ b \in Nat /\ p \in Nat /\ q \in Nat /\ f.oldCount \in Nat /\ f.newCount \in Nat
      /\ OldUpTo(applied, k) = p + f.oldCount /\ NewUpTo(applied, k) = q + f.newCount
      /\ Old(f) \in Seq(Line) /\ Len(Old(f)) = f.oldCount
      /\ New(f) \in Seq(Line) /\ Len(New(f)) = f.newCount
  BY <1>1, HunkInPlace
<1>3. /\ SubSeq(source, p + 1, OldUpTo(applied, k)) = Old(f)
      /\ SubSeq(out, q + 1, NewUpTo(applied, k)) = New(f)
      /\ SubSeq(source, a + 1, p) = SubSeq(out, b + 1, q)
  BY <1>1, HunkPieces
<1>4. a <= p /\ p + f.oldCount <= Len(source) /\ b <= q /\ q + f.newCount <= Len(out) /\ p - a = q - b
  BY <1>2 DEF Fits
<1>5. Old(h) = New(f) /\ New(h) = Old(f)
  BY <1>2, BothWays
<1>6. Before(h.oldStart, h.oldCount) = q /\ Before(h.newStart, h.newCount) = p
  BY DEF Reversed, OldFrom, NewFrom
<1>7. here.cursor = b /\ here.output = SubSeq(source, 1, a)
  BY DEF Back
<1> HIDE DEF out, f, h, a, b, p, q, here
<1>8. Len(source) \in Nat /\ Len(out) \in Nat
  BY <1>1
<1>9. Len(here.output) = a
  BY <1>1, <1>2, <1>4, <1>7, <1>8
<1>10. Placed(out, here, h)
  <2>1. q \in b .. Len(out) /\ p = a + q - b
    BY <1>2, <1>4, <1>8
  <2> QED BY <1>6, <1>7, <1>9, <2>1 DEF Placed
<1>11. Matches(out, h)
  BY <1>2, <1>3, <1>4, <1>5, <1>6 DEF Matches
<1>12. Advance(out, here, h) = [cursor |-> q + f.newCount,
          output |-> SubSeq(source, 1, a) \o SubSeq(source, a + 1, p) \o SubSeq(source, p + 1, p + f.oldCount)]
  BY <1>2, <1>3, <1>5, <1>6, <1>7 DEF Advance
<1>13. SubSeq(source, 1, a) \o SubSeq(source, a + 1, p) \o SubSeq(source, p + 1, p + f.oldCount)
         = SubSeq(source, 1, p + f.oldCount)
  <2> DEFINE r == p + f.oldCount
             one == 1
  <2>1. /\ one \in 1 .. Len(source) + 1 /\ a \in one - 1 .. Len(source) /\ p \in a .. Len(source)
        /\ p \in one - 1 .. Len(source) /\ r \in p .. Len(source)
    BY <1>2, <1>4, <1>8
  <2> HIDE DEF r, one
  <2>2. SubSeq(source, one, a) \o SubSeq(source, a + 1, p) = SubSeq(source, one, p)
    BY <1>1, <2>1, ConcatAdjacentSubSeq
  <2>3. SubSeq(source, one, p) \o SubSeq(source, p + 1, r) = SubSeq(source, one, r)
    BY <1>1, <2>1, ConcatAdjacentSubSeq
  <2> QED BY <2>2, <2>3 DEF r, one
<1>14. Advance(out, here, h) = Back(k).here
  BY <1>2, <1>12, <1>13 DEF Back
<1> QED BY <1>10, <1>11, <1>14 DEF out, f, h, here

\* The invariant says what InverseRestores says.
LEMMA Restored == Inv => InverseRestores
<1> SUFFICES ASSUME Inv, pc = "done", LeavesNoTrace PROVE InverseRestores
  BY DEF InverseRestores
<1> DEFINE out == Split(at.output)
           n == Len(applied)
           Try(last, k) ==
             LET h == Reversed(applied[k]) IN
             IF last.ok /\ Placed(out, last.here, h) /\ Matches(out, h)
             THEN [ok |-> TRUE, here |-> Advance(out, last.here, h)]
             ELSE [last EXCEPT !.ok = FALSE]
           Body(g, k) == IF k = 0 THEN [ok |-> TRUE, here |-> Start] ELSE Try(g[k - 1], k)
           back == CHOOSE g : g = [k \in 0 .. n |-> Body(g, k)]
           e == [k \in 0 .. n |-> Back(k)]
<1>1. /\ out = at.output /\ out \in Seq(Line) /\ source \in Seq(Line)
      /\ applied \in Seq(Hunk) /\ AllFit(applied, source, out)
  BY Applied
<1>2. n \in Nat
  BY <1>1
<1>3. Back(0) = [ok |-> TRUE, here |-> Start]
  <2>1. SubSeq(source, 1, 0) = <<>>
    BY <1>1
  <2> QED BY <2>1 DEF Back, Start, OldUpTo, NewUpTo
<1>4. ASSUME NEW k \in 1 .. n PROVE Try(Back(k - 1), k) = Back(k)
  <2> DEFINE here == Back(k - 1).here
             h == Reversed(applied[k])
  <2>1. Placed(out, here, h) /\ Matches(out, h) /\ Advance(out, here, h) = Back(k).here
    <3> HIDE DEF out
    <3> QED BY <1>1, BackStep
  <2>2. Back(k - 1).ok
    BY DEF Back
  <2>3. Try(Back(k - 1), k) = [ok |-> TRUE, here |-> Back(k).here]
    <3> HIDE DEF out, n, back, e
    <3> QED BY <2>1, <2>2, Zenon
  <2>4. Back(k) = [ok |-> TRUE, here |-> Back(k).here]
    BY Zenon DEF Back
  <2> QED BY <2>3, <2>4, Zenon
<1> HIDE DEF Try
<1>5. e = [k \in 0 .. n |-> Body(e, k)]
  <2>1. ASSUME NEW k \in 0 .. n PROVE e[k] = Body(e, k)
    <3>1. CASE k = 0
      BY <1>2, <1>3, <3>1
    <3>2. CASE k # 0
      <4>1. k \in 1 .. n /\ k - 1 \in 0 .. n
        BY <1>2, <3>2
      <4>2. e[k] = Back(k) /\ e[k - 1] = Back(k - 1)
        BY <4>1
      <4> HIDE DEF e
      <4> QED BY <1>4, <3>2, <4>1, <4>2
    <3> QED BY <3>1, <3>2
  <2>2. e = [k \in 0 .. n |-> e[k]]
    OBVIOUS
  <2> HIDE DEF e, Body
  <2> QED BY <2>1, <2>2
<1>6. back = [k \in 0 .. n |-> Body(back, k)]
  <2> HIDE DEF e, Body
  <2>1. \E x : x = [k \in 0 .. n |-> Body(x, k)]
    BY <1>5
  <2> QED BY <2>1, Zenon
<1> HIDE DEF back
<1>7. back[0] = Back(0) /\ \A k \in 1 .. n : back[k] = Try(back[k - 1], k)
  <2> HIDE DEF n
  <2>1. \A k \in 0 .. n : back[k] = Body(back, k)
    <3> HIDE DEF Body
    <3> QED BY <1>6
  <2>2. 0 \in 0 .. n /\ \A k \in 1 .. n : k \in 0 .. n /\ k # 0
    BY <1>2
  <2> QED BY <1>3, <2>1, <2>2
<1> DEFINE T == {k \in Nat : k \in 0 .. n => back[k] = Back(k)}
<1>8. 0 \in T
  BY <1>7
<1>9. ASSUME NEW k \in Nat, k \in T PROVE k + 1 \in T
  <2> SUFFICES ASSUME k + 1 \in 0 .. n PROVE back[k + 1] = Back(k + 1)
    OBVIOUS
  <2>1. k \in 0 .. n /\ k + 1 \in 1 .. n /\ (k + 1) - 1 = k
    BY <1>2
  <2>2. back[k] = Back(k)
    BY <1>9, <2>1
  <2>3. Try(Back(k), k + 1) = Back(k + 1)
    BY <1>4, <2>1
  <2> QED BY <1>7, <2>1, <2>2, <2>3
<1>10. Nat \subseteq T
  <2> HIDE DEF T
  <2> QED BY <1>8, <1>9, NatSetInduction
<1>11. back[n] = Back(n)
  BY <1>2, <1>10
<1>12. Output(out, Back(n).here) = source
  <2> DEFINE a == OldEndOf(applied)
             b == NewEndOf(applied)
  <2>1. Back(n).here.cursor = b /\ Back(n).here.output = SubSeq(source, 1, a)
    BY DEF Back, OldEndOf, NewEndOf
  <2>2. SubSeq(source, a + 1, Len(source)) = SubSeq(out, b + 1, Len(out))
    <3> HIDE DEF out
    <3> QED BY <1>1, RestAlike DEF a, b
  <2>3. a \in Nat /\ a <= Len(source) /\ Len(source) \in Nat
    BY <1>1, EndsAreInside
  <2>4. SubSeq(source, 1, a) \o SubSeq(source, a + 1, Len(source)) = source
    <3> DEFINE one == 1
               m == Len(source)
    <3>1. one \in 1 .. Len(source) + 1 /\ a \in one - 1 .. Len(source) /\ m \in a .. Len(source)
      BY <2>3
    <3> HIDE DEF one, m, a
    <3>2. SubSeq(source, one, a) \o SubSeq(source, a + 1, m) = SubSeq(source, one, m)
      BY <1>1, <3>1, ConcatAdjacentSubSeq
    <3>3. SubSeq(source, 1, Len(source)) = source
      BY <1>1, SubSeqFull
    <3> QED BY <3>2, <3>3 DEF one, m
  <2> HIDE DEF a, b
  <2> QED BY <2>1, <2>2, <2>4 DEF Output
<1>13. back[n].ok /\ Output(out, back[n].here) = source
  <2>1. Back(n).ok
    BY DEF Back
  <2> QED BY <1>11, <1>12, <2>1
<1> QED BY <1>13, Zenon DEF InverseRestores, back, Body, Try

--------------------------------------------------------------------------------
(* The theorems *)

\* Every reachable state satisfies the invariant.
THEOREM Inductive == Spec => []Inv
BY Initially, Step, PTL DEF Spec

\* What the parser and apply_hunks hold is always of its type, whatever patch is sent
\* and however long the text is.
THEOREM TypeCorrect == Spec => []Types
<1>1. Inv => Types
  BY DEF Inv
<1> QED BY Inductive, <1>1, PTL

\* A patch that parse_unified_diff and apply_hunks accept does what its headers declare.
THEOREM AppliesDeclared == Spec => []AppliesWhatItDeclares
BY Inductive, Declared, PTL

\* The same patch read backwards is accepted and restores the text, line feeds included.
THEOREM InversesRestore == Spec => []InverseRestores
BY Inductive, Restored, PTL
================================================================================
