-------------------------- MODULE ProcessRunnerProofs --------------------------
(***************************************************************************)
(* Proofs about ProcessRunner and CheckRunners for every size of the       *)
(* output, the captures and the reads and any set of descendants: what     *)
(* _Capture.append keeps, how a run and its process group end, and when a  *)
(* verdict on the excerpt is the verdict on the output.                    *)
(***************************************************************************)
EXTENDS CheckRunners, WellFoundedInduction, SequenceTheorems, FiniteSetTheorems, TLAPS

--------------------------------------------------------------------------------
(* Least and greatest numbers. *)

\* A set of natural numbers that is not empty has a least one.
LEMMA NatMin ==
  ASSUME NEW T, T \subseteq Nat, T # {}
  PROVE  \E n \in T : \A m \in T : n <= m
<1> DEFINE R == OpToRel(<, Nat)
<1>1. IsWellFoundedOn(R, Nat)
  BY NatLessThanWellFounded
<1>2. \E x \in T : \A y \in T : ~(<<y, x>> \in R)
  <2> HIDE DEF R
  <2> QED BY <1>1, WFMin
<1>3. \A x, y \in Nat : y < x => <<y, x>> \in R
  BY DEF OpToRel
<1> HIDE DEF R
<1>4. PICK n \in T : \A m \in T : ~(<<m, n>> \in R)
  BY <1>2
<1>5. \A m \in T : ~(m < n)
  BY <1>3, <1>4
<1> QED BY <1>5

\* A set of numbers up to n that is not empty has a greatest one.
LEMMA NatMax ==
  ASSUME NEW n \in Nat, NEW T, T \subseteq 0 .. n, T # {}
  PROVE  \E m \in T : \A k \in T : m >= k
<1> DEFINE U == {d \in Nat : n - d \in T}
<1>1. PICK t \in T : TRUE
  OBVIOUS
<1>2. n - t \in U
  BY <1>1
<1>3. PICK d \in U : \A e \in U : d <= e
  <2>1. U \subseteq Nat /\ U # {}
    BY <1>2
  <2> HIDE DEF U
  <2> QED BY <2>1, NatMin
<1>4. \A k \in T : n - k \in U
  OBVIOUS
<1>5. n - d \in T /\ \A k \in T : d <= n - k /\ k \in Nat /\ d \in Nat
  BY <1>3, <1>4
<1> QED BY <1>5

--------------------------------------------------------------------------------

\* Bytes are written as intervals: the n numbers after b.
Bytes(b, n) == [k \in 1..n |-> b + k]

\* The smaller of two numbers.
LEMMA MinOfTwo ==
  ASSUME NEW a \in Int, NEW b \in Int
  PROVE  Min({a, b}) = IF a <= b THEN a ELSE b
<1> DEFINE m == IF a <= b THEN a ELSE b
<1>1. m \in {a, b} /\ \A y \in {a, b} : m <= y
  OBVIOUS
<1>2. \A x \in {a, b} : (\A y \in {a, b} : x <= y) => x = m
  OBVIOUS
<1> QED BY <1>1, <1>2 DEF Min

\* The larger of two numbers.
LEMMA MaxOfTwo ==
  ASSUME NEW a \in Int, NEW b \in Int
  PROVE  Max({a, b}) = IF a >= b THEN a ELSE b
<1> DEFINE m == IF a >= b THEN a ELSE b
<1>1. m \in {a, b} /\ \A y \in {a, b} : m >= y
  OBVIOUS
<1>2. \A x \in {a, b} : (\A y \in {a, b} : x >= y) => x = m
  OBVIOUS
<1> QED BY <1>1, <1>2 DEF Max

\* An interval of bytes is a sequence.
LEMMA BytesAreSeq ==
  ASSUME NEW b \in Int, NEW n \in Nat
  PROVE  /\ Bytes(b, n) \in Seq(Int) /\ Len(Bytes(b, n)) = n
         /\ \A k \in 1..n : Bytes(b, n)[k] = b + k
<1>1. Bytes(b, n) \in [1..n -> Int]
  BY DEF Bytes
<1>2. Bytes(b, n) \in Seq(Int)
  BY <1>1
<1> QED BY <1>1, <1>2 DEF Bytes

\* A piece of an interval is an interval.
LEMMA SubBytes ==
  ASSUME NEW b \in Int, NEW n \in Nat, NEW i \in 1 .. n + 1, NEW j \in i - 1 .. n
  PROVE  SubSeq(Bytes(b, n), i, j) = Bytes(b + i - 1, j - i + 1)
<1>1. \A k \in i..j : Bytes(b, n)[k] \in Int /\ Bytes(b, n)[k] = b + k
  BY DEF Bytes
<1>2. /\ SubSeq(Bytes(b, n), i, j) \in Seq(Int)
      /\ Len(SubSeq(Bytes(b, n), i, j)) = j - i + 1
      /\ \A k \in 1 .. j - i + 1 : SubSeq(Bytes(b, n), i, j)[k] = Bytes(b, n)[i + k - 1]
  BY <1>1, SubSeqProperties
<1>3. /\ Bytes(b + i - 1, j - i + 1) \in Seq(Int)
      /\ Len(Bytes(b + i - 1, j - i + 1)) = j - i + 1
      /\ \A k \in 1 .. j - i + 1 : Bytes(b + i - 1, j - i + 1)[k] = b + i - 1 + k
  <2>1. b + i - 1 \in Int /\ j - i + 1 \in Nat
    OBVIOUS
  <2> QED BY <2>1, BytesAreSeq
<1>4. ASSUME NEW k \in 1 .. j - i + 1
      PROVE  SubSeq(Bytes(b, n), i, j)[k] = Bytes(b + i - 1, j - i + 1)[k]
  <2>1. i + k - 1 \in i..j
    OBVIOUS
  <2>2. Bytes(b, n)[i + k - 1] = b + (i + k - 1)
    BY <1>1, <2>1
  <2> QED BY <1>2, <1>3, <2>2
<1> QED BY <1>2, <1>3, <1>4, SeqEqual

\* Adjacent intervals make one.
LEMMA JoinBytes ==
  ASSUME NEW b \in Int, NEW m \in Nat, NEW n \in Nat
  PROVE  Bytes(b, m) \o Bytes(b + m, n) = Bytes(b, m + n)
<1>1. b + m \in Int /\ m + n \in Nat
  OBVIOUS
<1>2. /\ Bytes(b, m) \in Seq(Int) /\ Len(Bytes(b, m)) = m
      /\ \A k \in 1..m : Bytes(b, m)[k] = b + k
  BY BytesAreSeq
<1>3. /\ Bytes(b + m, n) \in Seq(Int) /\ Len(Bytes(b + m, n)) = n
      /\ \A k \in 1..n : Bytes(b + m, n)[k] = b + m + k
  BY <1>1, BytesAreSeq
<1>4. /\ Bytes(b, m + n) \in Seq(Int) /\ Len(Bytes(b, m + n)) = m + n
      /\ \A k \in 1 .. m + n : Bytes(b, m + n)[k] = b + k
  <2>1. m + n \in Nat
    OBVIOUS
  <2> QED BY <2>1, BytesAreSeq
<1>5. /\ Bytes(b, m) \o Bytes(b + m, n) \in Seq(Int)
      /\ Len(Bytes(b, m) \o Bytes(b + m, n)) = m + n
      /\ \A k \in 1 .. m + n : (Bytes(b, m) \o Bytes(b + m, n))[k] =
            IF k <= m THEN Bytes(b, m)[k] ELSE Bytes(b + m, n)[k - m]
  <2> DEFINE s == Bytes(b, m)
             t == Bytes(b + m, n)
  <2>2. s \in Seq(Int) /\ t \in Seq(Int) /\ Len(s) = m /\ Len(t) = n
    BY <1>2, <1>3
  <2> HIDE DEF s, t
  <2>3. /\ s \o t \in Seq(Int) /\ Len(s \o t) = Len(s) + Len(t)
        /\ \A k \in 1 .. Len(s) + Len(t) : (s \o t)[k] = IF k <= Len(s) THEN s[k] ELSE t[k - Len(s)]
    BY <2>2, ConcatProperties, Zenon
  <2> QED BY <2>2, <2>3 DEF s, t
<1>6. ASSUME NEW k \in 1 .. m + n
      PROVE  (Bytes(b, m) \o Bytes(b + m, n))[k] = Bytes(b, m + n)[k]
  <2>1. CASE k <= m
    BY <1>2, <1>4, <1>5, <2>1
  <2>2. CASE ~(k <= m)
    <3>1. k - m \in 1..n
      BY <2>2
    <3>2. (Bytes(b, m) \o Bytes(b + m, n))[k] = Bytes(b + m, n)[k - m]
      BY <1>5, <2>2
    <3>3. Bytes(b + m, n)[k - m] = b + m + (k - m)
      BY <1>3, <3>1
    <3>4. b + m + (k - m) = b + k
      OBVIOUS
    <3> QED BY <1>4, <3>2, <3>3, <3>4
  <2> QED BY <2>1, <2>2
<1> QED BY <1>4, <1>5, <1>6, SeqEqual

\* First and Latest of an interval.
LEMMA FirstBytes ==
  ASSUME NEW b \in Int, NEW n \in Nat, NEW m \in Nat
  PROVE  First(Bytes(b, n), m) = Bytes(b, IF m <= n THEN m ELSE n)
<1>1. Len(Bytes(b, n)) = n
  BY BytesAreSeq
<1>2. Min({m, n}) = IF m <= n THEN m ELSE n
  BY MinOfTwo
<1>3. ASSUME NEW l \in 0..n
      PROVE  SubSeq(Bytes(b, n), 1, l) = Bytes(b, l)
  <2>1. b + 1 - 1 = b /\ l - 1 + 1 = l /\ 1 \in 1 .. n + 1 /\ l \in 1 - 1 .. n
    OBVIOUS
  <2>2. SubSeq(Bytes(b, n), 1, l) = Bytes(b + 1 - 1, l - 1 + 1)
    BY <2>1, SubBytes
  <2> QED BY <2>1, <2>2
<1>4. (IF m <= n THEN m ELSE n) \in 0..n
  OBVIOUS
<1> QED BY <1>1, <1>2, <1>3, <1>4 DEF First

\* The last bytes of an interval are an interval.
LEMMA LatestBytes ==
  ASSUME NEW b \in Int, NEW n \in Nat, NEW m \in Nat
  PROVE  Latest(Bytes(b, n), m) = IF m <= n THEN Bytes(b + n - m, m) ELSE Bytes(b, n)
<1>1. Len(Bytes(b, n)) = n
  BY BytesAreSeq
<1>2. Max({0, n - m}) = IF 0 >= n - m THEN 0 ELSE n - m
  BY MaxOfTwo
<1>3. CASE m <= n
  <2>1. Max({0, n - m}) = n - m
    BY <1>2, <1>3
  <2>2. SubSeq(Bytes(b, n), n - m + 1, n) = Bytes(b + (n - m + 1) - 1, n - (n - m + 1) + 1)
    <3>1. n - m + 1 \in 1 .. n + 1 /\ n \in (n - m + 1) - 1 .. n
      BY <1>3
    <3> QED BY <3>1, SubBytes
  <2>3. b + (n - m + 1) - 1 = b + n - m /\ n - (n - m + 1) + 1 = m
    OBVIOUS
  <2> QED BY <1>1, <1>3, <2>1, <2>2, <2>3 DEF Latest
<1>4. CASE ~(m <= n)
  <2>1. Max({0, n - m}) + 1 = 1
    BY <1>2, <1>4
  <2>2. SubSeq(Bytes(b, n), 1, n) = Bytes(b, n)
    BY <1>1, BytesAreSeq, SubSeqFull
  <2> QED BY <1>1, <1>4, <2>1, <2>2 DEF Latest
<1> QED BY <1>3, <1>4

\* What is kept of an output of t bytes: how much, and which.
HeadSize(t) == IF HeadLimit <= t THEN HeadLimit ELSE t
TailSize(t) == IF TailLimit <= t - HeadSize(t) THEN TailLimit ELSE t - HeadSize(t)
Kept(t, h, e) == h = Bytes(0, HeadSize(t)) /\ e = Bytes(t - TailSize(t), TailSize(t))

\* _Capture.append keeps head and tail, whatever is appended.
LEMMA CollectKeeps ==
  ASSUME NEW n \in Nat, total \in Nat, Kept(total, head, tail), Collect(Bytes(total, n))
  PROVE  total' = total + n /\ Kept(total', head', tail')
<1> USE RunnerAssumption
<1> DEFINE m == HeadSize(total)
           room == HeadLimit - m
           p == IF room <= n THEN room ELSE n
           q == n - p
           s == TailSize(total)
<1>1. /\ m \in Nat /\ room \in Nat /\ p \in 0..n /\ q \in Nat /\ s \in Nat /\ total - s \in Int
      /\ p > 0 => m = total
      /\ q > 0 => p = room
      /\ HeadSize(total + n) = m + p
      /\ s > 0 => m = HeadLimit
      /\ s <= TailLimit /\ s <= total
  BY DEF HeadSize, TailSize
<1>2. head = Bytes(0, m) /\ tail = Bytes(total - s, s) /\ Len(head) = m
  BY <1>1, BytesAreSeq DEF Kept
<1>3. /\ Len(Bytes(total, n)) = n
      /\ total' = total + n
      /\ head' = head \o First(Bytes(total, n), room)
      /\ tail' = Latest(tail \o Latest(Bytes(total, n), Max({0, n - room})), TailLimit)
  <2>1. Len(Bytes(total, n)) = n
    BY BytesAreSeq
  <2> QED BY <2>1, <1>2 DEF Collect
<1>4. head' = Bytes(0, m + p)
  <2>1. First(Bytes(total, n), room) = Bytes(total, p)
    BY <1>1, FirstBytes
  <2>2. Bytes(total, p) = Bytes(m, p)
    <3>1. CASE p > 0
      BY <1>1, <3>1
    <3>2. CASE p = 0
      BY <3>2 DEF Bytes
    <3> QED BY <1>1, <3>1, <3>2
  <2>3. Bytes(0, m) \o Bytes(m, p) = Bytes(0, m + p)
    <3>1. 0 \in Int /\ m \in Nat /\ p \in Nat
      BY <1>1
    <3> HIDE DEF m, p
    <3>2. Bytes(0, m) \o Bytes(0 + m, p) = Bytes(0, m + p)
      BY <3>1, JoinBytes, Zenon
    <3>3. Bytes(0 + m, p) = Bytes(m, p)
      BY <3>1
    <3> QED BY <3>2, <3>3, Zenon
  <2> QED BY <1>2, <1>3, <2>1, <2>2, <2>3
<1>5. Max({0, n - room}) = q
  <2>1. n - room \in Int
    BY <1>1
  <2>2. Max({0, n - room}) = IF 0 >= n - room THEN 0 ELSE n - room
    BY <2>1, MaxOfTwo
  <2> QED BY <1>1, <2>2
<1>6. Latest(Bytes(total, n), q) = Bytes(total + n - q, q)
  <2>1. q \in Nat /\ q <= n /\ total \in Int
    BY <1>1
  <2> HIDE DEF q
  <2> QED BY <2>1, LatestBytes
<1>7. tail \o Bytes(total + n - q, q) = Bytes(total + n - q - s, s + q)
  <2>1. tail = Bytes(total + n - q - s, s)
    <3>1. CASE s > 0
      <4>1. n - q = 0
        BY <1>1, <3>1
      <4> QED BY <1>1, <1>2, <4>1
    <3>2. CASE s = 0
      BY <1>2, <3>2 DEF Bytes
    <3> QED BY <1>1, <3>1, <3>2
  <2>2. /\ total + n - q - s \in Int /\ q \in Nat /\ s \in Nat
        /\ total + n - q = (total + n - q - s) + s
    BY <1>1
  <2> DEFINE c == total + n - q
             d == total + n - q - s
  <2>3. Bytes(d, s) \o Bytes(c, q) = Bytes(d, s + q)
    <3>1. d \in Int /\ s \in Nat /\ q \in Nat /\ d + s = c
      BY <2>2
    <3> HIDE DEF c, d, q, s
    <3>2. Bytes(d, s) \o Bytes(d + s, q) = Bytes(d, s + q)
      BY <3>1, JoinBytes, Zenon
    <3>3. Bytes(d + s, q) = Bytes(c, q)
      BY <3>1
    <3> QED BY <3>2, <3>3, Zenon
  <2> QED BY <2>1, <2>3
<1>8. tail' = Latest(Bytes(total + n - q - s, s + q), TailLimit)
  BY <1>3, <1>5, <1>6, <1>7
<1>9. tail' = Bytes((total + n) - TailSize(total + n), TailSize(total + n))
  <2>1. total + n - q - s \in Int /\ s + q \in Nat /\ TailLimit \in Nat
    BY <1>1
  <2>2. Latest(Bytes(total + n - q - s, s + q), TailLimit) =
          IF TailLimit <= s + q
          THEN Bytes((total + n - q - s) + (s + q) - TailLimit, TailLimit)
          ELSE Bytes(total + n - q - s, s + q)
    BY <2>1, LatestBytes
  <2>3. CASE TailLimit <= s + q
    <3>1. TailSize(total + n) = TailLimit
      BY <1>1, <2>3 DEF TailSize
    <3>2. (total + n - q - s) + (s + q) - TailLimit = (total + n) - TailLimit
      BY <1>1
    <3> QED BY <1>8, <2>2, <2>3, <3>1, <3>2
  <2>4. CASE ~(TailLimit <= s + q)
    <3>1. TailSize(total + n) = s + q
      BY <1>1, <2>4 DEF TailSize
    <3>2. total + n - q - s = (total + n) - (s + q)
      BY <1>1
    <3> QED BY <1>8, <2>2, <2>4, <3>1, <3>2
  <2> QED BY <2>3, <2>4
<1>10. HeadSize(total') = m + p /\ total' = total + n
  BY <1>1, <1>3
<1> HIDE DEF m, p, q, s, room
<1>11. head' = Bytes(0, HeadSize(total'))
  BY <1>4, <1>10
<1>12. tail' = Bytes(total' - TailSize(total'), TailSize(total'))
  BY <1>9, <1>10
<1> QED BY <1>10, <1>11, <1>12 DEF Kept

\* HeadAndTailKept, in terms of intervals.
LEMMA KeptBytes == total \in Nat => (HeadAndTailKept <=> Kept(total, head, tail))
<1> SUFFICES ASSUME total \in Nat PROVE HeadAndTailKept <=> Kept(total, head, tail)
  OBVIOUS
<1> USE RunnerAssumption
<1>1. HeadSize(total) \in Nat /\ TailSize(total) \in Nat /\ total - HeadSize(total) \in Int
  BY DEF HeadSize, TailSize
<1>2. Min({HeadLimit, total}) = HeadSize(total)
  BY MinOfTwo DEF HeadSize
<1>3. Bytes(0, HeadSize(total)) = [k \in 1 .. HeadSize(total) |-> k]
  BY <1>1 DEF Bytes
<1>4. Len(Bytes(0, HeadSize(total))) = HeadSize(total)
  BY <1>1, BytesAreSeq
<1>5. Min({TailLimit, total - HeadSize(total)}) = TailSize(total)
  BY <1>1, MinOfTwo DEF TailSize
<1>6. Bytes(total - TailSize(total), TailSize(total))
        = [k \in 1 .. TailSize(total) |-> total - TailSize(total) + k]
  BY DEF Bytes
<1>7. CASE head = Bytes(0, HeadSize(total))
  <2>1. Min({TailLimit, total - Len(head)}) = TailSize(total)
    BY <1>4, <1>5, <1>7
  <2> QED BY <1>2, <1>3, <1>6, <1>7, <2>1, Zenon DEF HeadAndTailKept, Kept
<1>8. CASE head # Bytes(0, HeadSize(total))
  BY <1>2, <1>3, <1>8, Zenon DEF HeadAndTailKept, Kept
<1> QED BY <1>7, <1>8

--------------------------------------------------------------------------------
(* The inductive invariant *)

\* What TypeOK says, but for the lengths of the captures, which follow from their
\* contents.
Row == [state : {"unborn", "alive", "dead"}, group : {"own", "other"}, pipe : BOOLEAN]
ControlType ==
  /\ pc \in {"start", "starting", "running", "killed", "cancelled", "done"}
  /\ result \in {"none", "not started", "start cancelled", "result", "cancelled"}
  /\ exit \in {"none", "0", "1", "killed"}
ProcType == proc \in [Processes -> Row]
NumberType == written \in 0..MaxOutput /\ total \in 0..written
Types == ControlType /\ timedOut \in BOOLEAN /\ ProcType /\ NumberType

\* The leader stays in its group.  How it ended is known as soon as it has, and it was
\* killed only after a timeout or a cancellation.
ExitInv ==
  /\ proc[Leader].group = "own"
  /\ exit = "none" <=> proc[Leader].state # "dead"
  /\ exit = "killed" => timedOut \/ pc = "cancelled" \/ result \in {"start cancelled", "cancelled"}
  /\ pc = "killed" => timedOut
  /\ pc \in {"starting", "running", "killed", "cancelled"} =>
       proc[Leader].state # "unborn" /\ result = "none"
  /\ result = "result" => exit # "none"

\* Nobody is born before the start; after the run the leader is dead and nobody of the
\* group is left, unless the start was cancelled; after a result nobody can write.
EndInv ==
  /\ pc = "start" => (result = "none" /\ \A p \in Processes : proc[p].state = "unborn")
  /\ pc = "done" => ~Alive(Leader)
  /\ pc = "done" /\ result # "start cancelled" =>
       \A p \in Processes : Alive(p) => proc[p].group = "other"
  /\ result = "result" => pc = "done" /\ AtEnd

IInv == Types /\ Kept(total, head, tail) /\ ExitInv /\ EndInv

\* The initial states satisfy the invariant.
LEMMA Initially == Init => IInv
<1> SUFFICES ASSUME Init PROVE IInv
  OBVIOUS
<1> USE RunnerAssumption
<1>1. Types
  <2>1. Unborn \in Row
    BY Zenon DEF Unborn, Row
  <2>2. ProcType
    BY <2>1 DEF Init, ProcType
  <2>3. ControlType /\ NumberType
    BY DEF Init, ControlType, NumberType
  <2>4. timedOut \in BOOLEAN
    BY Zenon DEF Init
  <2> QED BY <2>2, <2>3, <2>4 DEF Types
<1>2. Kept(total, head, tail)
  <2>1. HeadSize(0) = 0 /\ TailSize(0) = 0
    <3>1. HeadSize(0) = 0
      BY DEF HeadSize
    <3> QED BY <3>1 DEF TailSize
  <2>2. \A b : Bytes(b, 0) = <<>>
    BY DEF Bytes
  <2> QED BY <2>1, <2>2, Zenon DEF Init, Kept
<1>3. ExitInv
  BY DEF Init, ExitInv, Unborn, Processes
<1>4. EndInv
  BY DEF Init, EndInv, Unborn, Processes, Alive
<1> QED BY <1>1, <1>2, <1>3, <1>4 DEF IInv

--------------------------------------------------------------------------------
(* What the steps do to the processes *)

\* A process that dies, or closes its pipe, is a process still.
LEMMA RowFacts ==
  ASSUME NEW r \in Row
  PROVE  /\ [r EXCEPT !.state = "dead"] \in Row
         /\ [r EXCEPT !.state = "dead"].state = "dead"
         /\ [r EXCEPT !.state = "dead"].group = r.group
         /\ [r EXCEPT !.state = "dead"].pipe = r.pipe
         /\ [r EXCEPT !.pipe = FALSE] \in Row
         /\ [r EXCEPT !.pipe = FALSE].state = r.state
         /\ [r EXCEPT !.pipe = FALSE].group = r.group
         /\ ~[r EXCEPT !.pipe = FALSE].pipe
  BY DEF Row

\* What the kill of the group does to each process.
LEMMA KillFacts ==
  ASSUME ProcType, Kill
  PROVE  /\ ProcType'
         /\ \A p \in Processes :
              /\ proc'[p].group = proc[p].group /\ proc'[p].pipe = proc[p].pipe
              /\ Alive(p) /\ proc[p].group = "own" => proc'[p].state = "dead"
              /\ ~(Alive(p) /\ proc[p].group = "own") => proc'[p].state = proc[p].state
         /\ exit' = IF Alive(Leader) THEN "killed" ELSE exit
<1>1. \A p \in Processes : proc[p] \in Row
  BY DEF ProcType
<1>2. proc' = [p \in Processes |->
                 IF Alive(p) /\ proc[p].group = "own" THEN [proc[p] EXCEPT !.state = "dead"]
                 ELSE proc[p]]
  BY DEF Kill
<1>3. \A p \in Processes : /\ [proc[p] EXCEPT !.state = "dead"] \in Row
                           /\ [proc[p] EXCEPT !.state = "dead"].state = "dead"
                           /\ [proc[p] EXCEPT !.state = "dead"].group = proc[p].group
                           /\ [proc[p] EXCEPT !.state = "dead"].pipe = proc[p].pipe
  BY <1>1, RowFacts
<1>4. ProcType'
  BY <1>1, <1>2, <1>3 DEF ProcType
<1>5. ASSUME NEW p \in Processes
      PROVE  /\ proc'[p].group = proc[p].group /\ proc'[p].pipe = proc[p].pipe
             /\ Alive(p) /\ proc[p].group = "own" => proc'[p].state = "dead"
             /\ ~(Alive(p) /\ proc[p].group = "own") => proc'[p].state = proc[p].state
  <2>1. CASE Alive(p) /\ proc[p].group = "own"
    BY <1>2, <1>3, <2>1
  <2>2. CASE ~(Alive(p) /\ proc[p].group = "own")
    BY <1>2, <2>2
  <2> QED BY <2>1, <2>2
<1> QED BY <1>4, <1>5 DEF Kill

\* A step that changes one process keeps the types.
LEMMA ProcExcept ==
  ASSUME ProcType, NEW p \in Processes, NEW r \in Row, proc' = [proc EXCEPT ![p] = r]
  PROVE  /\ ProcType' /\ proc'[p] = r
         /\ \A q \in Processes : q # p => proc'[q] = proc[q]
  BY DEF ProcType

\* A step of process p leaves the others alone.
LEMMA ExitFacts ==
  ASSUME ProcType, NEW p \in Processes, Exit(p)
  PROVE  /\ ProcType' /\ proc'[p].state = "dead"
         /\ proc'[p].group = proc[p].group /\ proc'[p].pipe = proc[p].pipe
         /\ \A q \in Processes : q # p => proc'[q] = proc[q]
<1>1. proc[p] \in Row
  BY DEF ProcType
<1> DEFINE r == [proc[p] EXCEPT !.state = "dead"]
<1>2. proc' = [proc EXCEPT ![p] = r]
  BY DEF Exit, ProcType
<1>3. r \in Row /\ r.state = "dead" /\ r.group = proc[p].group /\ r.pipe = proc[p].pipe
  BY <1>1, RowFacts
<1> HIDE DEF r
<1>4. ProcType' /\ proc'[p] = r /\ \A q \in Processes : q # p => proc'[q] = proc[q]
  BY <1>2, <1>3, ProcExcept
<1> QED BY <1>3, <1>4, Zenon

\* A process that closes its pipe stays in its state and its group.
LEMMA ClosePipeFacts ==
  ASSUME ProcType, NEW p \in Processes, ClosePipe(p)
  PROVE  /\ ProcType' /\ proc'[p].state = proc[p].state
         /\ proc'[p].group = proc[p].group /\ ~proc'[p].pipe
         /\ \A q \in Processes : q # p => proc'[q] = proc[q]
<1>1. proc[p] \in Row
  BY DEF ProcType
<1> DEFINE r == [proc[p] EXCEPT !.pipe = FALSE]
<1>2. proc' = [proc EXCEPT ![p] = r]
  BY DEF ClosePipe, ProcType
<1>3. r \in Row /\ r.state = proc[p].state /\ r.group = proc[p].group /\ ~r.pipe
  BY <1>1, RowFacts
<1> HIDE DEF r
<1>4. ProcType' /\ proc'[p] = r /\ \A q \in Processes : q # p => proc'[q] = proc[q]
  BY <1>2, <1>3, ProcExcept
<1> QED BY <1>3, <1>4, Zenon

\* A child is born alive; it is in a group or holds a pipe that was its parent's.
LEMMA ForkFacts ==
  ASSUME ProcType, NEW p \in Processes, Fork(p)
  PROVE  /\ ProcType'
         /\ \E c \in Others :
              /\ proc[c].state = "unborn" /\ proc'[c].state = "alive"
              /\ proc'[c].group \in {proc[p].group, "other"}
              /\ proc'[c].pipe => proc[p].pipe
              /\ \A q \in Processes : q # c => proc'[q] = proc[q]
<1>1. PICK c \in Others, g \in {proc[p].group, "other"}, b \in BOOLEAN :
        /\ proc[c].state = "unborn" /\ (b => proc[p].pipe)
        /\ proc' = [proc EXCEPT ![c] = [state |-> "alive", group |-> g, pipe |-> b]]
  BY Zenon DEF Fork
<1> DEFINE r == [state |-> "alive", group |-> g, pipe |-> b]
<1>2. r \in Row /\ r.state = "alive" /\ r.group = g /\ r.pipe = b
  <2>1. proc[p] \in Row
    BY DEF ProcType
  <2>2. g \in {"own", "other"}
    BY <2>1, <1>1 DEF Row
  <2> QED BY <2>2, Zenon DEF Row
<1>3. c \in Processes
  BY DEF Processes
<1> HIDE DEF r
<1>4. proc' = [proc EXCEPT ![c] = r]
  BY <1>1 DEF r
<1>5. /\ ProcType' /\ proc'[c] = r
      /\ \A q \in Processes : q # c => proc'[q] = proc[q]
  BY <1>2, <1>3, <1>4, ProcExcept
<1>6. proc'[c].state = "alive" /\ proc'[c].group = g
  BY <1>2, <1>5
<1>7. proc'[c].pipe => proc[p].pipe
  BY <1>1, <1>2, <1>5, Zenon
<1> QED BY <1>1, <1>3, <1>5, <1>6, <1>7, Zenon

\* What the cancellation of a start does to the leader: it kills it.
LEMMA KillLeaderFacts ==
  ASSUME ProcType, KillLeader
  PROVE  /\ ProcType'
         /\ proc'[Leader].state = "dead" /\ proc'[Leader].group = proc[Leader].group
         /\ exit' = IF Alive(Leader) THEN "killed" ELSE exit
<1>1. Leader \in Processes
  BY DEF Processes
<1>2. proc[Leader] \in Row
  BY <1>1 DEF ProcType
<1> DEFINE r == [proc[Leader] EXCEPT !.state = "dead"]
<1>3. proc' = [proc EXCEPT ![Leader] = r]
  BY <1>1 DEF KillLeader, ProcType
<1>4. r \in Row /\ r.state = "dead" /\ r.group = proc[Leader].group
  BY <1>2, RowFacts
<1> HIDE DEF r
<1>5. ProcType' /\ proc'[Leader] = r
  BY <1>1, <1>3, <1>4, ProcExcept
<1> QED BY <1>4, <1>5, Zenon DEF KillLeader

\* A read of the drain loop appends an interval.
LEMMA DrainReads ==
  ASSUME NumberType, Drain
  PROVE  \E n \in 1 .. written - total : Collect(Bytes(total, n))
<1> USE RunnerAssumption
<1>1. written - total \in Nat /\ total < written
  BY DEF NumberType, Drain
<1>2. Min({ReadSize, written - total}) = IF ReadSize <= written - total THEN ReadSize ELSE written - total
  BY <1>1, MinOfTwo
<1>3. PICK n \in 1 .. Min({ReadSize, written - total}) : Collect([k \in 1..n |-> total + k])
  BY DEF Drain
<1>4. n \in 1 .. written - total
  BY <1>1, <1>2, <1>3
<1> QED BY <1>3, <1>4 DEF Bytes

\* Only the drain loop writes to the captures.
LEMMA KeptStep == IInv /\ [Next]_vars => Kept(total, head, tail)'
<1> SUFFICES ASSUME IInv, [Next]_vars PROVE Kept(total, head, tail)'
  OBVIOUS
<1>1. CASE Drain
  <2>1. PICK n \in 1 .. written - total : Collect(Bytes(total, n))
    BY <1>1, DrainReads DEF IInv, Types
  <2>2. n \in Nat /\ total \in Nat
    BY DEF IInv, Types, NumberType
  <2>3. Kept(total', head', tail')
    BY <2>1, <2>2, CollectKeeps DEF IInv
  <2> QED BY <2>3
<1>2. CASE UNCHANGED capture
  BY <1>2 DEF IInv, capture, Kept
<1>3. Next => Drain \/ UNCHANGED capture
  BY Zenon DEF Next, Runner, Start, Started, Return, Timeout, Reaped, CancelStart, Cancel, CancelAgain,
         Fork, Write, ClosePipe, Exit
<1> QED BY <1>1, <1>2, <1>3 DEF vars

\* The leader is started, or nothing is.
LEMMA StartFacts ==
  ASSUME ProcType, Start
  PROVE  /\ ProcType'
         /\ \/ /\ pc' = "starting" /\ result' = result
               /\ proc'[Leader].state = "alive" /\ proc'[Leader].group = "own"
               /\ \A p \in Processes : p # Leader => proc'[p] = proc[p]
            \/ pc' = "done" /\ result' = "not started" /\ proc' = proc
<1>1. CASE pc' = "done" /\ result' = "not started" /\ proc' = proc
  BY <1>1 DEF ProcType
<1> DEFINE r == [state |-> "alive", group |-> "own", pipe |-> TRUE]
<1>2. CASE pc' = "starting" /\ result' = result /\ proc' = [proc EXCEPT ![Leader] = r]
  <2>1. r \in Row /\ r.state = "alive" /\ r.group = "own"
    BY Zenon DEF Row
  <2>2. Leader \in Processes
    BY DEF Processes
  <2> HIDE DEF r
  <2>3. /\ ProcType' /\ proc'[Leader] = r
        /\ \A p \in Processes : p # Leader => proc'[p] = proc[p]
    BY <1>2, <2>1, <2>2, ProcExcept
  <2> QED BY <1>2, <2>1, <2>3
<1> QED BY <1>1, <1>2, Zenon DEF Start

--------------------------------------------------------------------------------
(* Every step keeps the invariant *)

\* Every step keeps the types.
LEMMA TypeStep == IInv /\ [Next]_vars => Types'
<1> SUFFICES ASSUME IInv, [Next]_vars PROVE Types'
  OBVIOUS
<1> USE RunnerAssumption
<1> USE DEF IInv, Types
<1>1. ProcType'
  <2>1. ASSUME proc' = proc PROVE ProcType'
    BY <2>1 DEF ProcType
  <2>2. CASE Start BY <2>2, StartFacts
  <2>3. CASE Kill BY <2>3, KillFacts
  <2>4. ASSUME NEW p \in Processes, Fork(p) PROVE ProcType' BY <2>4, ForkFacts
  <2>5. ASSUME NEW p \in Processes, ClosePipe(p) PROVE ProcType' BY <2>5, ClosePipeFacts
  <2>6. ASSUME NEW p \in Processes, Exit(p) PROVE ProcType' BY <2>6, ExitFacts
  <2>7. CASE Drain BY <2>1, <2>7, Zenon DEF Drain
  <2>8. ASSUME NEW p \in Processes, Write(p) PROVE ProcType' BY <2>1, <2>8, Zenon DEF Write
  <2>9. CASE UNCHANGED vars BY <2>1, <2>9 DEF vars
  <2>11. CASE Started BY <2>1, <2>11, Zenon DEF Started
  <2>12. CASE CancelStart BY <2>12, KillLeaderFacts DEF CancelStart
  <2>10. Return \/ Timeout \/ Reaped \/ Cancel \/ CancelAgain => Kill
    BY Zenon DEF Return, Timeout, Reaped, Cancel, CancelAgain
  <2> QED BY <2>2, <2>3, <2>4, <2>5, <2>6, <2>7, <2>8, <2>9, <2>10, <2>11, <2>12, Zenon DEF Next, Runner
<1>2. NumberType'
  <2>1. CASE Drain
    <3>1. PICK n \in 1 .. written - total : Collect(Bytes(total, n))
      BY <2>1, DrainReads
    <3>2. total \in Int /\ n \in Nat /\ written \in 0..MaxOutput /\ n <= written - total
      BY DEF NumberType
    <3>3. Len(Bytes(total, n)) = n
      BY <3>2, BytesAreSeq
    <3>4. total' = total + n
      BY <3>1, <3>3 DEF Collect
    <3>5. written' = written
      BY <2>1 DEF Drain
    <3> QED BY <3>2, <3>4, <3>5 DEF NumberType
  <2>2. ASSUME NEW p \in Processes, Write(p) PROVE NumberType'
    BY <2>2 DEF Write, capture, NumberType
  <2>3. ASSUME UNCHANGED <<written, total>> PROVE NumberType'
    BY <2>3 DEF NumberType
  <2>4. Next => Drain \/ (\E p \in Processes : Write(p)) \/ UNCHANGED <<written, total>>
    BY Zenon DEF Next, Runner, Start, Started, Return, Timeout, Reaped, CancelStart, Cancel, CancelAgain,
           Fork, ClosePipe, Exit, capture
  <2> QED BY <2>1, <2>2, <2>3, <2>4, Zenon DEF vars, capture
<1>3. ControlType'
  <2>1. Start \/ Started \/ Drain \/ Return \/ Timeout \/ Reaped => ControlType'
    BY ZenonT(30) DEF ControlType, Start, Started, Drain, Return, Timeout, Reaped, Kill, run
  <2>2. CancelStart \/ Cancel \/ CancelAgain => ControlType'
    BY ZenonT(30) DEF ControlType, CancelStart, Cancel, CancelAgain, Kill, KillLeader
  <2>3. ASSUME NEW p \in Processes, Fork(p) \/ Write(p) \/ ClosePipe(p) \/ Exit(p) PROVE ControlType'
    BY <2>3, ZenonT(30) DEF ControlType, Fork, Write, ClosePipe, Exit, run
  <2>4. UNCHANGED vars => ControlType'
    BY Zenon DEF ControlType, run, vars
  <2> QED BY <2>1, <2>2, <2>3, <2>4, Zenon DEF Next, Runner
<1>4. timedOut' \in BOOLEAN
  <2>1. timedOut' = timedOut \/ timedOut' = TRUE
    BY Zenon DEF Next, Runner, Start, Started, Drain, Return, Timeout, Reaped, CancelStart, Cancel, CancelAgain,
         Fork, Write, ClosePipe, Exit, run, vars
  <2> QED BY <2>1, Zenon
<1> QED BY <1>1, <1>2, <1>3, <1>4

\* How the command ended.
LEMMA ExitStep == IInv /\ [Next]_vars => ExitInv'
<1> SUFFICES ASSUME IInv, [Next]_vars PROVE ExitInv'
  OBVIOUS
<1>1. Leader \in Processes /\ Leader \notin Others
  BY RunnerAssumption DEF Processes
<1>2. ProcType /\ ExitInv /\ ControlType /\ EndInv
  BY DEF IInv, Types
<1>3. Kill => /\ proc'[Leader].group = "own"
              /\ Alive(Leader) => proc'[Leader].state = "dead" /\ exit' = "killed"
              /\ ~Alive(Leader) => proc'[Leader].state = proc[Leader].state /\ exit' = exit
  BY <1>1, <1>2, KillFacts DEF ExitInv
<1>4. proc[Leader].state \in {"unborn", "alive", "dead"}
  BY <1>1, <1>2 DEF ProcType, Row
<1>5. CASE Start
  BY <1>1, <1>2, <1>5, StartFacts DEF Start, ExitInv, EndInv
<1>6. CASE Return
  BY <1>2, <1>3, <1>4, <1>6 DEF Return, Completed, ExitInv, Alive
<1>7. CASE Timeout
  BY <1>2, <1>3, <1>4, <1>7 DEF Timeout, ExitInv, Alive
<1>8. CASE Reaped
  BY <1>2, <1>3, <1>4, <1>8 DEF Reaped, Completed, ExitInv, Alive
<1>9. CASE Cancel
  BY <1>2, <1>3, <1>4, <1>9 DEF Cancel, ExitInv, Alive
<1>10. CASE CancelAgain
  BY <1>2, <1>3, <1>4, <1>10 DEF CancelAgain, ExitInv, Alive
<1>11. ASSUME NEW p \in Processes, Fork(p) PROVE ExitInv'
  <2>1. proc'[Leader] = proc[Leader]
    BY <1>1, <1>2, <1>11, ForkFacts
  <2>2. UNCHANGED <<run, exit>>
    BY <1>11, Zenon DEF Fork
  <2> QED BY <1>2, <2>1, <2>2 DEF ExitInv, run
<1>12. ASSUME NEW p \in Processes, ClosePipe(p) PROVE ExitInv'
  <2>1. proc'[Leader].state = proc[Leader].state /\ proc'[Leader].group = proc[Leader].group
    BY <1>1, <1>2, <1>12, ClosePipeFacts
  <2>2. UNCHANGED <<run, exit>>
    BY <1>12 DEF ClosePipe
  <2> QED BY <1>2, <2>1, <2>2 DEF ExitInv, run
<1>13. ASSUME NEW p \in Processes, Exit(p) PROVE ExitInv'
  <2>1. CASE p = Leader
    <3>1. proc'[Leader].state = "dead" /\ proc'[Leader].group = proc[Leader].group
      BY <1>2, <1>13, <2>1, ExitFacts
    <3>2. exit' \in {"0", "1"} /\ UNCHANGED run
      BY <1>13, <2>1 DEF Exit
    <3> QED BY <1>2, <3>1, <3>2 DEF ExitInv, run
  <2>2. CASE p # Leader
    <3>1. proc'[Leader] = proc[Leader]
      BY <1>1, <1>2, <1>13, <2>2, ExitFacts
    <3>2. exit' = exit /\ UNCHANGED run
      BY <1>13, <2>2 DEF Exit
    <3> QED BY <1>2, <3>1, <3>2 DEF ExitInv, run
  <2> QED BY <2>1, <2>2
<1>14. ASSUME UNCHANGED <<run, exit, proc>> PROVE ExitInv'
  BY <1>2, <1>14 DEF ExitInv, run
<1>15. CASE Started
  BY <1>2, <1>15 DEF Started, ExitInv
<1>16. CASE CancelStart
  <2>1. /\ proc'[Leader].state = "dead" /\ proc'[Leader].group = "own"
        /\ exit' = IF Alive(Leader) THEN "killed" ELSE exit
    BY <1>2, <1>16, KillLeaderFacts DEF CancelStart, ExitInv
  <2> QED BY <1>2, <1>4, <1>16, <2>1 DEF CancelStart, ExitInv, Alive
<1> QED BY <1>5, <1>6, <1>7, <1>8, <1>9, <1>10, <1>11, <1>12, <1>13, <1>14, <1>15, <1>16, Zenon
        DEF Next, Runner, Drain, Write, vars

\* Nobody of the group is left when the run is over, and nobody who can write when
\* it has a result.
LEMMA EndStep == IInv /\ [Next]_vars => EndInv'
<1> SUFFICES ASSUME IInv, [Next]_vars PROVE EndInv'
  OBVIOUS
<1>1. Leader \in Processes /\ Others \subseteq Processes
  BY DEF Processes
<1>2. ProcType /\ ExitInv /\ ControlType /\ EndInv
  BY DEF IInv, Types
<1>3. \A p \in Processes : proc[p].group \in {"own", "other"}
  BY <1>2 DEF ProcType, Row
<1>4. ASSUME Kill
      PROVE  /\ \A p \in Processes : Alive(p)' => Alive(p) /\ proc'[p].group = "other"
             /\ UNCHANGED <<total, written>> /\ AtEnd => AtEnd'
         /\ ~Alive(Leader)'
  <2>1. \A p \in Processes : Alive(p)' => Alive(p) /\ proc[p].group = "other"
    BY <1>2, <1>3, <1>4, KillFacts DEF Alive
  <2>2. \A p \in Processes : proc'[p].group = proc[p].group /\ proc'[p].pipe = proc[p].pipe
    BY <1>2, <1>4, KillFacts
  <2>3. UNCHANGED <<total, written>> /\ AtEnd => AtEnd'
    BY <2>1, <2>2, Zenon DEF AtEnd
  <2>4. ~Alive(Leader)'
    BY <1>1, <1>2, <2>1 DEF ExitInv
  <2> QED BY <2>1, <2>2, <2>3, <2>4
<1>5. CASE Start
  BY <1>1, <1>2, <1>5, StartFacts DEF Start, EndInv, Alive
<1>6. CASE Return
  BY <1>4, <1>6, Zenon DEF Return, Completed, EndInv, capture
<1>7. CASE Timeout
  BY <1>2, <1>7 DEF Timeout, EndInv, ExitInv
<1>8. CASE Reaped
  BY <1>4, <1>8, Zenon DEF Reaped, Completed, EndInv, capture
<1>9. CASE Cancel
  BY <1>2, <1>9 DEF Cancel, EndInv, ExitInv
<1>10. CASE CancelAgain
  BY <1>4, <1>10 DEF CancelAgain, EndInv
<1>11. CASE Drain
  BY <1>2, <1>11 DEF Drain, EndInv, Alive, run
<1>12. ASSUME NEW p \in Processes, Fork(p) PROVE EndInv'
  <2>1. UNCHANGED <<run, written, capture>> /\ Alive(p)
    BY <1>12, Zenon DEF Fork
  <2>2. PICK c \in Others :
          /\ c # Leader
          /\ proc'[c].group \in {proc[p].group, "other"}
          /\ proc'[c].pipe => proc[p].pipe
          /\ \A q \in Processes : q # c => proc'[q] = proc[q]
    BY <1>2, <1>12, ForkFacts, RunnerAssumption
  <2>3. pc # "start"
    BY <1>2, <2>1 DEF EndInv, Alive
  <2>4. ASSUME pc = "done", result # "start cancelled", NEW q \in Processes, Alive(q)'
        PROVE  proc'[q].group = "other"
    BY <1>2, <2>1, <2>2, <2>4 DEF EndInv, Alive
  <2>6. ASSUME pc = "done" PROVE ~Alive(Leader)'
    BY <1>1, <1>2, <2>2, <2>6 DEF EndInv, Alive
  <2>5. ASSUME AtEnd PROVE AtEnd'
    BY <2>1, <2>2, <2>5, Zenon DEF AtEnd, Alive, capture
  <2> QED BY <1>2, <2>1, <2>3, <2>4, <2>5, <2>6, Zenon DEF EndInv, run
<1>13. ASSUME NEW p \in Processes, Write(p) PROVE EndInv'
  <2>1. result # "result"
    BY <1>2, <1>13, Zenon DEF Write, EndInv, AtEnd
  <2> QED BY <1>2, <1>13, <2>1 DEF Write, EndInv, Alive, run
<1>14. ASSUME NEW p \in Processes, UNCHANGED <<run, written, capture>>, Alive(p),
              proc'[p].state = proc[p].state \/ proc'[p].state = "dead",
              proc'[p].group = proc[p].group, proc'[p].pipe => proc[p].pipe,
              \A q \in Processes : q # p => proc'[q] = proc[q]
       PROVE  EndInv'
  <2>1. pc # "start"
    BY <1>2, <1>14 DEF EndInv, Alive
  <2>2. ASSUME pc = "done", result # "start cancelled", NEW q \in Processes, Alive(q)'
        PROVE  proc'[q].group = "other"
    BY <1>2, <1>14, <2>2 DEF EndInv, Alive
  <2>4. ASSUME pc = "done" PROVE ~Alive(Leader)'
    BY <1>1, <1>2, <1>14, <2>4 DEF EndInv, Alive
  <2>3. ASSUME AtEnd PROVE AtEnd'
    BY <1>14, <2>3, Zenon DEF AtEnd, Alive, capture
  <2> QED BY <1>2, <1>14, <2>1, <2>2, <2>3, <2>4, Zenon DEF EndInv, run
<1>15. ASSUME NEW p \in Processes, ClosePipe(p) PROVE EndInv'
  <2>1. Alive(p) /\ UNCHANGED <<run, written, capture>>
    BY <1>15 DEF ClosePipe
  <2> QED BY <1>2, <1>14, <1>15, <2>1, ClosePipeFacts, Zenon
<1>16. ASSUME NEW p \in Processes, Exit(p) PROVE EndInv'
  <2>1. Alive(p) /\ UNCHANGED <<run, written, capture>>
    BY <1>16 DEF Exit
  <2> QED BY <1>2, <1>14, <1>16, <2>1, ExitFacts, Zenon
<1>17. CASE UNCHANGED vars
  BY <1>2, <1>17 DEF vars, run, capture, EndInv, Alive, AtEnd
<1>18. CASE Started
  BY <1>2, <1>18 DEF Started, EndInv, ExitInv
<1>19. CASE CancelStart
  BY <1>2, <1>19, KillLeaderFacts DEF CancelStart, EndInv, Alive
<1> QED BY <1>5, <1>6, <1>7, <1>8, <1>9, <1>10, <1>11, <1>12, <1>13, <1>15, <1>16, <1>17, <1>18, <1>19, Zenon
        DEF Next, Runner

--------------------------------------------------------------------------------
(* Theorems *)

\* The invariant holds in every state.
THEOREM Inductive == Spec => []IInv
<1>1. IInv /\ [Next]_vars => IInv'
  BY TypeStep, KeptStep, ExitStep, EndStep, Zenon DEF IInv
<1> QED BY Initially, <1>1, PTL DEF Spec

\* Variables hold values of their types, and the captures stay within the limits
\* that _Capture was created with.
THEOREM TypeCorrect == Spec => []TypeOK
<1>1. IInv => TypeOK
  <2> SUFFICES ASSUME IInv PROVE TypeOK
    OBVIOUS
  <2>1. Len(head) <= HeadLimit /\ Len(tail) <= TailLimit
    <3>1. total \in Nat
      BY RunnerAssumption DEF IInv, Types, NumberType
    <3>2. /\ HeadSize(total) \in Nat /\ HeadSize(total) <= HeadLimit
          /\ TailSize(total) \in Nat /\ TailSize(total) <= TailLimit
          /\ total - TailSize(total) \in Int
      BY <3>1, RunnerAssumption DEF HeadSize, TailSize
    <3>3. Len(head) = HeadSize(total) /\ Len(tail) = TailSize(total)
      BY <3>2, BytesAreSeq DEF IInv, Kept
    <3> QED BY <3>2, <3>3
  <2> QED BY <2>1, Zenon DEF IInv, Types, ControlType, ProcType, NumberType, Row, TypeOK
<1> QED BY Inductive, <1>1, PTL

\* What _Capture keeps of any output is its beginning and its end, whatever the
\* pieces the drain loop reads.
THEOREM CaptureKeepsBothEnds == Spec => []HeadAndTailKept
<1>1. IInv => HeadAndTailKept
  BY KeptBytes, RunnerAssumption DEF IInv, Types, NumberType
<1> QED BY Inductive, <1>1, PTL

\* A result of run knows how the command ended and has all of its output.
THEOREM ResultsAreWhole == Spec => []ResultIsWhole
<1>1. IInv => ResultIsWhole
  BY DEF IInv, ExitInv, EndInv, AtEnd, ResultIsWhole
<1> QED BY Inductive, <1>1, PTL

\* However run ends once it has entered its try, timed out, cancelled once or again, or
\* in time, nobody of the command's process group is left; a start that is cancelled
\* leaves at most the children the command already had.
THEOREM NobodySurvives == Spec => []NoSurvivors
<1>1. IInv => NoSurvivors
  BY DEF IInv, EndInv, NoSurvivors
<1> QED BY Inductive, <1>1, PTL


--------------------------------------------------------------------------------
(* What the runners of checks conclude from the excerpt *)

\* The excerpt is the output, or its beginning, the marker and its end.
LEMMA ExcerptIs ==
  ASSUME IInv, result = "result", NEW S, NEW output \in Outputs(S)
  PROVE  /\ total \in Nat /\ output \in Seq(S) /\ Len(output) = total
         /\ HeadLimit \in Nat /\ TailLimit \in Nat
         /\ ~Truncated => Excerpt(output) = output
         /\ Truncated =>
              /\ total > HeadLimit + TailLimit /\ Len(tail) = TailLimit
              /\ Excerpt(output) \in Seq(S \cup {Eol, "junk"})
              /\ Len(Excerpt(output)) = HeadLimit + 3 + TailLimit
              /\ Excerpt(output)[HeadLimit + 3] = Eol
              /\ \A k \in 1 .. TailLimit :
                   Excerpt(output)[HeadLimit + 3 + k] = output[total - TailLimit + k]
<1> DEFINE H == HeadSize(total)
           T == TailSize(total)
           kept(positions) == [k \in DOMAIN positions |-> output[positions[k]]]
<1>1. total = written /\ total \in Nat /\ Kept(total, head, tail) /\ HeadLimit \in Nat /\ TailLimit \in Nat
  BY RunnerAssumption DEF IInv, EndInv, AtEnd, Types, NumberType
<1>2. output \in Seq(S) /\ Len(output) = total /\ \A k \in 1 .. total : output[k] \in S
  <2>1. output \in [1 .. total -> S]
    BY <1>1 DEF Outputs
  <2> QED BY <1>1, <2>1
<1>3. /\ H \in Nat /\ T \in Nat /\ total - T \in Int
      /\ head = Bytes(0, H) /\ tail = Bytes(total - T, T)
      /\ ~(total > HeadLimit + TailLimit) => H + T = total
      /\ total > HeadLimit + TailLimit => H = HeadLimit /\ T = TailLimit
  BY <1>1 DEF Kept, HeadSize, TailSize
<1> HIDE DEF H, T
<1>4. ASSUME ~Truncated PROVE Excerpt(output) = output
  <2>1. H + T = total
    BY <1>3, <1>4 DEF Truncated, Capacity
  <2>2. tail = Bytes(0 + H, T)
    BY <1>1, <1>3, <2>1
  <2>3. head \o tail = Bytes(0, total)
    <3>1. H \in Nat /\ T \in Nat /\ 0 \in Int
      BY <1>3
    <3>2. Bytes(0, H) \o Bytes(0 + H, T) = Bytes(0, H + T)
      BY <3>1, JoinBytes, Zenon
    <3> QED BY <1>3, <2>1, <2>2, <3>2
  <2>4. DOMAIN Bytes(0, total) = 1 .. total /\ \A k \in 1 .. total : Bytes(0, total)[k] = k
    BY <1>1 DEF Bytes
  <2>5. Excerpt(output) = [k \in 1 .. total |-> output[Bytes(0, total)[k]]]
    BY <1>4, <2>3, <2>4 DEF Excerpt
  <2>6. Excerpt(output) = [k \in 1 .. total |-> output[k]]
    BY <2>4, <2>5
  <2> QED BY <1>1, <1>2, <2>6
<1>5. ASSUME Truncated
      PROVE  /\ total > HeadLimit + TailLimit /\ Len(tail) = TailLimit
             /\ Excerpt(output) \in Seq(S \cup {Eol, "junk"})
             /\ Len(Excerpt(output)) = HeadLimit + 3 + TailLimit
             /\ Excerpt(output)[HeadLimit + 3] = Eol
             /\ \A k \in 1 .. TailLimit :
                  Excerpt(output)[HeadLimit + 3 + k] = output[total - TailLimit + k]
  <2>1. total > HeadLimit + TailLimit /\ H = HeadLimit /\ T = TailLimit
    BY <1>3, <1>5 DEF Truncated, Capacity
  <2>2. Len(tail) = TailLimit
    BY <1>3, <2>1, BytesAreSeq
  <2>3. Excerpt(output) = (kept(head) \o Marker) \o kept(tail)
    BY <1>5 DEF Excerpt
  <2> DEFINE SS == S \cup {Eol, "junk"}
             a == kept(head)
             c == kept(tail)
  <2>4. a \in Seq(SS) /\ Len(a) = HeadLimit
    <3>1. a = [k \in 1 .. HeadLimit |-> output[k]]
      BY <1>1, <1>3, <2>1 DEF Bytes
    <3>2. \A k \in 1 .. HeadLimit : output[k] \in SS
      BY <1>1, <1>2, <2>1
    <3> HIDE DEF a, SS
    <3>3. a \in [1 .. HeadLimit -> SS]
      BY <3>1, <3>2
    <3> QED BY <1>1, <3>3
  <2>5. /\ c \in Seq(SS) /\ Len(c) = TailLimit
        /\ \A k \in 1 .. TailLimit : c[k] = output[total - TailLimit + k]
    <3>1. c = [k \in 1 .. TailLimit |-> output[total - TailLimit + k]]
      BY <1>1, <1>3, <2>1 DEF Bytes
    <3>2. \A k \in 1 .. TailLimit : output[total - TailLimit + k] \in SS
      <4>1. \A k \in 1 .. TailLimit : total - TailLimit + k \in 1 .. total
        BY <1>1, <2>1
      <4> QED BY <1>2, <4>1
    <3> HIDE DEF c, SS
    <3>3. c \in [1 .. TailLimit -> SS]
      BY <3>1, <3>2
    <3>4. c \in Seq(SS) /\ Len(c) = TailLimit
      BY <1>1, <3>3
    <3> QED BY <3>1, <3>4
  <2>6. Marker \in Seq(SS) /\ Len(Marker) = 3 /\ Marker[3] = Eol
    BY DEF Marker
  <2> HIDE DEF a, c, SS
  <2>7. Excerpt(output) = (a \o Marker) \o c
    BY <2>3 DEF a, c
  <2> DEFINE b == a \o Marker
  <2>8. b \in Seq(SS) /\ Len(b) = HeadLimit + 3 /\ b[HeadLimit + 3] = Eol
    <3>1. b \in Seq(SS) /\ Len(b) = Len(a) + Len(Marker)
          /\ \A i \in 1 .. Len(a) + Len(Marker) : b[i] = IF i <= Len(a) THEN a[i] ELSE Marker[i - Len(a)]
      BY <2>4, <2>6, ConcatProperties, Zenon
    <3>2. b[HeadLimit + 3] = Marker[3]
      <4>1. HeadLimit + 3 \in 1 .. HeadLimit + 3 /\ ~(HeadLimit + 3 <= HeadLimit)
            /\ (HeadLimit + 3) - HeadLimit = 3
        BY <1>1
      <4> QED BY <2>4, <2>6, <3>1, <4>1
    <3> QED BY <2>4, <2>6, <3>1, <3>2
  <2> HIDE DEF b
  <2>9. /\ b \o c \in Seq(SS) /\ Len(b \o c) = HeadLimit + 3 + TailLimit
        /\ (b \o c)[HeadLimit + 3] = Eol
        /\ \A k \in 1 .. TailLimit : (b \o c)[HeadLimit + 3 + k] = c[k]
    BY <1>1, <2>5, <2>8
  <2>10. Excerpt(output) = b \o c
    BY <2>7 DEF b
  <2> QED BY <2>1, <2>2, <2>5, <2>9, <2>10 DEF SS
<1> QED BY <1>1, <1>2, <1>4, <1>5

\* A line begins after the last end of line before its own.
BeginsAt(t, end, s) ==
  /\ s \in 1 .. end
  /\ s = 1 \/ t[s - 1] = Eol
  /\ \A k \in s .. end - 1 : t[k] # Eol

\* Every line begins somewhere, and only there.
LEMMA LineBegins ==
  ASSUME NEW t, NEW end \in Nat \ {0}
  PROVE  /\ BeginsAt(t, end, LineStart(t, end))
         /\ \A s : BeginsAt(t, end, s) => LineStart(t, end) = s
<1> DEFINE A == {0} \cup {k \in 1 .. end - 1 : t[k] = Eol}
<1>1. A \subseteq 0 .. end - 1 /\ end - 1 \in Nat /\ A # {}
  OBVIOUS
<1>2. PICK m \in A : \A k \in A : m >= k
  BY <1>1, NatMax
<1>3. Max(A) = m
  <2>1. \A x \in A : (\A y \in A : x >= y) => x = m
    BY <1>1, <1>2
  <2> HIDE DEF A
  <2> QED BY <1>2, <2>1 DEF Max
<1>4. LineStart(t, end) = m + 1 /\ m \in Nat
  BY <1>1, <1>3 DEF LineStart
<1>5. BeginsAt(t, end, m + 1)
  <2>1. m + 1 \in 1 .. end /\ (m + 1 = 1 \/ t[(m + 1) - 1] = Eol)
    BY <1>1, <1>2
  <2>2. ASSUME NEW k \in m + 1 .. end - 1 PROVE t[k] # Eol
    <3>1. k \in 1 .. end - 1 /\ ~(m >= k)
      BY <1>1, <1>4
    <3> QED BY <1>2, <3>1
  <2> QED BY <2>1, <2>2 DEF BeginsAt
<1>6. ASSUME NEW s, BeginsAt(t, end, s) PROVE s = m + 1
  <2>1. s \in 1 .. end /\ s - 1 \in Nat /\ s - 1 \in A
    BY <1>6 DEF BeginsAt
  <2>2. s - 1 <= m
    BY <1>2, <2>1
  <2>3. ~(s <= m)
    <3> SUFFICES ASSUME s <= m PROVE FALSE
      OBVIOUS
    <3>1. m \in s .. end - 1 /\ m # 0
      BY <1>1, <1>4, <2>1
    <3>2. t[m] = Eol
      BY <1>2, <3>1
    <3> QED BY <1>6, <3>1, <3>2 DEF BeginsAt
  <2> QED BY <1>4, <2>1, <2>2, <2>3
<1> QED BY <1>4, <1>5, <1>6

\* The greatest number of a bounded set.
LEMMA MaxIs ==
  ASSUME NEW n \in Nat, NEW A, A \subseteq 0 .. n
  PROVE  /\ A # {} => Max(A) \in A /\ \A k \in A : Max(A) >= k
         /\ \A m \in A : (\A k \in A : m >= k) => Max(A) = m
<1>1. ASSUME NEW m \in A, \A k \in A : m >= k PROVE Max(A) = m
  <2>1. \A x \in A : (\A y \in A : x >= y) => x = m
    BY <1>1
  <2> QED BY <1>1, <2>1 DEF Max
<1>2. ASSUME A # {} PROVE Max(A) \in A /\ \A k \in A : Max(A) >= k
  <2>1. PICK m \in A : \A k \in A : m >= k
    BY <1>2, NatMax
  <2>2. Max(A) = m
    BY <1>1, <2>1
  <2> QED BY <2>1, <2>2
<1> QED BY <1>1, <1>2

\* A line is what stands between where it begins and where it ends.
LEMMA LineIs ==
  ASSUME NEW S, NEW t \in Seq(S), NEW end \in 1 .. Len(t) + 1
  PROVE  LET s == LineStart(t, end) IN
         /\ s \in 1 .. end /\ BeginsAt(t, end, s)
         /\ Line(t, end) \in Seq(S) /\ Len(Line(t, end)) = end - s
         /\ \A k \in 1 .. end - s : Line(t, end)[k] = t[s + k - 1]
<1> DEFINE s == LineStart(t, end)
<1>1. end \in Nat \ {0} /\ Len(t) \in Nat
  OBVIOUS
<1>2. BeginsAt(t, end, s)
  BY <1>1, LineBegins
<1> HIDE DEF s
<1>3. s \in 1 .. end
  BY <1>2 DEF BeginsAt
<1>4. \A i \in s .. end - 1 : t[i] \in S
  BY <1>1, <1>3
<1>5. /\ SubSeq(t, s, end - 1) \in Seq(S)
      /\ Len(SubSeq(t, s, end - 1)) = IF s <= end - 1 THEN (end - 1) - s + 1 ELSE 0
      /\ \A k \in 1 .. (end - 1) - s + 1 : SubSeq(t, s, end - 1)[k] = t[s + k - 1]
  BY <1>1, <1>3, <1>4, SubSeqProperties
<1>6. Line(t, end) = SubSeq(t, s, end - 1)
  BY DEF Line, s
<1> QED BY <1>1, <1>2, <1>3, <1>5, <1>6 DEF s

\* Two texts that end alike after an end of line: u is t from b on, moved by d.
EndAlike(t, u, b, d) ==
  /\ Len(u) = Len(t) + d
  /\ u[b + d] = Eol
  /\ \A k \in b + 1 .. Len(t) : u[k + d] = t[k]

\* A line of t after b is a line of u, d further on.
LEMMA SameLine ==
  ASSUME NEW S, NEW t \in Seq(S), NEW u \in Seq(S), NEW b \in 0 .. Len(t), NEW d \in Int,
         b + d >= 1, EndAlike(t, u, b, d),
         NEW end \in b + 1 .. Len(t) + 1, LineStart(t, end) > b
  PROVE  LineStart(u, end + d) = LineStart(t, end) + d /\ Line(u, end + d) = Line(t, end)
<1> DEFINE s == LineStart(t, end)
<1>1. Len(t) \in Nat /\ Len(u) \in Nat /\ Len(u) = Len(t) + d /\ b \in Nat
  BY DEF EndAlike
<1>2. end \in 1 .. Len(t) + 1 /\ end + d \in 1 .. Len(u) + 1 /\ end \in Nat /\ end + d \in Nat \ {0}
  BY <1>1
<1>3. /\ s \in 1 .. end /\ BeginsAt(t, end, s) /\ Line(t, end) \in Seq(S)
      /\ Len(Line(t, end)) = end - s
      /\ \A k \in 1 .. end - s : Line(t, end)[k] = t[s + k - 1]
  BY <1>2, LineIs
<1>4. s > b
  OBVIOUS
<1> HIDE DEF s
<1>5. BeginsAt(u, end + d, s + d)
  <2>1. s + d \in 1 .. end + d
    BY <1>1, <1>2, <1>3, <1>4
  <2>2. u[(s + d) - 1] = Eol
    <3>1. CASE s = b + 1
      <4>1. (s + d) - 1 = b + d
        BY <1>1, <3>1
      <4> QED BY <4>1 DEF EndAlike
    <3>2. CASE s # b + 1
      <4>1. s - 1 \in b + 1 .. Len(t) /\ s # 1 /\ (s - 1) + d = (s + d) - 1
        BY <1>1, <1>2, <1>3, <1>4, <3>2
      <4>2. t[s - 1] = Eol
        BY <1>3, <4>1 DEF BeginsAt
      <4>3. u[(s - 1) + d] = t[s - 1]
        BY <4>1 DEF EndAlike
      <4> QED BY <4>1, <4>2, <4>3
    <3> QED BY <3>1, <3>2
  <2>3. ASSUME NEW k \in s + d .. (end + d) - 1 PROVE u[k] # Eol
    <3>1. k - d \in s .. end - 1 /\ k - d \in b + 1 .. Len(t) /\ (k - d) + d = k
      BY <1>1, <1>2, <1>3, <1>4
    <3>2. t[k - d] # Eol
      BY <1>3, <3>1 DEF BeginsAt
    <3>3. u[(k - d) + d] = t[k - d]
      BY <3>1 DEF EndAlike
    <3> QED BY <3>1, <3>2, <3>3
  <2> QED BY <2>1, <2>2, <2>3 DEF BeginsAt
<1>6. LineStart(u, end + d) = s + d
  BY <1>2, <1>5, LineBegins
<1>7. /\ Line(u, end + d) \in Seq(S) /\ Len(Line(u, end + d)) = (end + d) - (s + d)
      /\ \A k \in 1 .. (end + d) - (s + d) : Line(u, end + d)[k] = u[(s + d) + k - 1]
  <2>1. LET v == LineStart(u, end + d) IN
        /\ Line(u, end + d) \in Seq(S) /\ Len(Line(u, end + d)) = (end + d) - v
        /\ \A k \in 1 .. (end + d) - v : Line(u, end + d)[k] = u[v + k - 1]
    BY <1>2, LineIs, Zenon
  <2> QED BY <1>6, <2>1, Zenon
<1>8. (end + d) - (s + d) = end - s /\ end - s \in Nat
  BY <1>2, <1>3
<1>9. ASSUME NEW k \in 1 .. end - s PROVE Line(u, end + d)[k] = Line(t, end)[k]
  <2>1. s + k - 1 \in b + 1 .. Len(t) /\ (s + d) + k - 1 = (s + k - 1) + d
    <3>1. /\ s \in Nat /\ k \in Nat /\ k >= 1 /\ k <= end - s /\ s > b
          /\ end \in Nat /\ end <= Len(t) + 1
      BY <1>1, <1>2, <1>3, <1>4
    <3> QED BY <1>1, <3>1
  <2>2. u[(s + k - 1) + d] = t[s + k - 1]
    BY <2>1 DEF EndAlike
  <2> QED BY <1>3, <1>7, <1>8, <2>1, <2>2
<1>10. Line(u, end + d) = Line(t, end)
  BY <1>3, <1>7, <1>8, <1>9, SeqEqual
<1> QED BY <1>6, <1>10 DEF s

\* So they have the same last totals line, if that of t is within what is alike.
LEMMA SameTotals ==
  ASSUME NEW S, NEW t \in Seq(S), NEW u \in Seq(S), NEW b \in 0 .. Len(t), NEW d \in Int,
         b + d >= 1, EndAlike(t, u, b, d),
         Totals(t) # {}, LineStart(t, Max(Totals(t))) > b
  PROVE  ParseSummary(u) = ParseSummary(t)
<1> DEFINE e == Max(Totals(t))
<1>1. Len(t) \in Nat /\ Len(u) \in Nat /\ Len(u) = Len(t) + d /\ b \in Nat
  BY DEF EndAlike
<1>2. /\ Totals(t) \subseteq 0 .. Len(t) + 1 /\ Totals(u) \subseteq 0 .. Len(u) + 1
      /\ Len(t) + 1 \in Nat /\ Len(u) + 1 \in Nat
  BY <1>1 DEF Totals, LineEnds
<1>3. e \in Totals(t) /\ \A k \in Totals(t) : e >= k
  BY <1>2, MaxIs
<1>4. e \in 1 .. Len(t) + 1 /\ (e = Len(t) + 1 \/ t[e] = Eol) /\ IsTotals(Line(t, e))
  BY <1>3 DEF Totals, LineEnds
<1>5. LineStart(t, e) > b /\ LineStart(t, e) \in 1 .. e
  BY <1>4, LineIs
<1> HIDE DEF e
<1>6. e \in b + 1 .. Len(t) + 1 /\ e \in Nat
  BY <1>1, <1>4, <1>5
<1>7. Line(u, e + d) = Line(t, e)
  BY <1>5, <1>6, SameLine
<1>8. e + d \in Totals(u)
  <2>1. e + d \in 1 .. Len(u) + 1
    BY <1>1, <1>6
  <2>2. e + d = Len(u) + 1 \/ u[e + d] = Eol
    <3>1. CASE e = Len(t) + 1
      BY <1>1, <3>1
    <3>2. CASE e # Len(t) + 1
      <4>1. e \in b + 1 .. Len(t) /\ t[e] = Eol
        BY <1>1, <1>4, <1>6, <3>2
      <4> QED BY <4>1 DEF EndAlike
    <3> QED BY <3>1, <3>2
  <2> QED BY <1>4, <1>7, <2>1, <2>2 DEF Totals, LineEnds
<1>9. ASSUME NEW x \in Totals(u) PROVE e + d >= x
  <2> SUFFICES ASSUME x > e + d PROVE FALSE
    BY <1>1, <1>2, <1>6
  <2> DEFINE y == x - d
  <2>1. /\ x \in 1 .. Len(u) + 1 /\ (x = Len(u) + 1 \/ u[x] = Eol) /\ IsTotals(Line(u, x))
    BY <1>9 DEF Totals, LineEnds
  <2>2. y \in e + 1 .. Len(t) + 1 /\ y + d = x /\ y \in b + 1 .. Len(t) + 1 /\ y \in 1 .. Len(t) + 1
    BY <1>1, <1>6, <2>1
  <2> HIDE DEF y
  <2>3. e \in 1 .. Len(t) /\ t[e] = Eol
    BY <1>1, <1>4, <1>6, <2>2
  <2>4. BeginsAt(t, y, LineStart(t, y)) /\ LineStart(t, y) \in 1 .. y
    BY <2>2, LineIs
  <2>5. LineStart(t, y) > e
    <3> SUFFICES ASSUME LineStart(t, y) <= e PROVE FALSE
      BY <1>6, <2>2, <2>4
    <3>1. e \in LineStart(t, y) .. y - 1
      BY <1>6, <2>2, <2>4
    <3> QED BY <2>3, <2>4, <3>1 DEF BeginsAt
  <2>6. LineStart(t, y) > b
    BY <1>1, <1>6, <2>2, <2>4, <2>5
  <2>7. Line(u, x) = Line(t, y)
    <3>1. Line(u, y + d) = Line(t, y)
      BY <2>2, <2>6, SameLine
    <3> QED BY <2>2, <3>1
  <2>8. y = Len(t) + 1 \/ t[y] = Eol
    <3>1. CASE x = Len(u) + 1
      BY <1>1, <2>1, <2>2, <3>1
    <3>2. CASE y # Len(t) + 1 /\ u[x] = Eol
      <4>1. y \in b + 1 .. Len(t)
        BY <1>1, <2>2, <3>2
      <4>2. u[y + d] = t[y]
        BY <4>1 DEF EndAlike
      <4> QED BY <2>2, <3>2, <4>2
    <3> QED BY <2>1, <3>1, <3>2
  <2>9. y \in Totals(t)
    BY <2>1, <2>2, <2>7, <2>8 DEF Totals, LineEnds
  <2> QED BY <1>3, <1>6, <2>2, <2>9
<1>10. Max(Totals(u)) = e + d
  BY <1>2, <1>8, <1>9, MaxIs
<1>11. Totals(u) # {} /\ Line(u, Max(Totals(u))) = Line(t, Max(Totals(t)))
  BY <1>7, <1>8, <1>10 DEF e
<1> QED BY <1>11, Zenon DEF ParseSummary

\* The verdict of PytestRunner.run on the excerpt is its verdict on the whole output,
\* as long as the captured end holds the last totals line: neither what was printed
\* before it nor where the captures have cut the output makes a difference.
THEOREM VerdictsAreOfWholeOutput == Spec => []VerdictOfWholeOutput
<1>1. IInv => VerdictOfWholeOutput
  <2> SUFFICES ASSUME IInv, result = "result", NEW output \in Outputs(PytestSymbols),
                      TotalsKept(output)
               PROVE  Verdict(Excerpt(output)) = Verdict(output)
    BY DEF VerdictOfWholeOutput
  <2> DEFINE t == output
             u == Excerpt(output)
             S == PytestSymbols \cup {Eol, "junk"}
             b == total - TailLimit
             d == HeadLimit + 3 + TailLimit - total
  <2>1. /\ total \in Nat /\ t \in Seq(PytestSymbols) /\ Len(t) = total
        /\ HeadLimit \in Nat /\ TailLimit \in Nat
        /\ ~Truncated => u = t
        /\ Truncated =>
              /\ total > HeadLimit + TailLimit /\ Len(tail) = TailLimit
              /\ u \in Seq(S) /\ Len(u) = HeadLimit + 3 + TailLimit /\ u[HeadLimit + 3] = Eol
              /\ \A k \in 1 .. TailLimit : u[HeadLimit + 3 + k] = t[total - TailLimit + k]
    BY ExcerptIs
  <2>2. CASE ~Truncated
    BY <2>1, <2>2
  <2>3. CASE Truncated
    <3>1. Totals(t) # {} /\ LineStart(t, Max(Totals(t))) > b
      BY <2>1, <2>3 DEF TotalsKept
    <3> HIDE DEF t, u
    <3>2. t \in Seq(S)
      <4> HIDE DEF S
      <4>1. PytestSymbols \subseteq S
        BY DEF S
      <4>2. t \in [1 .. total -> S]
        BY <2>1, <4>1
      <4> QED BY <2>1, <4>2
    <3>3. b \in 0 .. Len(t) /\ d \in Int /\ b + d = HeadLimit + 3 /\ b + d >= 1
      BY <2>1, <2>3
    <3>4. EndAlike(t, u, b, d)
      <4>1. ASSUME NEW k \in b + 1 .. Len(t) PROVE u[k + d] = t[k]
        <5>1. /\ k - b \in 1 .. TailLimit /\ k + d = HeadLimit + 3 + (k - b)
              /\ total - TailLimit + (k - b) = k
          BY <2>1, <2>3
        <5>2. u[HeadLimit + 3 + (k - b)] = t[total - TailLimit + (k - b)]
          BY <2>1, <2>3, <5>1
        <5> QED BY <5>1, <5>2
      <4>2. Len(u) = Len(t) + d
        BY <2>1, <2>3
      <4> QED BY <2>1, <2>3, <3>3, <4>1, <4>2 DEF EndAlike
    <3> HIDE DEF S, b, d
    <3>5. ParseSummary(u) = ParseSummary(t)
      BY <2>1, <2>3, <3>1, <3>2, <3>3, <3>4, SameTotals
    <3> QED BY <3>5, Zenon DEF Verdict, t, u
  <2> QED BY <2>2, <2>3
<1> QED BY Inductive, <1>1, PTL

\* What is neither empty nor a record does not pass: a finding anywhere in a text whose
\* lines are all records is the record of its line.
LEMMA FindingIsReported ==
  ASSUME NEW S, NEW t \in Seq(S), Records(t) = Lines(t), NEW i \in 1 .. Len(t), t[i] = "finding"
  PROVE  \E end \in Records(t) : Line(t, end)[1] = "finding"
<1> DEFINE A == {k \in i + 1 .. Len(t) + 1 : k = Len(t) + 1 \/ t[k] = Eol}
<1>1. Len(t) \in Nat /\ i \in Nat /\ "finding" # Eol
  BY DEF Eol
<1>2. A \subseteq Nat /\ Len(t) + 1 \in A
  BY <1>1
<1>3. PICK e \in A : \A k \in A : e <= k
  <2> HIDE DEF A
  <2> QED BY <1>2, NatMin
<1>4. e \in 1 .. Len(t) + 1 /\ e \in LineEnds(t) /\ i < e
  BY <1>1, <1>3 DEF LineEnds
<1> DEFINE s == LineStart(t, e)
<1>5. /\ s \in 1 .. e /\ BeginsAt(t, e, s) /\ Line(t, e) \in Seq(S)
      /\ Len(Line(t, e)) = e - s
      /\ \A k \in 1 .. e - s : Line(t, e)[k] = t[s + k - 1]
  BY <1>4, LineIs
<1> HIDE DEF s
<1>6. s <= i
  <2> SUFFICES ASSUME s > i PROVE FALSE
    BY <1>1, <1>5
  <2>1. s - 1 \in i .. e - 1 /\ s # 1
    BY <1>1, <1>4, <1>5
  <2>2. t[s - 1] = Eol
    BY <1>5, <2>1 DEF BeginsAt
  <2>3. s - 1 \in A
    BY <1>1, <1>4, <2>1, <2>2
  <2> QED BY <1>1, <1>3, <1>4, <1>5, <2>3
<1>7. i - s + 1 \in 1 .. e - s /\ s + (i - s + 1) - 1 = i
  BY <1>1, <1>4, <1>5, <1>6
<1>8. Line(t, e)[i - s + 1] = "finding"
  BY <1>5, <1>7
<1>9. Line(t, e) # <<>>
  BY <1>5, <1>7
<1>10. e \in Records(t)
  BY <1>4, <1>9 DEF Lines
<1>11. Len(Line(t, e)) = 1
  BY <1>10 DEF Records, IsRecord
<1>12. i - s + 1 = 1
  <2>1. s \in Nat /\ e \in Nat /\ e - s = 1
    <3>1. Len(Line(t, e)) = e - s /\ s \in 1 .. e /\ e \in 1 .. Len(t) + 1
      BY <1>4, <1>5
    <3>2. s \in Nat /\ e \in Nat
      BY <1>1, <3>1
    <3>3. e - s = 1
      BY <1>11, <3>1, Zenon
    <3> QED BY <3>2, <3>3
  <2> QED BY <1>1, <1>7, <2>1
<1> QED BY <1>8, <1>10, <1>12

\* An analysis that StaticAnalysisRunner.run calls complete has reported every record of
\* the tool's output, and one that it calls clean none that is more than a note.
THEOREM AnalysesHideNothing == Spec => []NothingHidden
<1>1. IInv => NothingHidden
  <2> SUFFICES ASSUME IInv, result = "result", NEW output \in Outputs(AnalysisSymbols),
                      Complete(Excerpt(output))
               PROVE  /\ \A end \in Lines(output) : IsRecord(Line(output, end))
                      /\ Cardinality(Diagnostics(Excerpt(output))) = Cardinality(Lines(output))
                      /\ Clean(Excerpt(output)) => "finding" \notin Range(output) /\ exit = "0"
                                                   /\ ~timedOut
    BY Zenon DEF NothingHidden, Clean
  <2>1. /\ ~Truncated /\ Excerpt(output) = output /\ output \in Seq(AnalysisSymbols)
    BY ExcerptIs DEF Complete, WellFormed
  <2>2. Records(output) = Lines(output) /\ Diagnostics(output) = Records(output)
    BY <2>1 DEF Complete, WellFormed
  <2>3. \A end \in Lines(output) : IsRecord(Line(output, end))
    BY <2>2 DEF Records
  <2>4. ASSUME Clean(output) PROVE "finding" \notin Range(output) /\ exit = "0" /\ ~timedOut
    <3>1. AnalysisStatus(output) = "passed"
      BY <2>4 DEF Clean
    <3>2. exit = "0" /\ ~timedOut /\ "finding" \notin Severities(output, Diagnostics(output))
      BY <3>1 DEF AnalysisStatus
    <3>3. ASSUME "finding" \in Range(output) PROVE FALSE
      <4>1. PICK i \in 1 .. Len(output) : output[i] = "finding"
        BY <2>1, <3>3 DEF Range
      <4>2. PICK end \in Records(output) : Line(output, end)[1] = "finding"
        BY <2>1, <2>2, <4>1, FindingIsReported
      <4> QED BY <2>2, <3>2, <4>2 DEF Severities
    <3> QED BY <3>2, <3>3
  <2> QED BY <2>1, <2>2, <2>3, <2>4, Zenon
<1> QED BY Inductive, <1>1, PTL
================================================================================
