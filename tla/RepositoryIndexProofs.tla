------------------------- MODULE RepositoryIndexProofs --------------------------
(* What a request has read stays true of the tree until somebody edits it; with  *)
(* embeddings enabled the lock keeps the vectors it knows of in place; and every  *)
(* refresh that lets a running search go on leaves a vector on every chunk.      *)
EXTENDS RepositoryIndex, WellFoundedInduction, SequenceTheorems, FiniteSetTheorems, TLAPS

--------------------------------------------------------------------------------
(* Induction on natural numbers, with a set in place of a predicate. *)

\* A set of natural numbers that is not empty has a least one.
LEMMA NatMin ==
  ASSUME NEW T, T \subseteq Nat, T # {}
  PROVE  \E n \in T : \A m \in T : n <= m
<1> DEFINE R == OpToRel(<, Nat)
<1>1. IsWellFoundedOn(R, Nat)
  BY NatLessThanWellFounded
<1>2. \E x \in T : \A y \in T : ~(<<y, x>> \in R)
  <2> HIDE DEF R
  <2> QED BY <1>1, WFMin
<1>3. \A x, y \in Nat : y < x => <<y, x>> \in R
  BY DEF OpToRel
<1> HIDE DEF R
<1>4. PICK n \in T : \A m \in T : ~(<<m, n>> \in R)
  BY <1>2
<1>5. \A m \in T : ~(m < n)
  BY <1>3, <1>4
<1> QED BY <1>5

\* A set that has 0, and with each number the next, has every natural number.
LEMMA NatSetInduction ==
  ASSUME NEW S, 0 \in S, \A n \in Nat : n \in S => n + 1 \in S
  PROVE  Nat \subseteq S
<1> SUFFICES ASSUME Nat \ S # {} PROVE FALSE
  OBVIOUS
<1>1. PICK n \in Nat \ S : \A m \in Nat \ S : n <= m
  <2>1. Nat \ S \subseteq Nat
    OBVIOUS
  <2> QED BY <2>1, NatMin
<1>2. n # 0
  OBVIOUS
<1>3. n - 1 \in Nat /\ ~(n <= n - 1) /\ (n - 1) + 1 = n
  BY <1>2
<1>4. n - 1 \in S
  BY <1>1, <1>3
<1> QED BY <1>3, <1>4

--------------------------------------------------------------------------------

(* The types, as sets. *)
Chunk == [text : Seq(Lines) \ {<<>>}, embedding : {{}} \cup {{e} : e \in Embedding}]
Row ==
  {r \in [text : Texts, size : {x.size : x \in Settings}, chunks : Seq(Chunk)] :
     /\ Len(r.chunks) = Len(ChunkText(r.text, r.size))
     /\ \A n \in 1 .. Len(r.chunks) : r.chunks[n].text = ChunkText(r.text, r.size)[n]}
Rows == UNION {[fs -> Row] : fs \in SUBSET Files}
Fts == SUBSET (Files \X Nat \X Seq(Lines))
Handler ==
  [pc : {"idle", "waiting", "reading", "embedding"}, outcome : {"none", "stored"},
   listed : SUBSET Files, todo : SUBSET Files, rows : Rows, fts : Fts,
   cache : SUBSET Seq(Lines), missing : SUBSET Seq(Lines), edited : BOOLEAN]

Types ==
  /\ tree \in [Files -> Entry] /\ settings \in Settings
  /\ db \in [files : Rows, fts : Fts]
  /\ index \in [Indexers -> Handler]
  /\ \A i \in Indexers : index[i].todo \subseteq index[i].listed
  /\ DOMAIN search = Searches
  /\ \A s \in Searches : search[s].answer \in {"none", "results", "reindex"}

--------------------------------------------------------------------------------
(* The inductive invariant *)

Busy(h) == h.pc \in {"reading", "embedding"}
Listed == {f \in Files : tree[f].kind # "absent"}

\* The row of a readable file is up to date.
Fits(rows, f) == tree[f].kind = "text" => UpToDate(rows, f, tree[f].text)

\* As long as nobody edits: the files read so far, and in the end all of them.
Reads(h) ==
  Busy(h) /\ ~h.edited =>
    /\ h.listed = Listed
    /\ h.pc = "reading" => \A f \in Listed \ h.todo : Fits(h.rows, f)
    /\ h.pc = "embedding" => /\ DOMAIN h.rows \subseteq Listed
                             /\ \A f \in Listed : Fits(h.rows, f)

\* What waits for its vectors is complete otherwise.
Prepared(h) ==
  h.pc = "embedding" => settings.embeddings /\ h.fts = FtsRows(h.rows)

\* A request knows every vector that is stored.
Knows(h) ==
  settings.embeddings =>
    /\ h.pc = "reading" => Reusable(db.files, settings.key) \subseteq h.cache
    /\ h.pc = "embedding" => h.missing \cap Reusable(db.files, settings.key) = {}

Sound(h) == Reads(h) /\ Prepared(h) /\ Knows(h)
AllSound == \A i \in Indexers : Sound(index[i])

\* With embeddings, one request at a time.
Alone ==
  settings.embeddings =>
    \A i, j \in Indexers : Busy(index[i]) /\ Busy(index[j]) => i = j

\* While a query is being embedded, every chunk has a vector.
Searched ==
  \A s \in Searches : search[s].pc = "embedding" =>
    settings.embeddings /\ \A c \in Chunks(db.files) : Counted(c)

Inv == Types /\ AllSound /\ Alone /\ Searched

--------------------------------------------------------------------------------
(* Cutting a text into chunks *)

\* The smaller of two numbers.
LEMMA MinOfTwo ==
  ASSUME NEW a \in Int, NEW b \in Int
  PROVE  Min({a, b}) = IF a <= b THEN a ELSE b
<1> DEFINE m == IF a <= b THEN a ELSE b
<1>1. m \in {a, b} /\ \A y \in {a, b} : m <= y
  OBVIOUS
<1>2. \A x \in {a, b} : (\A y \in {a, b} : x <= y) => x = m
  OBVIOUS
<1> HIDE DEF m
<1>3. Min({a, b}) = m
  BY <1>1, <1>2 DEF Min
<1> QED BY <1>3 DEF m

\* Two pieces of a text that meet are one piece.
LEMMA PiecesJoin ==
  ASSUME NEW S, NEW t \in Seq(S), NEW a \in 0 .. Len(t), NEW b \in a .. Len(t)
  PROVE  /\ SubSeq(t, 1, a) \o SubSeq(t, a + 1, b) = SubSeq(t, 1, b)
         /\ SubSeq(t, a + 1, b) \in Seq(S) /\ Len(SubSeq(t, a + 1, b)) = b - a
<1>1. a \in Nat /\ b \in Nat /\ Len(t) \in Nat /\ a <= b /\ b <= Len(t)
  OBVIOUS
<1>2. SubSeq(t, 1, a) \o SubSeq(t, a + 1, b) = SubSeq(t, 1, b)
  <2>1. 1 \in 1 .. Len(t) + 1 /\ a \in 1 - 1 .. Len(t)
    BY <1>1
  <2> QED BY <2>1, ConcatAdjacentSubSeq
<1>3. SubSeq(t, a + 1, b) \in Seq(S) /\ Len(SubSeq(t, a + 1, b)) = b - a
  <2>1. \A i \in a + 1 .. b : t[i] \in S
    BY <1>1
  <2>2. a + 1 \in Int /\ b \in Int
    BY <1>1
  <2>3. /\ SubSeq(t, a + 1, b) \in Seq(S)
        /\ Len(SubSeq(t, a + 1, b)) = IF a + 1 <= b THEN b - (a + 1) + 1 ELSE 0
    BY <2>1, <2>2, SubSeqProperties
  <2> QED BY <1>1, <2>3
<1> QED BY <1>2, <1>3

\* Putting pieces together, given what they amount to one after the other.
LEMMA Flattened ==
  ASSUME NEW S, NEW N \in Nat, NEW seqs \in [1 .. N -> Seq(S)], NEW prefix,
         prefix[0] = <<>>, \A n \in 1 .. N : prefix[n] = prefix[n - 1] \o seqs[n]
  PROVE  FlattenSeq(seqs) = prefix[N]
<1> DEFINE Grown(g) == [i \in 1 .. N |-> IF i = 1 THEN seqs[i] ELSE g[i - 1] \o seqs[i]]
           flatten == CHOOSE g : g = Grown(g)
           h == [i \in 1 .. N |-> prefix[i]]
           T == {n \in Nat : n \in 1 .. N => flatten[n] = prefix[n]}
<1>1. Len(seqs) = N
  OBVIOUS
<1>2. h = Grown(h)
  <2>1. ASSUME NEW i \in 1 .. N PROVE h[i] = IF i = 1 THEN seqs[i] ELSE h[i - 1] \o seqs[i]
    <3>1. CASE i = 1
      <4>1. <<>> \o seqs[i] = seqs[i]
        BY ConcatEmptySeq
      <4>2. prefix[i] = prefix[0] \o seqs[i]
        <5>1. i - 1 = 0
          BY <3>1
        <5> QED BY <5>1
      <4> QED BY <3>1, <4>1, <4>2
    <3>2. CASE i # 1
      <4>1. i - 1 \in 1 .. N
        BY <3>2
      <4> QED BY <3>2, <4>1
    <3> QED BY <3>1, <3>2
  <2> HIDE DEF h
  <2>2. h = [i \in 1 .. N |-> h[i]]
    BY DEF h
  <2> QED BY <2>1, <2>2
<1>3. flatten = Grown(flatten)
  <2> HIDE DEF h
  <2>1. \E g : g = Grown(g)
    BY <1>2
  <2> QED BY <2>1, Zenon
<1>4. FlattenSeq(seqs) = IF N = 0 THEN seqs ELSE flatten[N]
  BY <1>1 DEF FlattenSeq
<1> HIDE DEF flatten
<1>5. \A i \in 1 .. N : flatten[i] = IF i = 1 THEN seqs[i] ELSE flatten[i - 1] \o seqs[i]
  BY <1>3
<1>6. 0 \in T
  OBVIOUS
<1>7. ASSUME NEW n \in Nat, n \in T PROVE n + 1 \in T
  <2> SUFFICES ASSUME n + 1 \in 1 .. N PROVE flatten[n + 1] = prefix[n + 1]
    OBVIOUS
  <2>1. CASE n = 0
    <3>1. 1 \in 1 .. N
      BY <2>1
    <3>2. <<>> \o seqs[1] = seqs[1]
      BY <3>1, ConcatEmptySeq
    <3>3. prefix[1] = prefix[0] \o seqs[1]
      <4>1. 1 - 1 = 0
        OBVIOUS
      <4> QED BY <3>1, <4>1
    <3>4. flatten[1] = seqs[1]
      BY <1>5, <3>1
    <3> QED BY <2>1, <3>2, <3>3, <3>4
  <2>2. CASE n # 0
    <3>1. n \in 1 .. N /\ (n + 1) - 1 = n /\ n + 1 # 1
      BY <2>2
    <3>2. flatten[n] = prefix[n]
      BY <1>7, <3>1
    <3>3. flatten[n + 1] = flatten[n] \o seqs[n + 1]
      BY <1>5, <3>1
    <3>4. prefix[n + 1] = prefix[n] \o seqs[n + 1]
      BY <3>1
    <3> QED BY <3>2, <3>3, <3>4
  <2> QED BY <2>1, <2>2
<1>8. N \in T
  <2> HIDE DEF T
  <2> QED BY <1>6, <1>7, NatSetInduction
<1>9. CASE N = 0
  <2>1. seqs = <<>>
    BY <1>9
  <2> QED BY <1>4, <1>9, <2>1
<1>10. CASE N # 0
  BY <1>4, <1>8, <1>10
<1> QED BY <1>9, <1>10

\* A product with a larger factor is not smaller.
LEMMA Multiples ==
  ASSUME NEW a \in Nat, NEW b \in Nat, a <= b, NEW s \in Nat
  PROVE  a * s \in Nat /\ b * s \in Nat /\ a * s <= b * s
<1> DEFINE d == b - a
<1>1. d \in Nat /\ b = a + d
  OBVIOUS
<1> HIDE DEF d
<1>2. d * s \in Nat /\ a * s \in Nat
  BY <1>1
<1>3. (a + d) * s = a * s + d * s
  BY <1>1
<1> QED BY <1>1, <1>2, <1>3

\* How many chunks there are: enough for every line, the last one not empty.
LEMMA ChunkCount ==
  ASSUME NEW L \in Nat, NEW s \in Nat \ {0}
  PROVE  \E k \in Nat : /\ k = (L + s - 1) \div s /\ k * s >= L
                        /\ \A n \in 1 .. k : (n - 1) * s < L /\ (n - 1) * s \in Nat
                        /\ \A n \in 1 .. k - 1 : n * s < L
<1> DEFINE k == (L + s - 1) \div s
<1>1. k \in Nat /\ k * s <= L + s - 1 /\ L + s - 1 < (k + 1) * s
  OBVIOUS
<1> HIDE DEF k
<1>2. (k + 1) * s = k * s + s /\ k * s \in Nat
  BY <1>1
<1>3. k * s >= L
  BY <1>1, <1>2
<1>4. ASSUME NEW n \in 1 .. k PROVE (n - 1) * s < L /\ (n - 1) * s \in Nat
  <2>1. n \in Nat /\ n - 1 \in Nat /\ n <= k
    BY <1>1
  <2>2. n * s \in Nat /\ n * s <= k * s /\ (n - 1) * s \in Nat
    BY <1>1, <2>1, Multiples
  <2>3. n * s = (n - 1) * s + s
    BY <2>1
  <2> QED BY <1>1, <1>2, <2>2, <2>3
<1>5. ASSUME NEW n \in 1 .. k - 1 PROVE n * s < L
  <2>1. n + 1 \in 1 .. k /\ (n + 1) - 1 = n
    BY <1>1
  <2> QED BY <1>4, <2>1
<1> QED BY <1>1, <1>3, <1>4, <1>5 DEF k

\* chunk_text: the chunks, put together, are the text; each has at least one line
\* and at most size, and all but the last have exactly size.
LEMMA ChunksOfText ==
  ASSUME NEW S, NEW text \in Seq(S), NEW size \in Nat \ {0}
  PROVE  LET chunks == ChunkText(text, size) IN
         /\ chunks \in Seq(Seq(S) \ {<<>>})
         /\ FlattenSeq(chunks) = text
         /\ \A n \in DOMAIN chunks : Len(chunks[n]) \in 1 .. size
         /\ \A n \in 1 .. Len(chunks) - 1 : Len(chunks[n]) = size
<1> DEFINE L == Len(text)
           End(n) == IF n * size <= L THEN n * size ELSE L
           chunks == ChunkText(text, size)
<1>1. L \in Nat
  OBVIOUS
<1>2. PICK k \in Nat : /\ k = (L + size - 1) \div size /\ k * size >= L
                       /\ \A n \in 1 .. k : (n - 1) * size < L /\ (n - 1) * size \in Nat
                       /\ \A n \in 1 .. k - 1 : n * size < L
  <2> HIDE DEF L
  <2> QED BY <1>1, ChunkCount
<1>3. ASSUME NEW n \in Nat PROVE n * size \in Nat /\ Min({n * size, L}) = End(n)
  <2>1. n * size \in Nat
    OBVIOUS
  <2> QED BY <1>1, <2>1, MinOfTwo
<1>4. chunks = [n \in 1 .. k |-> SubSeq(text, (n - 1) * size + 1, End(n))]
  <2>1. chunks = [n \in 1 .. k |-> SubSeq(text, (n - 1) * size + 1, Min({n * size, L}))]
    BY <1>2 DEF ChunkText
  <2> HIDE DEF chunks, End
  <2>2. \A n \in 1 .. k : Min({n * size, L}) = End(n)
    BY <1>3
  <2> HIDE DEF L
  <2> QED BY <2>1, <2>2
<1> HIDE DEF L, End, chunks
<1>5. ASSUME NEW n \in 1 .. k
      PROVE  /\ (n - 1) * size \in 0 .. L /\ End(n) \in (n - 1) * size .. L
             /\ End(n - 1) = (n - 1) * size
             /\ End(n) - (n - 1) * size \in 1 .. size
             /\ n < k => End(n) - (n - 1) * size = size
  <2>1. n \in Nat /\ n - 1 \in Nat /\ (n - 1) * size < L /\ (n - 1) * size \in Nat
    BY <1>2
  <2>2. n * size = (n - 1) * size + size
    BY <2>1
  <2>3. n < k => n * size < L
    BY <1>2, <2>1
  <2> QED BY <1>1, <2>1, <2>2, <2>3 DEF End
<1>6. ASSUME NEW n \in 1 .. k
      PROVE  /\ chunks[n] \in Seq(S) /\ Len(chunks[n]) = End(n) - (n - 1) * size
             /\ SubSeq(text, 1, End(n)) = SubSeq(text, 1, End(n - 1)) \o chunks[n]
  <2> DEFINE a == (n - 1) * size
             b == End(n)
  <2>1. a \in 0 .. Len(text) /\ b \in a .. Len(text) /\ End(n - 1) = a
    BY <1>5 DEF L
  <2>2. chunks[n] = SubSeq(text, a + 1, b)
    BY <1>4
  <2> HIDE DEF a, b
  <2>3. /\ SubSeq(text, 1, a) \o SubSeq(text, a + 1, b) = SubSeq(text, 1, b)
        /\ SubSeq(text, a + 1, b) \in Seq(S) /\ Len(SubSeq(text, a + 1, b)) = b - a
    BY <2>1, PiecesJoin
  <2> QED BY <2>1, <2>2, <2>3 DEF a, b
<1>7. DOMAIN chunks = 1 .. k /\ Len(chunks) = k
  BY <1>4
<1>8. chunks \in [1 .. k -> Seq(S) \ {<<>>}] /\ chunks \in [1 .. k -> Seq(S)]
  <2>1. ASSUME NEW n \in 1 .. k PROVE chunks[n] \in Seq(S) \ {<<>>}
    <3>1. Len(chunks[n]) # 0
      BY <1>5, <1>6
    <3> QED BY <1>6, <3>1
  <2>2. chunks = [n \in 1 .. k |-> chunks[n]]
    BY <1>4
  <2> QED BY <2>1, <2>2
<1>9. FlattenSeq(chunks) = text
  <2> DEFINE prefix == [n \in 0 .. k |-> SubSeq(text, 1, End(n))]
  <2>1. prefix[0] = <<>>
    <3>1. End(0) = 0
      BY <1>1 DEF End
    <3> QED BY <3>1, SubSeqEmpty
  <2>2. ASSUME NEW n \in 1 .. k PROVE prefix[n] = prefix[n - 1] \o chunks[n]
    <3>1. n \in 0 .. k /\ n - 1 \in 0 .. k
      OBVIOUS
    <3> QED BY <1>6, <3>1
  <2>3. prefix[k] = text
    <3>1. End(k) = L
      BY <1>1, <1>2 DEF End
    <3> QED BY <3>1, SubSeqFull DEF L
  <2> HIDE DEF prefix
  <2>4. FlattenSeq(chunks) = prefix[k]
    BY <1>8, <2>1, <2>2, Flattened, ZenonT(30)
  <2> QED BY <2>3, <2>4
<1>10. chunks \in Seq(Seq(S) \ {<<>>})
  BY <1>8
<1>11. \A n \in 1 .. k : Len(chunks[n]) \in 1 .. size
  BY <1>5, <1>6
<1>12. \A n \in 1 .. k - 1 : Len(chunks[n]) = size
  BY <1>5, <1>6
<1> QED BY <1>7, <1>9, <1>10, <1>11, <1>12 DEF chunks

--------------------------------------------------------------------------------
(* Rows *)

\* A text is a sequence of lines, and chunk sizes are positive.
LEMMA TextsAreLines ==
  /\ \A t \in Texts : t \in Seq(Lines)
  /\ \A x \in Settings : x.size \in Nat \ {0}
<1>1. ASSUME NEW t \in Texts PROVE t \in Seq(Lines)
  <2>1. Range(t) \subseteq Lines
    BY DEF Lines
  <2>2. t \in Seq(Range(t))
    BY IndexAssumption
  <2> HIDE DEF Lines
  <2> QED BY <2>1, <2>2, SeqMonotonic
<1> QED BY <1>1, IndexAssumption

\* A chunk that is given a vector keeps its text, and the vector is sound.
LEMMA VectorGiven ==
  ASSUME NEW chunk \in Chunk, NEW key \in {x.key : x \in Settings}
  PROVE  /\ Embedded(chunk, key) \in Chunk /\ Embedded(chunk, key).text = chunk.text
         /\ Usable(Embedded(chunk, key), key)
<1> DEFINE e == [key |-> key, of |-> chunk.text, valid |-> TRUE]
           c == Embedded(chunk, key)
<1>1. chunk.text \in Seq(Lines) \ {<<>>}
  BY DEF Chunk
<1>2. e \in Embedding /\ e.key = key /\ e.of = chunk.text
  BY <1>1 DEF Embedding
<1>3. e.valid
  BY Zenon
<1>4. c = [chunk EXCEPT !.embedding = {e}]
  BY Zenon DEF Embedded
<1> HIDE DEF e
<1>5. chunk = [text |-> chunk.text, embedding |-> chunk.embedding]
  BY DEF Chunk
<1>6. c = [text |-> chunk.text, embedding |-> {e}]
  BY <1>4, <1>5
<1> HIDE DEF c
<1>7. c \in Chunk /\ c.text = chunk.text /\ c.embedding = {e}
  BY <1>1, <1>2, <1>6 DEF Chunk
<1>8. Usable(c, key)
  BY <1>2, <1>3, <1>7, Zenon DEF Usable
<1> QED BY <1>7, <1>8 DEF c

\* The row made of a text.
LEMMA RowMade ==
  ASSUME NEW text \in Texts, NEW x \in Settings
  PROVE  /\ FileRow(text, x.size) \in Row
         /\ FileRow(text, x.size).text = text /\ FileRow(text, x.size).size = x.size
<1> DEFINE size == x.size
           chunks == ChunkText(text, size)
           cs == [n \in DOMAIN chunks |-> [text |-> chunks[n], embedding |-> {}]]
           r == FileRow(text, size)
<1>1. text \in Seq(Lines) /\ size \in Nat \ {0}
  BY TextsAreLines
<1>2. chunks \in Seq(Seq(Lines) \ {<<>>})
  <2> HIDE DEF size
  <2> QED BY <1>1, ChunksOfText
<1>3. r = [text |-> text, size |-> size, chunks |-> cs]
  BY Zenon DEF FileRow
<1> HIDE DEF chunks
<1>4. cs \in Seq(Chunk) /\ Len(cs) = Len(chunks)
      /\ \A n \in 1 .. Len(cs) : cs[n].text = chunks[n]
  <2>1. Len(chunks) \in Nat /\ DOMAIN chunks = 1 .. Len(chunks)
    BY <1>2
  <2>2. \A n \in 1 .. Len(chunks) : [text |-> chunks[n], embedding |-> {}] \in Chunk
    <3> SUFFICES ASSUME NEW n \in 1 .. Len(chunks)
                 PROVE  [text |-> chunks[n], embedding |-> {}] \in Chunk
      OBVIOUS
    <3>1. chunks[n] \in Seq(Lines) \ {<<>>}
      BY <1>2
    <3> QED BY <3>1 DEF Chunk
  <2>3. cs \in [1 .. Len(chunks) -> Chunk]
    BY <2>1, <2>2
  <2>4. \A n \in 1 .. Len(chunks) : cs[n].text = chunks[n]
    BY <2>1
  <2> HIDE DEF cs
  <2> QED BY <2>1, <2>3, <2>4
<1> HIDE DEF cs, r
<1>5. r \in [text : Texts, size : {y.size : y \in Settings}, chunks : Seq(Chunk)]
      /\ r.text = text /\ r.size = size /\ r.chunks = cs
  BY <1>3, <1>4
<1> HIDE DEF size
<1>6. r \in Row
  BY <1>4, <1>5 DEF Row, chunks
<1> QED BY <1>5, <1>6 DEF r, size

\* A row that is up to date is its text cut up.
LEMMA RowSplits ==
  ASSUME NEW row \in Row
  PROVE  Splits(row, row.text, row.size)
<1> DEFINE chunks == ChunkText(row.text, row.size)
           texts == [n \in DOMAIN row.chunks |-> row.chunks[n].text]
<1>1. row.text \in Seq(Lines) /\ row.size \in Nat \ {0}
  <2>1. row.text \in Texts /\ \E x \in Settings : row.size = x.size
    BY DEF Row
  <2> QED BY <2>1, TextsAreLines
<1>2. /\ chunks \in Seq(Seq(Lines) \ {<<>>})
      /\ FlattenSeq(chunks) = row.text
      /\ \A n \in DOMAIN chunks : Len(chunks[n]) \in 1 .. row.size
      /\ \A n \in 1 .. Len(chunks) - 1 : Len(chunks[n]) = row.size
  BY <1>1, ChunksOfText
<1>3. /\ row.chunks \in Seq(Chunk) /\ Len(row.chunks) = Len(chunks)
      /\ \A n \in 1 .. Len(row.chunks) : row.chunks[n].text = chunks[n]
  BY DEF Row
<1> HIDE DEF chunks
<1>4. DOMAIN chunks = 1 .. Len(chunks) /\ chunks = [n \in 1 .. Len(chunks) |-> chunks[n]]
  BY <1>2
<1>5. DOMAIN row.chunks = 1 .. Len(chunks)
  BY <1>3
<1>6. texts = chunks
  BY <1>3, <1>4, <1>5
<1>7. Len(chunks) \in Nat
  BY <1>2
<1>8. /\ \A n \in DOMAIN row.chunks : Len(row.chunks[n].text) \in 1 .. row.size
      /\ \A n \in 1 .. Len(row.chunks) - 1 : Len(row.chunks[n].text) = row.size
  BY <1>2, <1>3, <1>4, <1>5, <1>7
<1> QED BY <1>2, <1>6, <1>8 DEF Splits

\* Rows are functions from paths to rows.
LEMMA RowsBuilt ==
  ASSUME NEW fs \in SUBSET Files, NEW g \in [fs -> Row]
  PROVE  g \in Rows
BY DEF Rows

\* What the rows of any table look like.
LEMMA RowsAre ==
  ASSUME NEW rows \in Rows
  PROVE  /\ DOMAIN rows \in SUBSET Files
         /\ rows \in [DOMAIN rows -> Row]
         /\ \A f \in DOMAIN rows : /\ rows[f].chunks \in Seq(Chunk)
                                   /\ DOMAIN rows[f].chunks = 1 .. Len(rows[f].chunks)
                                   /\ rows[f].text \in Texts
<1>1. PICK fs \in SUBSET Files : rows \in [fs -> Row]
  BY DEF Rows
<1>2. DOMAIN rows = fs
  BY <1>1
<1>3. ASSUME NEW f \in fs
      PROVE  /\ rows[f].chunks \in Seq(Chunk) /\ rows[f].text \in Texts
             /\ DOMAIN rows[f].chunks = 1 .. Len(rows[f].chunks)
  BY <1>1, <1>3 DEF Row
<1> QED BY <1>1, <1>2, <1>3

\* The chunks of the rows are chunks.
LEMMA ChunksAre ==
  ASSUME NEW rows \in Rows
  PROVE  /\ \A f \in DOMAIN rows : \A n \in DOMAIN rows[f].chunks :
              rows[f].chunks[n] \in Chunk /\ rows[f].chunks[n] \in Chunks(rows)
         /\ \A c \in Chunks(rows) :
              /\ c \in Chunk
              /\ \E f \in DOMAIN rows : \E n \in DOMAIN rows[f].chunks : c = rows[f].chunks[n]
<1>1. \A f \in DOMAIN rows : /\ rows[f].chunks \in Seq(Chunk)
                             /\ DOMAIN rows[f].chunks = 1 .. Len(rows[f].chunks)
  BY RowsAre
<1>2. \A f \in DOMAIN rows : \A n \in DOMAIN rows[f].chunks : rows[f].chunks[n] \in Chunk
  BY <1>1
<1>3. \A f \in DOMAIN rows : \A n \in DOMAIN rows[f].chunks :
        rows[f].chunks[n] \in Chunks(rows)
  BY DEF Chunks, Range
<1>4. \A c \in Chunks(rows) :
        \E f \in DOMAIN rows : \E n \in DOMAIN rows[f].chunks : c = rows[f].chunks[n]
  BY DEF Chunks, Range
<1> QED BY <1>2, <1>3, <1>4

\* What sync_repository_fts inserts has its type, and mirrors the chunks.
LEMMA FtsAre ==
  ASSUME NEW rows \in Rows
  PROVE  /\ FtsRows(rows) \in Fts
         /\ \A x : x \in FtsRows(rows) <=>
              \E f \in DOMAIN rows : \E n \in DOMAIN rows[f].chunks :
                x = <<f, n, rows[f].chunks[n].text>>
<1>1. \A x : x \in FtsRows(rows) <=>
        \E f \in DOMAIN rows : \E n \in DOMAIN rows[f].chunks :
          x = <<f, n, rows[f].chunks[n].text>>
  BY DEF FtsRows
<1>2. ASSUME NEW f \in DOMAIN rows, NEW n \in DOMAIN rows[f].chunks
      PROVE  <<f, n, rows[f].chunks[n].text>> \in Files \X Nat \X Seq(Lines)
  <2>1. f \in Files /\ n \in Nat
    BY RowsAre
  <2>2. rows[f].chunks[n] \in Chunk
    BY ChunksAre
  <2>3. rows[f].chunks[n].text \in Seq(Lines)
    BY <2>2 DEF Chunk
  <2> QED BY <2>1, <2>3
<1>3. FtsRows(rows) \subseteq Files \X Nat \X Seq(Lines)
  BY <1>1, <1>2
<1> QED BY <1>1, <1>3 DEF Fts

\* Some of the rows are rows.
LEMMA RowsKept ==
  ASSUME NEW rows \in Rows, NEW fs \in SUBSET DOMAIN rows
  PROVE  /\ Restrict(rows, fs) \in Rows /\ DOMAIN Restrict(rows, fs) = fs
         /\ \A f \in fs : Restrict(rows, fs)[f] = rows[f]
<1>1. Restrict(rows, fs) \in [fs -> Row]
  BY RowsAre DEF Restrict
<1>2. fs \in SUBSET Files
  BY RowsAre
<1>3. Restrict(rows, fs) \in Rows
  BY <1>1, <1>2, RowsBuilt
<1> QED BY <1>3 DEF Restrict

\* The rows with a vector on every chunk: nothing else has changed.
LEMMA VectorsGiven ==
  ASSUME NEW rows \in Rows, NEW key \in {x.key : x \in Settings}
  PROVE  LET new == WithVectors(rows, key) IN
         /\ new \in Rows /\ DOMAIN new = DOMAIN rows
         /\ \A f \in DOMAIN rows : new[f].text = rows[f].text /\ new[f].size = rows[f].size
         /\ \A c \in Chunks(new) : Usable(c, key)
         /\ FtsRows(new) = FtsRows(rows)
<1> DEFINE new == WithVectors(rows, key)
           cs(f) == [n \in DOMAIN rows[f].chunks |-> Embedded(rows[f].chunks[n], key)]
<1>1. new = [f \in DOMAIN rows |-> [rows[f] EXCEPT !.chunks = cs(f)]]
  BY Zenon DEF WithVectors
<1> HIDE DEF new
<1>2. ASSUME NEW f \in DOMAIN rows
      PROVE  /\ new[f] \in Row /\ new[f].text = rows[f].text /\ new[f].size = rows[f].size
             /\ DOMAIN new[f].chunks = DOMAIN rows[f].chunks
             /\ \A n \in DOMAIN rows[f].chunks :
                  new[f].chunks[n] = Embedded(rows[f].chunks[n], key)
  <2> DEFINE r == rows[f]
             q == new[f]
             c == cs(f)
  <2>1. q = [r EXCEPT !.chunks = c]
    BY <1>1
  <2>2. r \in Row /\ r.chunks \in Seq(Chunk) /\ DOMAIN r.chunks = 1 .. Len(r.chunks)
        /\ Len(r.chunks) \in Nat
    BY RowsAre
  <2>3. \A n \in DOMAIN r.chunks :
          Embedded(r.chunks[n], key) \in Chunk
          /\ Embedded(r.chunks[n], key).text = r.chunks[n].text
    <3>1. \A n \in DOMAIN r.chunks : r.chunks[n] \in Chunk
      BY ChunksAre
    <3> QED BY <3>1, VectorGiven
  <2>4. /\ DOMAIN c = DOMAIN r.chunks
        /\ \A n \in DOMAIN r.chunks : c[n] = Embedded(r.chunks[n], key)
    OBVIOUS
  <2>5. c \in [1 .. Len(r.chunks) -> Chunk]
    <3>1. c = [n \in 1 .. Len(r.chunks) |-> Embedded(r.chunks[n], key)]
      BY <2>2
    <3> HIDE DEF c
    <3> QED BY <2>2, <2>3, <3>1
  <2> HIDE DEF c, r, q
  <2>6. c \in Seq(Chunk) /\ Len(c) = Len(r.chunks)
    BY <2>2, <2>5
  <2>7. r = [text |-> r.text, size |-> r.size, chunks |-> r.chunks]
    BY <2>2 DEF Row
  <2>8. q = [text |-> r.text, size |-> r.size, chunks |-> c]
    BY <2>1, <2>7
  <2>9. q.text = r.text /\ q.size = r.size /\ q.chunks = c
    BY <2>8
  <2>10. q \in Row
    <3>1. /\ r.text \in Texts /\ r.size \in {x.size : x \in Settings}
          /\ Len(r.chunks) = Len(ChunkText(r.text, r.size))
          /\ \A n \in 1 .. Len(r.chunks) : r.chunks[n].text = ChunkText(r.text, r.size)[n]
      BY <2>2 DEF Row
    <3>2. q \in [text : Texts, size : {x.size : x \in Settings}, chunks : Seq(Chunk)]
      BY <2>6, <2>8, <3>1
    <3>3. Len(q.chunks) = Len(ChunkText(q.text, q.size))
      BY <2>6, <2>9, <3>1
    <3>4. \A n \in 1 .. Len(q.chunks) : q.chunks[n].text = ChunkText(q.text, q.size)[n]
      BY <2>2, <2>3, <2>4, <2>6, <2>9, <3>1
    <3> QED BY <3>2, <3>3, <3>4 DEF Row
  <2> QED BY <2>4, <2>9, <2>10 DEF r, q
<1>3. DOMAIN new = DOMAIN rows
  BY <1>1
<1>4. new \in Rows
  <2>1. new = [f \in DOMAIN rows |-> new[f]]
    BY <1>1
  <2>2. new \in [DOMAIN rows -> Row]
    BY <1>2, <2>1
  <2>3. DOMAIN rows \in SUBSET Files
    BY RowsAre
  <2> QED BY <2>2, <2>3, RowsBuilt
<1>5. ASSUME NEW c \in Chunks(new) PROVE Usable(c, key)
  <2>1. PICK f \in DOMAIN new : \E n \in DOMAIN new[f].chunks : c = new[f].chunks[n]
    BY <1>4, ChunksAre
  <2>2. PICK n \in DOMAIN new[f].chunks : c = new[f].chunks[n]
    BY <2>1
  <2>3. c = Embedded(rows[f].chunks[n], key) /\ rows[f].chunks[n] \in Chunk
    BY <1>2, <1>3, <2>2, ChunksAre
  <2> QED BY <2>3, VectorGiven
<1>6. FtsRows(new) = FtsRows(rows)
  <2>1. ASSUME NEW f \in DOMAIN rows, NEW n \in DOMAIN rows[f].chunks
        PROVE  new[f].chunks[n].text = rows[f].chunks[n].text
    <3>1. rows[f].chunks[n] \in Chunk
      BY ChunksAre
    <3> QED BY <1>2, <3>1, VectorGiven
  <2>2. ASSUME NEW x PROVE x \in FtsRows(new) <=> x \in FtsRows(rows)
    <3>1. x \in FtsRows(new) <=> \E f \in DOMAIN rows : \E n \in DOMAIN rows[f].chunks :
                                   x = <<f, n, new[f].chunks[n].text>>
      BY <1>2, <1>3, <1>4, FtsAre
    <3>2. x \in FtsRows(rows) <=> \E f \in DOMAIN rows : \E n \in DOMAIN rows[f].chunks :
                                    x = <<f, n, rows[f].chunks[n].text>>
      BY FtsAre
    <3> QED BY <2>1, <3>1, <3>2
  <2> QED BY <2>2
<1> QED BY <1>2, <1>3, <1>4, <1>5, <1>6 DEF new

\* The rows with another vector on chunk n of f.
Replaced(rows, f, n, vector) ==
  [rows EXCEPT ![f] =
     [text |-> rows[f].text, size |-> rows[f].size, chunks |->
        [rows[f].chunks EXCEPT ![n] =
           [text |-> rows[f].chunks[n].text, embedding |-> {vector}]]]]

\* A vector that is damaged: no text becomes reusable, and no chunk loses a
\* vector of a model it had one of.
LEMMA VectorDamaged ==
  ASSUME NEW rows \in Rows, NEW f \in DOMAIN rows, NEW n \in DOMAIN rows[f].chunks,
         NEW e \in rows[f].chunks[n].embedding, NEW key,
         NEW bad \in Embedding, bad.key = e.key, ~bad.valid
  PROVE  LET new == Replaced(rows, f, n, bad) IN
         /\ new \in Rows
         /\ Reusable(new, key) \subseteq Reusable(rows, key)
         /\ (\A c \in Chunks(rows) : \E v \in c.embedding : v.key = key)
              => \A c \in Chunks(new) : \E v \in c.embedding : v.key = key
<1> DEFINE chunk == rows[f].chunks[n]
           row == rows[f]
           chunk2 == [text |-> chunk.text, embedding |-> {bad}]
           chunks2 == [row.chunks EXCEPT ![n] = chunk2]
           row2 == [text |-> row.text, size |-> row.size, chunks |-> chunks2]
           new == Replaced(rows, f, n, bad)
<1>1. new = [rows EXCEPT ![f] = row2]
  BY Zenon DEF Replaced
<1> HIDE DEF new
<1>2. chunk \in Chunk /\ chunk \in Chunks(rows)
  BY ChunksAre
<1>3. chunk2 \in Chunk /\ chunk2.text = chunk.text /\ chunk2.embedding = {bad}
  <2>1. chunk.text \in Seq(Lines) \ {<<>>}
    BY <1>2 DEF Chunk
  <2> QED BY <2>1 DEF Chunk
<1> HIDE DEF chunk2
<1>4. row \in Row /\ row.chunks \in Seq(Chunk) /\ DOMAIN row.chunks = 1 .. Len(row.chunks)
      /\ Len(row.chunks) \in Nat
  BY RowsAre
<1>5. /\ chunks2 \in Seq(Chunk) /\ Len(chunks2) = Len(row.chunks)
      /\ \A m \in 1 .. Len(row.chunks) : chunks2[m] = IF m = n THEN chunk2 ELSE row.chunks[m]
  BY <1>3, <1>4, ExceptSeq
<1> HIDE DEF chunks2
<1>6. row2 \in Row /\ row2.chunks = chunks2
  <2>2. row2 = [text |-> row.text, size |-> row.size, chunks |-> chunks2]
    OBVIOUS
  <2>3. /\ row.text \in Texts /\ row.size \in {x.size : x \in Settings}
        /\ Len(row.chunks) = Len(ChunkText(row.text, row.size))
        /\ \A m \in 1 .. Len(row.chunks) :
             row.chunks[m].text = ChunkText(row.text, row.size)[m]
    BY <1>4 DEF Row
  <2>4. chunk = row.chunks[n]
    BY DEF row
  <2> HIDE DEF chunk, row
  <2>5. row2.text = row.text /\ row2.size = row.size /\ row2.chunks = chunks2
    BY <2>2
  <2>6. row2 \in [text : Texts, size : {x.size : x \in Settings}, chunks : Seq(Chunk)]
    BY <1>5, <2>2, <2>3
  <2>7. \A m \in 1 .. Len(row2.chunks) :
          row2.chunks[m].text = ChunkText(row2.text, row2.size)[m]
    BY <1>3, <1>5, <2>3, <2>4, <2>5
  <2> QED BY <1>5, <2>3, <2>5, <2>6, <2>7 DEF Row
<1> HIDE DEF row2
<1>7. /\ DOMAIN new = DOMAIN rows /\ new[f] = row2
       /\ \A g \in DOMAIN rows : g # f => new[g] = rows[g]
  BY <1>1
<1>8. new \in Rows
  <2>1. rows \in [DOMAIN rows -> Row] /\ DOMAIN rows \in SUBSET Files
    BY RowsAre
  <2>2. new \in [DOMAIN rows -> Row]
    BY <1>1, <1>6, <2>1
  <2> QED BY <2>1, <2>2, RowsBuilt
<1>9. ASSUME NEW c \in Chunks(new) PROVE c = chunk2 \/ c \in Chunks(rows)
  <2>1. PICK g \in DOMAIN new : \E m \in DOMAIN new[g].chunks : c = new[g].chunks[m]
    BY <1>8, ChunksAre
  <2>2. PICK m \in DOMAIN new[g].chunks : c = new[g].chunks[m]
    BY <2>1
  <2>3. CASE g = f
    <3>1. new[g].chunks = chunks2
      BY <1>6, <1>7, <2>3
    <3>2. DOMAIN chunks2 = 1 .. Len(row.chunks)
      BY <1>5
    <3>3. m \in 1 .. Len(row.chunks) /\ m \in DOMAIN row.chunks /\ c = chunks2[m]
      BY <1>4, <2>2, <3>1, <3>2
    <3>4. row.chunks[m] \in Chunks(rows)
      BY <3>3, ChunksAre
    <3> QED BY <1>5, <3>3, <3>4
  <2>4. CASE g # f
    <3>1. new[g] = rows[g] /\ g \in DOMAIN rows
      BY <1>7, <2>4
    <3>2. c \in Chunks(rows)
      BY <2>2, <3>1, ChunksAre
    <3> QED BY <3>2
  <2> QED BY <2>3, <2>4
<1>10. ASSUME NEW t \in Reusable(new, key) PROVE t \in Reusable(rows, key)
  <2>1. PICK c \in Chunks(new) : Usable(c, key) /\ c.text = t
    BY DEF Reusable
  <2>2. c # chunk2
    <3>1. ~Usable(chunk2, key)
      BY <1>3, Zenon DEF Usable
    <3> QED BY <2>1, <3>1
  <2>3. c \in Chunks(rows)
    BY <1>9, <2>2
  <2> QED BY <2>1, <2>3 DEF Reusable
<1>11. ASSUME \A c \in Chunks(rows) : \E v \in c.embedding : v.key = key,
              NEW c \in Chunks(new)
       PROVE  \E v \in c.embedding : v.key = key
  <2>1. CASE c = chunk2
    <3>1. PICK v \in chunk.embedding : v.key = key
      BY <1>2, <1>11
    <3>2. chunk.embedding = {e}
      BY <1>2 DEF Chunk
    <3>3. e.key = key
      BY <3>1, <3>2
    <3> QED BY <1>3, <2>1, <3>3
  <2>2. CASE c \in Chunks(rows)
    BY <1>11, <2>2
  <2> QED BY <1>9, <2>1, <2>2
<1> QED BY <1>8, <1>10, <1>11, Zenon DEF new

--------------------------------------------------------------------------------
(* What a step changes *)

\* No rows at all are rows.
LEMMA NoRows == <<>> \in Rows
<1>1. <<>> \in [{} -> Row]
  OBVIOUS
<1> QED BY <1>1, RowsBuilt

\* A request that ends, whatever it did, is a handler that does nothing.
LEMMA EndedIsSound ==
  ASSUME NEW outcome \in {"none", "stored"}
  PROVE  /\ Ended(outcome) \in Handler /\ Ended(outcome).todo \subseteq Ended(outcome).listed
         /\ Ended(outcome).pc = "idle" /\ Ended(outcome).outcome = outcome
         /\ Sound(Ended(outcome)) /\ ~Busy(Ended(outcome))
<1>2. Ended(outcome) \in Handler
  BY NoRows DEF Ended, Handler, Fts
<1>3. Ended(outcome).pc = "idle" /\ Ended(outcome).outcome = outcome
      /\ Ended(outcome).todo \subseteq Ended(outcome).listed
  BY DEF Ended
<1> QED BY <1>2, <1>3 DEF Sound, Reads, Prepared, Knows, Busy

\* One handler goes on, and the database stays as it is.
LEMMA OneHandler ==
  ASSUME Inv, NEW i \in Indexers, NEW h \in Handler, h.todo \subseteq h.listed, Sound(h),
         index' = [index EXCEPT ![i] = h],
         tree' = tree, settings' = settings, db' = db, search' = search,
         settings.embeddings /\ Busy(h) => Busy(index[i]) \/ LockFree
  PROVE  Inv'
<1>1. /\ \A j \in Indexers : j # i => index'[j] = index[j]
      /\ index'[i] = h /\ index' \in [Indexers -> Handler]
  BY DEF Inv, Types
<1>2. Types'
  BY <1>1 DEF Inv, Types
<1>3. \A g \in Handler : Sound(g) => Sound(g)'
  BY DEF Sound, Reads, Prepared, Knows, Busy, Listed, Fits, UpToDate
<1>4. AllSound'
  <2>1. ASSUME NEW j \in Indexers, NEW g \in Handler, g = index'[j], Sound(g)
        PROVE  Sound(index[j])'
    BY <1>3, <2>1
  <2>2. ASSUME NEW j \in Indexers PROVE Sound(index[j])'
    <3>1. CASE j = i
      BY <1>1, <2>1, <3>1
    <3>2. CASE j # i
      BY <1>1, <2>1, <3>2 DEF Inv, Types, AllSound
    <3> QED BY <3>1, <3>2
  <2> QED BY <2>2 DEF AllSound
<1>5. Alone'
  <2> SUFFICES ASSUME settings.embeddings, NEW j \in Indexers, NEW k \in Indexers,
                      Busy(index'[j]), Busy(index'[k])
               PROVE  j = k
    BY DEF Alone, Busy
  <2>1. CASE Busy(h) /\ LockFree
    <3>1. \A g \in Indexers : ~Busy(index[g])
      BY <2>1 DEF LockFree, Busy
    <3> QED BY <1>1, <3>1
  <2>2. CASE ~Busy(h) \/ Busy(index[i])
    <3>1. Busy(index[j]) /\ Busy(index[k])
      BY <1>1, <2>2
    <3> QED BY <3>1 DEF Inv, Alone
  <2> QED BY <2>1, <2>2
<1>6. Searched'
  BY DEF Inv, Searched, Counted
<1> QED BY <1>2, <1>4, <1>5, <1>6 DEF Inv

\* What a request that stores its work in this step leaves.
StoresWell(i) ==
  Stores(i) =>
    /\ ~index[i].edited =>
         /\ \A f \in Files :
              /\ tree[f].kind = "text" => /\ f \in DOMAIN db'.files
                                          /\ Splits(db'.files[f], tree[f].text, settings.size)
              /\ tree[f].kind = "absent" => f \notin DOMAIN db'.files
         /\ db'.fts = FtsRows(db'.files)
    /\ settings.embeddings => \A c \in Chunks(db'.files) : Usable(c, settings.key)

\* Nobody stores work, and no search answers: what most steps do.
NoneStores == \A i \in Indexers : index'[i].outcome \in {"none", index[i].outcome}
NoneAnswers == \A s \in Searches : search'[s] = search[s] \/ search'[s].answer # "results"

\* Rows with which the listed files are up to date, and no others: a complete index.
Complete(rows) == DOMAIN rows \subseteq Listed /\ \A f \in Listed : Fits(rows, f)

\* A complete index is the tree, cut up.
LEMMA CompleteMirrors ==
  ASSUME Types, NEW rows \in Rows, Complete(rows), NEW f \in Files
  PROVE  /\ tree[f].kind = "text" => /\ f \in DOMAIN rows
                                     /\ Splits(rows[f], tree[f].text, settings.size)
         /\ tree[f].kind = "absent" => f \notin DOMAIN rows
<1>1. ASSUME tree[f].kind = "text"
      PROVE  f \in DOMAIN rows /\ Splits(rows[f], tree[f].text, settings.size)
  <2>1. f \in Listed
    BY <1>1 DEF Listed
  <2>2. f \in DOMAIN rows /\ rows[f].text = tree[f].text /\ rows[f].size = settings.size
    BY <1>1, <2>1 DEF Complete, Fits, UpToDate
  <2>3. rows[f] \in Row
    BY <2>2, RowsAre
  <2>4. Splits(rows[f], rows[f].text, rows[f].size)
    BY <2>3, RowSplits
  <2> QED BY <2>2, <2>4
<1>2. tree[f].kind = "absent" => f \notin DOMAIN rows
  BY DEF Complete, Listed
<1> QED BY <1>1, <1>2

\* The commit of a complete index, or its rollback.
LEMMA Committed ==
  ASSUME Inv, NEW i \in Indexers, NEW rows \in Rows, Busy(index[i]),
         Commit(i, rows, FtsRows(rows)), ~index[i].edited => Complete(rows),
         settings.embeddings => \A c \in Chunks(rows) : Usable(c, settings.key)
  PROVE  Inv' /\ NoneAnswers /\ \A j \in Indexers : StoresWell(j)
<1>1. tree' = tree /\ settings' = settings /\ search' = search
  BY DEF Commit
<1>2. NoneAnswers
  BY <1>1 DEF NoneAnswers
<1>3. CASE db' = [files |-> rows, fts |-> FtsRows(rows)]
           /\ index' = [index EXCEPT ![i] = Ended("stored")]
  <2>1. /\ \A j \in Indexers : j # i => index'[j] = index[j]
        /\ index'[i] = Ended("stored") /\ Ended("stored") \in Handler
        /\ index' \in [Indexers -> Handler]
        /\ Sound(Ended("stored")) /\ ~Busy(Ended("stored"))
        /\ Ended("stored").todo \subseteq Ended("stored").listed
    BY <1>3, EndedIsSound DEF Inv, Types
  <2>2. db'.files = rows /\ db'.fts = FtsRows(rows) /\ db' \in [files : Rows, fts : Fts]
    BY <1>3, FtsAre
  <2>3. Types'
    BY <1>1, <2>1, <2>2 DEF Inv, Types
  <2>4. AllSound'
    <3>1. ASSUME NEW j \in Indexers, j # i PROVE Sound(index[j])'
      <4> DEFINE h == index[j]
      <4>1. index'[j] = h /\ h \in Handler /\ Sound(h)
        BY <2>1, <3>1 DEF Inv, Types, AllSound
      <4>2. (settings.embeddings => ~Busy(h)) /\ (h.pc = "embedding" => settings.embeddings)
        BY <3>1, <4>1 DEF Inv, Alone, Sound, Prepared
      <4>3. ASSUME NEW g \in Handler, g = index'[j], Sound(g),
                   settings.embeddings => ~Busy(g), g.pc = "embedding" => settings.embeddings
            PROVE  Sound(index[j])'
        <5>1. Reads(g)'
          BY <1>1, <4>3 DEF Sound, Reads, Busy, Listed, Fits, UpToDate
        <5>2. Prepared(g)'
          BY <1>1, <4>3 DEF Sound, Prepared
        <5>3. Knows(g)'
          BY <1>1, <4>3 DEF Sound, Knows, Busy
        <5> QED BY <4>3, <5>1, <5>2, <5>3 DEF Sound
      <4> HIDE DEF h
      <4> QED BY <4>1, <4>2, <4>3
    <3>2. Sound(index[i])'
      BY <2>1, EndedIsSound DEF Sound, Reads, Prepared, Knows, Busy, Ended
    <3> QED BY <3>1, <3>2 DEF AllSound
  <2>5. Alone'
    <3>1. ASSUME settings.embeddings, NEW j \in Indexers PROVE ~Busy(index'[j])
      BY <2>1, <3>1 DEF Inv, Alone
    <3> QED BY <1>1, <3>1 DEF Alone, Busy
  <2>6. Searched'
    <3> SUFFICES ASSUME NEW s \in Searches, search[s].pc = "embedding",
                        NEW c \in Chunks(rows)
                 PROVE  settings.embeddings /\ \E e \in c.embedding : e.key = settings.key
      BY <1>1, <2>2 DEF Searched, Counted, Inv
    <3> QED BY DEF Inv, Searched, Usable
  <2>7. ASSUME NEW j \in Indexers PROVE StoresWell(j)
    <3>1. CASE j = i
      <4>1. ASSUME ~index[i].edited, NEW f \in Files
            PROVE  /\ tree[f].kind = "text" =>
                        /\ f \in DOMAIN db'.files
                        /\ Splits(db'.files[f], tree[f].text, settings.size)
                   /\ tree[f].kind = "absent" => f \notin DOMAIN db'.files
        BY <2>2, <4>1, CompleteMirrors DEF Inv
      <4> QED BY <2>2, <3>1, <4>1 DEF StoresWell
    <3>2. CASE j # i
      BY <2>1, <3>2 DEF StoresWell, Stores
    <3> QED BY <3>1, <3>2
  <2> QED BY <1>2, <2>3, <2>4, <2>5, <2>6, <2>7 DEF Inv
<1>4. CASE db' = db /\ index' = [index EXCEPT ![i] = Ended("none")]
  <2>1. Inv'
    BY <1>1, <1>4, EndedIsSound, OneHandler
  <2>2. ASSUME NEW j \in Indexers PROVE ~Stores(j)
    BY <1>4, EndedIsSound DEF Stores, Inv, Types
  <2> QED BY <1>2, <2>1, <2>2 DEF StoresWell
<1> QED BY <1>3, <1>4 DEF Commit

--------------------------------------------------------------------------------
(* One lemma for each action *)

\* What a search that answers has found.
AnswersWell ==
  \A s \in Searches :
    search'[s] # search[s] /\ search'[s].answer = "results" =>
      search'[s].found = FtsRows(db.files)

Safe == Inv' /\ AnswersWell /\ \A i \in Indexers : StoresWell(i)

\* A step that stores nothing and answers nothing keeps the promises of both.
LEMMA NothingDone ==
  ASSUME Inv', NoneStores, NoneAnswers
  PROVE  Safe
BY DEF Safe, NoneStores, NoneAnswers, AnswersWell, StoresWell, Stores

\* One handler goes on without storing anything.
LEMMA HandlerGoesOn ==
  ASSUME Inv, NEW i \in Indexers, NEW h \in Handler, h.todo \subseteq h.listed, Sound(h),
         h.outcome \in {"none", index[i].outcome},
         index' = [index EXCEPT ![i] = h],
         tree' = tree, settings' = settings, db' = db, search' = search,
         settings.embeddings /\ Busy(h) => Busy(index[i]) \/ LockFree
  PROVE  Safe
<1>1. Inv'
  BY OneHandler
<1>2. NoneStores
  BY DEF NoneStores, Inv, Types
<1>3. NoneAnswers
  BY DEF NoneAnswers
<1> QED BY <1>1, <1>2, <1>3, NothingDone

\* A request to index waits for its turn.
LEMMA RequestStep == ASSUME Inv, NEW i \in Indexers, Request(i) PROVE Safe
<1> DEFINE h == [Ended("none") EXCEPT !.pc = "waiting"]
<1>1. h \in Handler /\ h.pc = "waiting" /\ h.outcome = "none" /\ h.todo \subseteq h.listed
  BY NoRows DEF Ended, Handler, Fts
<1>2. /\ index' = [index EXCEPT ![i] = h]
      /\ tree' = tree /\ settings' = settings /\ db' = db /\ search' = search
  BY DEF Request
<1> HIDE DEF h
<1>3. Sound(h) /\ ~Busy(h)
  BY <1>1 DEF Sound, Reads, Prepared, Knows, Busy
<1> QED BY <1>1, <1>2, <1>3, HandlerGoesOn

\* The texts of chunks are sequences of lines.
LEMMA TextsOfChunks ==
  ASSUME NEW rows \in Rows, NEW key
  PROVE  /\ {c.text : c \in Chunks(rows)} \subseteq Seq(Lines)
         /\ Reusable(rows, key) \subseteq {c.text : c \in Chunks(rows)}
<1>1. \A c \in Chunks(rows) : c.text \in Seq(Lines)
  BY ChunksAre DEF Chunk
<1> QED BY <1>1 DEF Reusable

\* A run begins with nothing read yet.
LEMMA BeginStep == ASSUME Inv, NEW i \in Indexers, Begin(i) PROVE Safe
<1> DEFINE listed == {f \in Files : tree[f].kind # "absent"}
           cache == IF settings.embeddings THEN Reusable(db.files, settings.key) ELSE {}
           h == Started
<1>1. db.files \in Rows
  BY DEF Inv, Types
<1>2. cache \in SUBSET Seq(Lines) /\ listed \in SUBSET Files
  <2>1. Reusable(db.files, settings.key) \subseteq Seq(Lines)
    BY <1>1, TextsOfChunks
  <2> QED BY <2>1
<1>3. h = [pc |-> "reading", outcome |-> "none", listed |-> listed, todo |-> listed,
           rows |-> db.files, fts |-> {}, cache |-> cache, missing |-> {}, edited |-> FALSE]
  <2>1. h = [Ended("none") EXCEPT !.pc = "reading", !.listed = listed, !.todo = listed,
               !.rows = db.files, !.cache = cache]
    BY Zenon DEF Started
  <2> HIDE DEF cache, listed, h
  <2> QED BY <2>1 DEF Ended
<1> HIDE DEF cache, listed, h
<1>4. h \in Handler
  BY <1>1, <1>2, <1>3 DEF Handler, Fts
<1>5. h.pc = "reading" /\ h.outcome = "none" /\ h.todo = listed /\ h.listed = listed
      /\ h.cache = cache
  BY <1>3
<1>6. Sound(h)
  BY <1>5 DEF Sound, Reads, Prepared, Knows, Busy, Listed, cache, listed
<1>7. /\ index' = [index EXCEPT ![i] = h]
      /\ tree' = tree /\ settings' = settings /\ db' = db /\ search' = search
      /\ settings.embeddings => LockFree
  BY DEF Begin, h
<1> QED BY <1>4, <1>5, <1>6, <1>7, HandlerGoesOn

\* A failed run is rolled back.
LEMMA AbortStep == ASSUME Inv, NEW i \in Indexers, Abort(i) PROVE Safe
<1> DEFINE h == Ended("none")
<1>1. /\ h \in Handler /\ h.todo \subseteq h.listed /\ Sound(h) /\ ~Busy(h)
      /\ h.outcome = "none"
  BY EndedIsSound
<1>2. /\ index' = [index EXCEPT ![i] = h]
      /\ tree' = tree /\ settings' = settings /\ db' = db /\ search' = search
  BY DEF Abort
<1> HIDE DEF h
<1> QED BY <1>1, <1>2, HandlerGoesOn

\* The next file: its row is up to date, or it cannot be read.
LEMMA ReadStep == ASSUME Inv, NEW i \in Indexers, ReadFile(i) PROVE Safe
<1> DEFINE g == index[i]
           f == Min(g.todo)
           entry == tree[f]
           new == IF entry.kind # "text" THEN g.rows
                  ELSE IF UpToDate(g.rows, f, entry.text) THEN g.rows
                  ELSE [x \in DOMAIN g.rows \cup {f} |->
                          IF x = f THEN FileRow(entry.text, settings.size) ELSE g.rows[x]]
           todo == g.todo \ {f}
           h == [g EXCEPT !.todo = todo, !.rows = new]
<1>1. g \in Handler /\ g.pc = "reading" /\ g.todo # {} /\ g.todo \subseteq g.listed
  BY DEF ReadFile, Inv, Types
<1>2. g.todo \in SUBSET Files /\ g.rows \in Rows
  BY <1>1 DEF Handler
<1>3. f \in g.todo /\ f \in Files
  <2> DEFINE T == g.todo
  <2>1. T \subseteq Nat /\ T # {}
    BY <1>1, <1>2, IndexAssumption
  <2> HIDE DEF T
  <2>2. \E n \in T : \A m \in T : n <= m
    BY <2>1, NatMin
  <2>3. Min(T) \in T
    BY <2>2, Zenon DEF Min
  <2> QED BY <1>2, <2>3 DEF T
<1>4. /\ index' = [index EXCEPT ![i] = h]
      /\ tree' = tree /\ settings' = settings /\ db' = db /\ search' = search
  BY Zenon DEF ReadFile
<1>5. entry \in Entry /\ settings \in Settings
  BY <1>3 DEF Inv, Types
<1> HIDE DEF f, g
<1>6. new \in Rows /\ (entry.kind = "text" => UpToDate(new, f, entry.text))
      /\ \A x \in DOMAIN g.rows : x # f => x \in DOMAIN new /\ new[x] = g.rows[x]
  <2>1. CASE entry.kind # "text"
    BY <1>2, <2>1
  <2>2. CASE entry.kind = "text" /\ UpToDate(g.rows, f, entry.text)
    BY <1>2, <2>2
  <2>3. CASE entry.kind = "text" /\ ~UpToDate(g.rows, f, entry.text)
    <3> DEFINE row == FileRow(entry.text, settings.size)
               fs == DOMAIN g.rows \cup {f}
    <3>1. entry.text \in Texts
      BY <1>5, <2>3 DEF Entry
    <3>2. row \in Row /\ row.text = entry.text /\ row.size = settings.size
      BY <1>5, <3>1, RowMade
    <3>3. new = [x \in fs |-> IF x = f THEN row ELSE g.rows[x]]
      BY <2>3
    <3> HIDE DEF new, row, entry
    <3>4. fs \in SUBSET Files /\ g.rows \in [DOMAIN g.rows -> Row]
      BY <1>2, <1>3, RowsAre
    <3>5. new \in [fs -> Row]
      BY <3>2, <3>3, <3>4
    <3>6. new \in Rows
      BY <3>4, <3>5, RowsBuilt
    <3>7. UpToDate(new, f, entry.text)
      BY <3>2, <3>3 DEF UpToDate
    <3> QED BY <3>3, <3>6, <3>7
  <2> QED BY <2>1, <2>2, <2>3
<1> HIDE DEF new
<1>7. todo \in SUBSET Files
  BY <1>2
<1> HIDE DEF todo
<1>8. /\ h \in Handler /\ h.pc = "reading" /\ h.outcome = g.outcome /\ h.listed = g.listed
      /\ h.todo = todo /\ h.rows = new /\ h.cache = g.cache
  <2>1. g = [pc |-> g.pc, outcome |-> g.outcome, listed |-> g.listed, todo |-> g.todo,
             rows |-> g.rows, fts |-> g.fts, cache |-> g.cache, missing |-> g.missing,
             edited |-> g.edited]
    BY <1>1, Zenon DEF Handler
  <2>2. h \in Handler
    BY <1>1, <1>6, <1>7, Zenon DEF Handler
  <2>3. h.pc = g.pc /\ h.outcome = g.outcome /\ h.listed = g.listed
    BY <1>1, Zenon DEF Handler
  <2>4. h.todo = todo
    BY <1>1, Zenon DEF Handler
  <2>5. h.rows = new
    BY <1>1, Zenon DEF Handler
  <2>6. h.cache = g.cache
    BY <1>1, Zenon DEF Handler
  <2> QED BY <1>1, <2>2, <2>3, <2>4, <2>5, <2>6
<1>9. h.edited <=> g.edited
  BY <1>1, Zenon DEF Handler
<1> HIDE DEF h
<1>10. Sound(g)
  BY DEF Inv, AllSound, g
<1>11. Reads(h)
  <2> SUFFICES ASSUME ~h.edited, NEW x \in Listed \ h.todo
               PROVE  h.listed = Listed /\ Fits(new, x)
    <3>1. g.listed = Listed \/ h.edited
      BY <1>1, <1>9, <1>10 DEF Sound, Reads, Busy
    <3> QED BY <1>8, <3>1 DEF Reads, Busy
  <2>1. g.listed = Listed /\ \A y \in Listed \ g.todo : Fits(g.rows, y)
    BY <1>1, <1>9, <1>10 DEF Sound, Reads, Busy
  <2>2. CASE x = f
    BY <1>6, <1>8, <2>1, <2>2 DEF Fits, entry
  <2>3. CASE x # f
    <3>1. x \in Listed \ g.todo
      BY <1>8, <2>3 DEF todo
    <3>2. Fits(g.rows, x)
      BY <2>1, <3>1
    <3> QED BY <1>6, <1>8, <2>1, <2>3, <3>2 DEF Fits, UpToDate
  <2> QED BY <2>2, <2>3
<1>12. Prepared(h) /\ Knows(h)
  BY <1>1, <1>8, <1>10 DEF Sound, Prepared, Knows
<1>13. Sound(h)
  BY <1>11, <1>12 DEF Sound
<1>14. h.todo \subseteq h.listed
  BY <1>1, <1>8 DEF todo
<1>15. Busy(index[i])
  BY <1>1 DEF Busy, g
<1>16. h.outcome \in {"none", index[i].outcome}
  BY <1>8 DEF g
<1> QED BY <1>4, <1>8, <1>13, <1>14, <1>15, <1>16, HandlerGoesOn

\* What follows when rows are ready and their vectors may be missing.
LEMMA EmbedOrStoreStep ==
  ASSUME Inv, NEW i \in Indexers, Busy(index[i]), settings.embeddings,
         NEW rows \in Rows, ~index[i].edited => Complete(rows) /\ index[i].listed = Listed,
         NEW missing \in SUBSET Seq(Lines),
         missing \cap Reusable(db.files, settings.key) = {},
         EmbedOrStore(i, rows, FtsRows(rows), missing)
  PROVE  Safe
<1>1. CASE missing = {} /\ Commit(i, WithVectors(rows, settings.key), FtsRows(rows))
  <2> DEFINE new == WithVectors(rows, settings.key)
  <2>1. settings.key \in {x.key : x \in Settings}
    BY DEF Inv, Types
  <2>2. /\ new \in Rows /\ DOMAIN new = DOMAIN rows
        /\ \A f \in DOMAIN rows : new[f].text = rows[f].text /\ new[f].size = rows[f].size
        /\ \A c \in Chunks(new) : Usable(c, settings.key)
        /\ FtsRows(new) = FtsRows(rows)
    BY <2>1, VectorsGiven
  <2>3. Commit(i, new, FtsRows(new))
    BY <1>1, <2>2
  <2> HIDE DEF new
  <2>4. ~index[i].edited => Complete(new)
    BY <2>2 DEF Complete, Fits, UpToDate
  <2>5. Inv' /\ NoneAnswers /\ \A j \in Indexers : StoresWell(j)
    BY <2>2, <2>3, <2>4, Committed
  <2> QED BY <2>5 DEF Safe, NoneAnswers, AnswersWell
<1>2. CASE /\ missing # {}
           /\ index' = [index EXCEPT ![i].pc = "embedding", ![i].rows = rows,
                                     ![i].fts = FtsRows(rows), ![i].missing = missing]
           /\ UNCHANGED <<tree, settings, db, search, budget>>
  <2> DEFINE g == index[i]
             fts == FtsRows(rows)
             h == [g EXCEPT !.pc = "embedding", !.rows = rows, !.fts = fts, !.missing = missing]
  <2>1. index' = [index EXCEPT ![i] = h]
    BY <1>2, Zenon
  <2>2. g \in Handler /\ g.todo \subseteq g.listed /\ Sound(g)
    BY DEF Inv, Types, AllSound
  <2>3. fts \in Fts
    BY FtsAre
  <2>4. Busy(g) /\ (~g.edited => Complete(rows) /\ g.listed = Listed)
    OBVIOUS
  <2> HIDE DEF g, fts
  <2>5. h \in Handler
    BY <2>2, <2>3, Zenon DEF Handler
  <2>6. h.pc = "embedding"
    BY <2>2, Zenon DEF Handler
  <2>7. h.outcome = g.outcome /\ h.todo = g.todo /\ h.listed = g.listed
    BY <2>2, Zenon DEF Handler
  <2>8. h.rows = rows
    BY <2>2, Zenon DEF Handler
  <2>9. h.fts = fts
    BY <2>2, Zenon DEF Handler
  <2>10. h.missing = missing
    BY <2>2, Zenon DEF Handler
  <2>11. h.edited <=> g.edited
    BY <2>2, Zenon DEF Handler
  <2> HIDE DEF h
  <2>12. Reads(h) /\ Prepared(h) /\ Knows(h)
    BY <2>4, <2>6, <2>7, <2>8, <2>9, <2>10, <2>11
       DEF Reads, Prepared, Knows, Busy, Complete, fts
  <2>13. Sound(h) /\ h.todo \subseteq h.listed /\ h.outcome \in {"none", index[i].outcome}
    BY <2>2, <2>7, <2>12 DEF Sound, g
  <2>14. tree' = tree /\ settings' = settings /\ db' = db /\ search' = search
    BY <1>2
  <2> QED BY <2>1, <2>5, <2>13, <2>14, HandlerGoesOn
<1> QED BY <1>1, <1>2 DEF EmbedOrStore

\* The files have all been read; those that are gone are dropped.
LEMMA FinishStep == ASSUME Inv, NEW i \in Indexers, Finish(i) PROVE Safe
<1> DEFINE g == index[i]
           fs == DOMAIN g.rows \cap g.listed
           rows == Restrict(g.rows, fs)
           missing == {c.text : c \in Chunks(rows)} \ g.cache
<1>1. /\ g.pc = "reading" /\ g.todo = {}
      /\ \/ ~settings.embeddings /\ Commit(i, rows, FtsRows(rows))
         \/ settings.embeddings /\ EmbedOrStore(i, rows, FtsRows(rows), missing)
  BY Zenon DEF Finish
<1>2. g \in Handler /\ Sound(g)
  BY DEF Inv, Types, AllSound
<1>3. Busy(index[i])
  BY <1>1 DEF Busy
<1>4. rows \in Rows /\ DOMAIN rows = fs /\ \A f \in fs : rows[f] = g.rows[f]
  <2>1. g.rows \in Rows
    BY <1>2 DEF Handler
  <2>2. fs \in SUBSET DOMAIN g.rows
    OBVIOUS
  <2> HIDE DEF fs
  <2> QED BY <2>1, <2>2, RowsKept
<1> HIDE DEF rows
<1>5. ~g.edited => Complete(rows) /\ g.listed = Listed
  BY <1>1, <1>2, <1>4 DEF Sound, Reads, Busy, Complete, Fits, UpToDate
<1>6. CASE ~settings.embeddings /\ Commit(i, rows, FtsRows(rows))
  <2>1. Inv' /\ NoneAnswers /\ \A j \in Indexers : StoresWell(j)
    BY <1>3, <1>4, <1>5, <1>6, Committed
  <2> QED BY <2>1 DEF Safe, NoneAnswers, AnswersWell
<1>7. CASE settings.embeddings /\ EmbedOrStore(i, rows, FtsRows(rows), missing)
  <2>1. missing \in SUBSET Seq(Lines)
    <3>1. {c.text : c \in Chunks(rows)} \subseteq Seq(Lines)
      BY <1>4, TextsOfChunks
    <3> QED BY <3>1
  <2>2. missing \cap Reusable(db.files, settings.key) = {}
    BY <1>1, <1>2, <1>7 DEF Sound, Knows
  <2> HIDE DEF missing
  <2> QED BY <1>3, <1>4, <1>5, <1>7, <2>1, <2>2, EmbedOrStoreStep
<1> QED BY <1>1, <1>6, <1>7

\* The provider has answered a batch.
LEMMA EmbedStep == ASSUME Inv, NEW i \in Indexers, EmbedBatch(i) PROVE Safe
<1> DEFINE g == index[i]
<1>1. g.pc = "embedding" /\ g \in Handler /\ Sound(g)
  BY DEF EmbedBatch, Inv, Types, AllSound
<1>2. PICK batch \in SUBSET g.missing :
        EmbedOrStore(i, g.rows, g.fts, g.missing \ batch)
  BY DEF EmbedBatch
<1>3. settings.embeddings /\ g.fts = FtsRows(g.rows)
  BY <1>1 DEF Sound, Prepared
<1>4. g.rows \in Rows /\ g.missing \ batch \in SUBSET Seq(Lines)
  BY <1>1 DEF Handler
<1>5. (g.missing \ batch) \cap Reusable(db.files, settings.key) = {}
  BY <1>1, <1>3 DEF Sound, Knows
<1>6. ~g.edited => Complete(g.rows) /\ g.listed = Listed
  BY <1>1 DEF Sound, Reads, Busy, Complete
<1>7. EmbedOrStore(i, g.rows, FtsRows(g.rows), g.missing \ batch)
  BY <1>2, <1>3
<1>8. Busy(index[i])
  BY <1>1 DEF Busy
<1> QED BY <1>3, <1>4, <1>5, <1>6, <1>7, <1>8, EmbedOrStoreStep

\* One search goes on; it answers with "results" only what it found.
LEMMA OneSearch ==
  ASSUME Inv, NEW s \in Searches, NEW r, search' = [search EXCEPT ![s] = r],
         tree' = tree, settings' = settings, db' = db, index' = index,
         r.answer \in {"none", "results", "reindex"},
         r.answer = "results" => r.found = FtsRows(db.files),
         r.pc = "embedding" => settings.embeddings /\ \A c \in Chunks(db.files) : Counted(c)
  PROVE  Safe
<1>1. /\ \A x \in Searches : x # s => search'[x] = search[x]
      /\ search'[s] = r /\ DOMAIN search' = Searches
  BY DEF Inv, Types
<1>2. Types'
  BY <1>1 DEF Inv, Types
<1>3. AllSound' /\ Alone'
  BY DEF Inv, AllSound, Alone, Sound, Reads, Prepared, Knows, Busy, Listed, Fits, UpToDate
<1>4. Searched'
  BY <1>1 DEF Inv, Searched, Counted
<1>5. AnswersWell
  BY <1>1 DEF AnswersWell
<1>6. \A i \in Indexers : StoresWell(i)
  BY DEF StoresWell, Stores
<1> QED BY <1>2, <1>3, <1>4, <1>5, <1>6 DEF Inv, Safe

\* A search that starts answers at once, when there is nothing to compare, or embeds its query.
LEMMA SearchStartStep == ASSUME Inv, NEW s \in Searches, SearchStart(s) PROVE Safe
<1>1. tree' = tree /\ settings' = settings /\ db' = db /\ index' = index /\ settings.embeddings
  BY DEF SearchStart
<1>2. CASE Answer(s, "reindex", {})
  <2> DEFINE r == [pc |-> "idle", answer |-> "reindex", found |-> {}]
  <2>1. search' = [search EXCEPT ![s] = r] /\ r.answer = "reindex" /\ r.pc = "idle"
    BY <1>2 DEF Answer
  <2> HIDE DEF r
  <2> QED BY <1>1, <2>1, OneSearch
<1>3. CASE Chunks(db.files) = {} /\ Answer(s, "results", {})
  <2> DEFINE r == [pc |-> "idle", answer |-> "results", found |-> {}]
  <2>1. search' = [search EXCEPT ![s] = r] /\ r.answer = "results" /\ r.pc = "idle"
        /\ r.found = {}
    BY <1>3 DEF Answer
  <2>2. FtsRows(db.files) = {}
    <3>1. db.files \in Rows
      BY DEF Inv, Types
    <3>2. \A f \in DOMAIN db.files : \A n \in DOMAIN db.files[f].chunks :
            db.files[f].chunks[n] \in Chunks(db.files)
      BY <3>1, ChunksAre
    <3> QED BY <1>3, <3>1, <3>2, FtsAre
  <2> HIDE DEF r
  <2> QED BY <1>1, <2>1, <2>2, OneSearch
<1>4. CASE /\ \A c \in Chunks(db.files) : Counted(c)
           /\ search' = [search EXCEPT ![s] = [Quiet EXCEPT !.pc = "embedding"]]
  <2> DEFINE r == [Quiet EXCEPT !.pc = "embedding"]
  <2>1. r.answer = "none" /\ search' = [search EXCEPT ![s] = r]
    BY <1>4 DEF Quiet
  <2> HIDE DEF r
  <2> QED BY <1>1, <1>4, <2>1, OneSearch
<1> QED BY <1>2, <1>3, <1>4 DEF SearchStart

\* Every chunk is scanned, since every chunk has a vector of the model.
LEMMA SearchScanStep == ASSUME Inv, NEW s \in Searches, SearchScan(s) PROVE Safe
<1>1. tree' = tree /\ settings' = settings /\ db' = db /\ index' = index
      /\ search[s].pc = "embedding"
  BY DEF SearchScan
<1>2. CASE Answer(s, "reindex", {})
  <2> DEFINE r == [pc |-> "idle", answer |-> "reindex", found |-> {}]
  <2>1. search' = [search EXCEPT ![s] = r] /\ r.answer = "reindex" /\ r.pc = "idle"
    BY <1>2 DEF Answer
  <2> HIDE DEF r
  <2> QED BY <1>1, <2>1, OneSearch
<1>3. CASE Answer(s, "results",
                  {<<x[1], x[2], db.files[x[1]].chunks[x[2]].text>> : x \in Scanned})
  <2> DEFINE found == {<<x[1], x[2], db.files[x[1]].chunks[x[2]].text>> : x \in Scanned}
             r == [pc |-> "idle", answer |-> "results", found |-> found]
  <2>1. db.files \in Rows /\ \A c \in Chunks(db.files) : Counted(c)
    BY <1>1 DEF Inv, Types, Searched
  <2>2. \A f \in DOMAIN db.files : \A n \in DOMAIN db.files[f].chunks :
          Counted(db.files[f].chunks[n])
    BY <2>1, ChunksAre
  <2>3. \A x : x \in Scanned <=>
          \E f \in DOMAIN db.files : \E n \in DOMAIN db.files[f].chunks : x = <<f, n>>
    <3>1. ASSUME NEW x \in Scanned
          PROVE  \E f \in DOMAIN db.files : \E n \in DOMAIN db.files[f].chunks : x = <<f, n>>
      BY DEF Scanned
    <3>2. ASSUME NEW f \in DOMAIN db.files, NEW n \in DOMAIN db.files[f].chunks
          PROVE  <<f, n>> \in Scanned
      <4>1. <<f, n>> \in UNION {{y} \X DOMAIN db.files[y].chunks : y \in DOMAIN db.files}
        OBVIOUS
      <4> QED BY <2>2, <4>1 DEF Scanned, Counted
    <3> QED BY <3>1, <3>2
  <2>4. \A x : x \in found <=> x \in FtsRows(db.files)
    <3>1. \A x : x \in found <=>
            \E y \in Scanned : x = <<y[1], y[2], db.files[y[1]].chunks[y[2]].text>>
      OBVIOUS
    <3> HIDE DEF found
    <3>2. \A x : x \in found <=>
            \E f \in DOMAIN db.files : \E n \in DOMAIN db.files[f].chunks :
              x = <<f, n, db.files[f].chunks[n].text>>
      <4>1. ASSUME NEW x \in found
            PROVE  \E f \in DOMAIN db.files : \E n \in DOMAIN db.files[f].chunks :
                     x = <<f, n, db.files[f].chunks[n].text>>
        BY <2>3, <3>1
      <4>2. ASSUME NEW f \in DOMAIN db.files, NEW n \in DOMAIN db.files[f].chunks
            PROVE  <<f, n, db.files[f].chunks[n].text>> \in found
        <5>1. <<f, n>> \in Scanned
          BY <2>3
        <5> QED BY <3>1, <5>1
      <4> QED BY <4>1, <4>2
    <3> QED BY <2>1, <3>2, FtsAre
  <2>5. found = FtsRows(db.files)
    BY <2>4
  <2> HIDE DEF found
  <2>6. search' = [search EXCEPT ![s] = r] /\ r.answer = "results" /\ r.pc = "idle"
        /\ r.found = found
    BY <1>3 DEF Answer, found
  <2> HIDE DEF r
  <2> QED BY <1>1, <2>5, <2>6, OneSearch
<1> QED BY <1>2, <1>3 DEF SearchScan

\* A search that fails answers nothing.
LEMMA SearchFailsStep == ASSUME Inv, NEW s \in Searches, SearchFails(s) PROVE Safe
<1> DEFINE r == [pc |-> "idle", answer |-> "none", found |-> {}]
<1>1. /\ search' = [search EXCEPT ![s] = r] /\ r.answer = "none" /\ r.pc = "idle"
      /\ tree' = tree /\ settings' = settings /\ db' = db /\ index' = index
  BY DEF SearchFails, Answer
<1> HIDE DEF r
<1> QED BY <1>1, OneSearch

\* An edit: what the running requests have read may no longer be so.
LEMMA EditStep == ASSUME Inv, Edit PROVE Safe
<1> DEFINE new(i) == IF index[i].pc \in {"reading", "embedding"}
                     THEN [index[i] EXCEPT !.edited = TRUE] ELSE index[i]
<1>1. /\ settings' = settings /\ db' = db /\ search' = search
      /\ index' = [i \in Indexers |-> new(i)]
  BY Zenon DEF Edit
<1>2. tree' \in [Files -> Entry]
  BY DEF Edit, Inv, Types
<1>3. ASSUME NEW i \in Indexers
      PROVE  /\ new(i) \in Handler /\ new(i).todo \subseteq new(i).listed
             /\ new(i).outcome = index[i].outcome /\ new(i).pc = index[i].pc
             /\ Busy(new(i)) => new(i).edited
             /\ Prepared(new(i)) /\ Knows(new(i))
  <2> DEFINE g == index[i]
             h == [g EXCEPT !.edited = TRUE]
  <2>1. g \in Handler /\ g.todo \subseteq g.listed /\ Sound(g)
    BY DEF Inv, Types, AllSound
  <2>2. CASE g.pc \notin {"reading", "embedding"}
    <3>1. new(i) = g
      BY <2>2
    <3> HIDE DEF g, new
    <3> QED BY <2>1, <2>2, <3>1 DEF Busy, Prepared, Knows, g
  <2>3. CASE g.pc \in {"reading", "embedding"}
    <3>1. new(i) = h
      BY <2>3, Zenon
    <3> HIDE DEF g, new
    <3>2. h \in Handler
      BY <2>1, Zenon DEF Handler
    <3>3. h.pc = g.pc /\ h.outcome = g.outcome /\ h.todo = g.todo /\ h.listed = g.listed
      BY <2>1, Zenon DEF Handler
    <3>4. h.rows = g.rows /\ h.fts = g.fts /\ h.cache = g.cache /\ h.missing = g.missing
      BY <2>1, Zenon DEF Handler
    <3>5. h.edited
      BY <2>1, Zenon DEF Handler
    <3> HIDE DEF h
    <3>6. Prepared(h) /\ Knows(h)
      BY <2>1, <3>3, <3>4 DEF Sound, Prepared, Knows
    <3> QED BY <2>1, <3>1, <3>2, <3>3, <3>5, <3>6 DEF g
  <2> QED BY <2>2, <2>3
<1> HIDE DEF new
<1>4. index' \in [Indexers -> Handler] /\ \A i \in Indexers : index'[i] = new(i)
  BY <1>1, <1>3
<1>5. Types'
  BY <1>1, <1>2, <1>3, <1>4 DEF Inv, Types
<1>6. ASSUME NEW i \in Indexers, NEW g \in Handler, g = index'[i],
             Prepared(g), Knows(g), Busy(g) => g.edited
      PROVE  Sound(index[i])'
  <2>1. Reads(g)' /\ Prepared(g)' /\ Knows(g)'
    BY <1>1, <1>6 DEF Reads, Prepared, Knows, Busy
  <2> QED BY <1>6, <2>1 DEF Sound
<1>7. AllSound'
  BY <1>3, <1>4, <1>6 DEF AllSound
<1>8. Alone'
  <2> SUFFICES ASSUME settings.embeddings, NEW i \in Indexers, NEW j \in Indexers,
                      Busy(index'[i]), Busy(index'[j])
               PROVE  i = j
    BY <1>1 DEF Alone, Busy
  <2>1. Busy(index[i]) /\ Busy(index[j])
    BY <1>3, <1>4 DEF Busy
  <2> QED BY <2>1 DEF Inv, Alone
<1>9. Searched'
  BY <1>1 DEF Inv, Searched, Counted
<1>10. NoneStores /\ NoneAnswers
  BY <1>1, <1>3, <1>4 DEF NoneStores, NoneAnswers
<1>11. Inv'
  BY <1>5, <1>7, <1>8, <1>9 DEF Inv
<1> QED BY <1>10, <1>11, NothingDone

\* A damaged vector: fewer texts are reusable, as many chunks have a vector.
LEMMA DamageStep == ASSUME Inv, Damage PROVE Safe
<1>1. PICK f \in DOMAIN db.files : \E n \in DOMAIN db.files[f].chunks :
        \E e \in db.files[f].chunks[n].embedding :
          /\ e.valid
          /\ db' = [db EXCEPT !.files[f].chunks[n].embedding =
                                {[e EXCEPT !.valid = FALSE]}]
  BY DEF Damage
<1>2. PICK n \in DOMAIN db.files[f].chunks : \E e \in db.files[f].chunks[n].embedding :
        db' = [db EXCEPT !.files[f].chunks[n].embedding = {[e EXCEPT !.valid = FALSE]}]
  BY <1>1, Zenon
<1>3. PICK e \in db.files[f].chunks[n].embedding :
        db' = [db EXCEPT !.files[f].chunks[n].embedding = {[e EXCEPT !.valid = FALSE]}]
  BY <1>2, Zenon
<1> DEFINE rows == db.files
           chunk == rows[f].chunks[n]
           row == rows[f]
           bad == [e EXCEPT !.valid = FALSE]
           chunk2 == [chunk EXCEPT !.embedding = {bad}]
           chunks2 == [row.chunks EXCEPT ![n] = chunk2]
           row2 == [row EXCEPT !.chunks = chunks2]
           new == [rows EXCEPT ![f] = row2]
           plain == Replaced(rows, f, n, bad)
<1>4. tree' = tree /\ settings' = settings /\ index' = index /\ search' = search
  BY DEF Damage
<1>5. rows \in Rows /\ db = [files |-> db.files, fts |-> db.fts] /\ db.fts \in Fts
  BY DEF Inv, Types
<1>6. ASSUME NEW key
      PROVE  /\ new \in Rows
             /\ Reusable(new, key) \subseteq Reusable(rows, key)
             /\ (\A c \in Chunks(rows) : \E v \in c.embedding : v.key = key)
                  => \A c \in Chunks(new) : \E v \in c.embedding : v.key = key
  <2>1. chunk \in Chunk /\ row \in Row
    BY <1>5, ChunksAre, RowsAre
  <2>2. e \in Embedding
    BY <2>1 DEF Chunk
  <2>3. bad \in Embedding /\ bad.key = e.key
    BY <2>2, Zenon DEF Embedding
  <2>4. ~bad.valid
    BY <2>2, Zenon DEF Embedding
  <2> HIDE DEF bad
  <2>5. chunk2 = [text |-> chunk.text, embedding |-> {bad}]
    <3> HIDE DEF chunk
    <3>1. chunk = [text |-> chunk.text, embedding |-> chunk.embedding]
      BY <2>1 DEF Chunk
    <3> QED BY <3>1
  <2> HIDE DEF chunk2
  <2>6. chunks2 = [row.chunks EXCEPT ![n] = chunk2]
    OBVIOUS
  <2> HIDE DEF chunks2
  <2>7. row2 = [text |-> row.text, size |-> row.size, chunks |-> chunks2]
    <3> HIDE DEF row
    <3>1. row = [text |-> row.text, size |-> row.size, chunks |-> row.chunks]
      BY <2>1 DEF Row
    <3> QED BY <3>1
  <2> HIDE DEF row2
  <2>8. rows \in Rows /\ f \in DOMAIN rows /\ n \in DOMAIN rows[f].chunks
        /\ e \in rows[f].chunks[n].embedding
    BY <1>5
  <2>9. /\ plain \in Rows
        /\ Reusable(plain, key) \subseteq Reusable(rows, key)
        /\ (\A c \in Chunks(rows) : \E v \in c.embedding : v.key = key)
             => \A c \in Chunks(plain) : \E v \in c.embedding : v.key = key
    <3> HIDE DEF rows
    <3> QED BY <2>3, <2>4, <2>8, VectorDamaged
  <2>10. new = plain
    BY <2>5, <2>6, <2>7, Zenon DEF Replaced
  <2> QED BY <2>9, <2>10
<1>7. db' = [db EXCEPT !.files = new]
  BY <1>3, Zenon
<1> HIDE DEF new
<1>8. db' = [files |-> new, fts |-> db.fts]
  BY <1>5, <1>7
<1>9. db'.files = new /\ db' \in [files : Rows, fts : Fts]
  BY <1>5, <1>6, <1>8
<1>10. Types'
  BY <1>4, <1>9 DEF Inv, Types
<1>11. AllSound'
  BY <1>4, <1>6, <1>9
     DEF Inv, AllSound, Sound, Reads, Prepared, Knows, Busy, Listed, Fits, UpToDate
<1>12. Alone'
  BY <1>4 DEF Inv, Alone, Busy
<1>13. Searched'
  BY <1>4, <1>6, <1>9 DEF Inv, Searched, Counted
<1>14. Inv'
  BY <1>10, <1>11, <1>12, <1>13 DEF Inv
<1>15. NoneStores /\ NoneAnswers
  BY <1>4 DEF NoneStores, NoneAnswers
<1> QED BY <1>14, <1>15, NothingDone

\* A restart: nothing is running, what is stored stays.
LEMMA RestartStep == ASSUME Inv, Restart PROVE Safe
<1>1. /\ tree' = tree /\ db' = db /\ settings' \in Settings
      /\ index' = [i \in Indexers |-> Ended("none")]
      /\ search' = [s \in Searches |-> Quiet]
  BY DEF Restart
<1>2. /\ \A i \in Indexers : index'[i] = Ended("none")
      /\ \A s \in Searches : search'[s] = Quiet
      /\ Ended("none") \in Handler /\ Ended("none").todo \subseteq Ended("none").listed
      /\ Ended("none").pc = "idle" /\ Ended("none").outcome = "none"
      /\ Quiet.pc = "idle" /\ Quiet.answer = "none"
  BY <1>1, EndedIsSound DEF Quiet
<1>3. Types'
  BY <1>1, <1>2 DEF Inv, Types
<1>4. AllSound' /\ Alone' /\ Searched'
  BY <1>2 DEF AllSound, Alone, Searched, Sound, Reads, Prepared, Knows, Busy
<1>5. NoneStores /\ NoneAnswers
  BY <1>2 DEF NoneStores, NoneAnswers
<1> QED BY <1>3, <1>4, <1>5, NothingDone DEF Inv

--------------------------------------------------------------------------------
(* The theorems *)

\* Nothing runs and nothing is stored.
LEMMA InitInv == Init => Inv
<1> SUFFICES ASSUME Init PROVE Inv
  OBVIOUS
<1>1. /\ \A i \in Indexers : index[i] = Ended("none")
      /\ \A s \in Searches : search[s] = Quiet
      /\ Ended("none") \in Handler /\ Ended("none").todo \subseteq Ended("none").listed
      /\ Ended("none").pc = "idle"
      /\ Quiet.pc = "idle" /\ Quiet.answer = "none"
  BY EndedIsSound DEF Init, Quiet
<1>2. db \in [files : Rows, fts : Fts]
  BY NoRows DEF Init, Fts
<1>3. Types
  <2>1. tree \in [Files -> Entry]
    BY TreesAssumption DEF Init
  <2>2. index \in [Indexers -> Handler]
    BY <1>1 DEF Init
  <2> QED BY <1>1, <1>2, <2>1, <2>2 DEF Types, Init
<1>4. AllSound /\ Alone /\ Searched
  BY <1>1 DEF AllSound, Alone, Searched, Sound, Reads, Prepared, Knows, Busy
<1> QED BY <1>3, <1>4 DEF Inv

\* Every step keeps the invariant, and stores and answers well.
THEOREM StepInv == Inv /\ Next => Safe
<1> SUFFICES ASSUME Inv, Next PROVE Safe
  OBVIOUS
<1>1. CASE \E i \in Indexers : Request(i) \/ Step(i) \/ Abort(i)
  <2>1. PICK i \in Indexers : Request(i) \/ Step(i) \/ Abort(i)
    BY <1>1
  <2> QED BY <2>1, RequestStep, BeginStep, ReadStep, FinishStep, EmbedStep, AbortStep DEF Step
<1>2. CASE \E s \in Searches : SearchStart(s) \/ SearchScan(s) \/ SearchFails(s)
  BY <1>2, SearchStartStep, SearchScanStep, SearchFailsStep
<1>3. CASE Edit \/ Damage \/ Restart
  BY <1>3, EditStep, DamageStep, RestartStep
<1> QED BY <1>1, <1>2, <1>3 DEF Next

\* Steps that change nothing.
LEMMA StutterInv == Inv /\ UNCHANGED vars => Safe
<1> SUFFICES ASSUME Inv, UNCHANGED vars PROVE Safe
  OBVIOUS
<1>1. tree' = tree /\ settings' = settings /\ db' = db /\ index' = index /\ search' = search
  BY DEF vars
<1>2. Inv'
  BY <1>1 DEF Inv, Types, AllSound, Alone, Searched, Counted,
              Sound, Reads, Prepared, Knows, Busy, Listed, Fits, UpToDate
<1>3. NoneStores /\ NoneAnswers
  BY <1>1 DEF NoneStores, NoneAnswers
<1> QED BY <1>2, <1>3, NothingDone

\* Every reachable state satisfies the inductive invariant.
LEMMA Safety == Spec => []Inv
<1>1. Inv /\ [Next]_vars => Inv'
  BY StepInv, StutterInv DEF Safe
<1> QED BY <1>1, InitInv, PTL DEF Spec

\* Rows of the right type are well made.
LEMMA RowsAreOK == ASSUME NEW rows \in Rows PROVE RowsOK(rows)
<1>1. DOMAIN rows \subseteq Files
  BY RowsAre
<1>2. ASSUME NEW f \in DOMAIN rows
      PROVE  LET chunks == ChunkText(rows[f].text, rows[f].size) IN
             /\ rows[f].text \in Texts /\ \E x \in Settings : rows[f].size = x.size
             /\ Len(rows[f].chunks) = Len(chunks)
             /\ \A n \in DOMAIN chunks :
                  /\ rows[f].chunks[n].text = chunks[n] /\ chunks[n] # <<>>
                  /\ rows[f].chunks[n].embedding \subseteq Embedding
                  /\ Cardinality(rows[f].chunks[n].embedding) <= 1
  <2> DEFINE r == rows[f]
             chunks == ChunkText(r.text, r.size)
  <2>1. r \in Row /\ DOMAIN r.chunks = 1 .. Len(r.chunks)
    BY RowsAre
  <2>2. /\ r.text \in Texts /\ r.size \in {x.size : x \in Settings}
        /\ Len(r.chunks) = Len(chunks)
        /\ \A n \in 1 .. Len(r.chunks) : r.chunks[n].text = chunks[n]
    BY <2>1 DEF Row
  <2>3. chunks \in Seq(Seq(Lines) \ {<<>>})
    <3>1. r.text \in Seq(Lines) /\ r.size \in Nat \ {0}
      BY <2>2, TextsAreLines
    <3> QED BY <3>1, ChunksOfText
  <2>4. DOMAIN chunks = 1 .. Len(r.chunks) /\ \A n \in DOMAIN chunks : chunks[n] # <<>>
    <3> HIDE DEF r, chunks
    <3> QED BY <2>2, <2>3
  <2>5. ASSUME NEW n \in DOMAIN chunks
        PROVE  /\ r.chunks[n].embedding \subseteq Embedding
               /\ Cardinality(r.chunks[n].embedding) <= 1
    <3> DEFINE v == r.chunks[n].embedding
    <3>1. r.chunks[n] \in Chunk
      BY <2>1, <2>4, ChunksAre
    <3>2. v = {} \/ \E e \in Embedding : v = {e}
      BY <3>1 DEF Chunk
    <3>3. Cardinality(v) <= 1
      <4>1. \A x : Cardinality({x}) = 1
        BY FS_Singleton, Zenon
      <4>2. Cardinality({}) = 0
        BY FS_EmptySet, Zenon
      <4> HIDE DEF v
      <4>3. Cardinality(v) \in {0, 1}
        BY <3>2, <4>1, <4>2
      <4> QED BY <4>3
    <3> QED BY <3>2, <3>3
  <2> QED BY <2>2, <2>4, <2>5
<1> QED BY <1>1, <1>2 DEF RowsOK

\* Variables have their types, whatever the files, texts and settings, and every
\* row is its text cut into chunks, each with at most one vector.
THEOREM TypeCorrect == Spec => []TypeOK
<1>1. Inv => TypeOK
  <2> SUFFICES ASSUME Types PROVE TypeOK
    BY DEF Inv
  <2>1. RowsOK(db.files)
    BY RowsAreOK DEF Types
  <2>2. ASSUME NEW i \in Indexers
        PROVE  /\ RowsOK(index[i].rows)
               /\ index[i].pc \in {"idle", "waiting", "reading", "embedding"}
               /\ index[i].outcome \in {"none", "stored"}
               /\ index[i].todo \subseteq index[i].listed
    <3>1. index[i] \in Handler
      BY DEF Types
    <3>2. index[i].rows \in Rows
      BY <3>1 DEF Handler
    <3> QED BY <3>1, <3>2, RowsAreOK DEF Handler, Types
  <2> QED BY <2>1, <2>2 DEF Types, TypeOK
<1> QED BY <1>1, Safety, PTL

\* No text is sent to the provider for which the committed index already has a
\* sound vector of the active model, however many requests overlap.
THEOREM PaysOnce == Spec => []NothingPaidTwice
<1>1. Inv => NothingPaidTwice
  BY DEF Inv, AllSound, Sound, Prepared, Knows, NothingPaidTwice
<1> QED BY <1>1, Safety, PTL

\* Every request that stores an index while nobody edits leaves the working tree,
\* cut up with the settings of the process, and full-text rows that agree with it.
THEOREM IndexMirrorsTree == Spec => MirrorsTree
<1>1. Inv /\ [Next]_vars =>
        [\A i \in Indexers : Stores(i) /\ ~index[i].edited =>
           /\ \A f \in Files :
                /\ tree[f].kind = "text" => /\ f \in DOMAIN db'.files
                                            /\ Splits(db'.files[f], tree[f].text, settings.size)
                /\ tree[f].kind = "absent" => f \notin DOMAIN db'.files
           /\ db'.fts = FtsRows(db'.files)]_vars
  BY StepInv, StutterInv DEF Safe, StoresWell
<1> QED BY <1>1, Safety, PTL DEF Spec, MirrorsTree

\* Every request that stores an index with embeddings leaves a sound vector of the
\* active model on every chunk, whatever was there before.
THEOREM ReindexingRepairs == Spec => ReindexRepairs
<1>1. Inv /\ [Next]_vars =>
        [\A i \in Indexers : Stores(i) /\ settings.embeddings =>
           \A c \in Chunks(db'.files) : Usable(c, settings.key)]_vars
  BY StepInv, StutterInv DEF Safe, StoresWell
<1> QED BY <1>1, Safety, PTL DEF Spec, ReindexRepairs

\* Every semantic search that answers has compared the query with every chunk.
THEOREM SearchesSeeEverything == Spec => SearchComplete
<1>1. Inv /\ [Next]_vars =>
        [\A s \in Searches :
           search'[s] # search[s] /\ search'[s].answer = "results" =>
             search'[s].found = FtsRows(db.files)]_vars
  BY StepInv, StutterInv DEF Safe, AnswersWell
<1> QED BY <1>1, Safety, PTL DEF Spec, SearchComplete
================================================================================
