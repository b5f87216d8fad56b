------------------------- MODULE SharedDatabaseProofs --------------------------
(* The write lock is kept by indexers and handlers only: WriterInv holds          *)
(* together with TypeOK, for any number of requests of each kind.                *)
EXTENDS SharedDatabase, TLAPS

IInv == TypeOK /\ WriterInv

\* Moving one request keeps the places of the others.
LEMMA MovesOne ==
  ASSUME NEW r \in Requests, NEW place \in Awaits \cup Writes \cup {"done"},
         at \in [Requests -> Awaits \cup Writes \cup {"done"}], Go(r, place)
  PROVE  /\ at' \in [Requests -> Awaits \cup Writes \cup {"done"}]
         /\ at'[r] = place
         /\ \A q \in Requests \ {r} : at'[q] = at[q]
<1>1. at' = [at EXCEPT ![r] = place]
  BY DEF Go
<1>2. at' \in [Requests -> Awaits \cup Writes \cup {"done"}]
  BY <1>1, Zenon
<1>3. at'[r] = place
  BY <1>1, Zenon
<1>4. \A q \in Requests \ {r} : at'[q] = at[q]
  BY <1>1, Zenon
<1> QED BY <1>2, <1>3, <1>4

\* The service starts in the invariant: nobody holds the lock.
THEOREM InitInv == Init => IInv
<1> SUFFICES ASSUME Init PROVE IInv
  OBVIOUS
<1>1. \A r \in Requests : at[r] = IF r \in Routes THEN "insert" ELSE "arrived"
  BY SMT DEF Init
<1>2. at \in [Requests -> Awaits \cup Writes \cup {"done"}]
  BY SMT DEF Init, Awaits, Writes
<1>3. TypeOK
  BY <1>2, SMT DEF Init, TypeOK
<1>4. writer = None
  BY DEF Init
<1>5. WriterInv
  BY <1>1, <1>4, RequestsAssumption, SMT DEF WriterInv, Keeping
<1> QED BY <1>3, <1>5 DEF IInv

\* An assignment to one place of a function keeps its type.
LEMMA Assigned ==
  ASSUME NEW D, NEW V, NEW f \in [D -> V], NEW x, NEW v \in V
  PROVE  [f EXCEPT ![x] = v] \in [D -> V]
  BY Zenon

\* A step of r on the loop, or in its thread: it moves r, and gives the loop away only if
\* r had it; the lock is r's afterwards if r is then at a place that keeps it.
Moves(r, place) ==
  /\ Go(r, place)
  /\ place \in {"flush", "indexing", "provider", "publish"} => r \in Indexers
  /\ place \in {"insert", "inserted"} => r \in Routes
  /\ r \in Routes => place \in {"insert", "inserted", "done"}
  /\ place \in Keeping <=> writer' = r
  /\ writer' # r => writer' = IF writer = r THEN None ELSE writer
  /\ writer' = r => writer \in {None, r}
  /\ place \in {"indexing", "publish"} => loop' = r
  /\ loop' = loop \/ loop \in {None, r}

\* Such a step keeps the invariant.
LEMMA MovesInv ==
  ASSUME IInv, NEW r \in Requests, NEW place \in Awaits \cup Writes \cup {"done"}, Moves(r, place)
  PROVE  WriterInv' /\ at' \in [Requests -> Awaits \cup Writes \cup {"done"}]
<1>1. /\ at' \in [Requests -> Awaits \cup Writes \cup {"done"}]
      /\ at'[r] = place
      /\ \A q \in Requests \ {r} : at'[q] = at[q]
  BY MovesOne DEF Moves, IInv, TypeOK
<1>2. ASSUME NEW q \in Requests, q # r
      PROVE  /\ at'[q] \in {"flush", "indexing", "provider", "publish"} => q \in Indexers
             /\ at'[q] \in {"insert", "inserted"} => q \in Routes
             /\ q \in Routes => at'[q] \in {"insert", "inserted", "done"}
             /\ at'[q] \in Keeping <=> writer' = q
             /\ at'[q] \in {"indexing", "publish"} => loop' = q
  <2>1. at'[q] = at[q]
    BY <1>1, <1>2
  <2>2. writer' = q <=> writer = q
    BY <1>2, RequestsAssumption, Zenon DEF Moves
  <2>3. loop = q => loop' = q
    BY <1>2, RequestsAssumption, Zenon DEF Moves
  <2> QED BY <2>1, <2>2, <2>3, Zenon DEF IInv, WriterInv
<1>3. /\ at'[r] \in {"flush", "indexing", "provider", "publish"} => r \in Indexers
      /\ at'[r] \in {"insert", "inserted"} => r \in Routes
      /\ r \in Routes => at'[r] \in {"insert", "inserted", "done"}
      /\ at'[r] \in Keeping <=> writer' = r
      /\ at'[r] \in {"indexing", "publish"} => loop' = r
  BY <1>1, Zenon DEF Moves
<1>4. WriterInv'
  <2>1. Keeping' = Keeping
    BY DEF Keeping
  <2> QED BY <1>2, <1>3, <2>1, Zenon DEF WriterInv
<1> QED BY <1>1, <1>4

\* What the invariant says of one request.
LEMMA Kinds ==
  ASSUME WriterInv, NEW r \in Requests
  PROVE  /\ at[r] \in {"flush", "indexing", "provider", "publish"} => r \in Indexers
         /\ at[r] \in {"insert", "inserted"} => r \in Routes
         /\ r \in Routes => at[r] \in {"insert", "inserted", "done"}
         /\ at[r] \in Keeping <=> writer = r
         /\ at[r] \in {"indexing", "publish"} => loop = r
  BY Zenon DEF WriterInv

\* A step on the loop, up to the next write.
LEMMA ResumeInv == ASSUME IInv, NEW r \in Requests, Resume(r) PROVE IInv'
<1>1. PICK place \in {"create", "claim", "checkpoint", "release", "flush", "message", "finish",
                        "fail", "publish"} :
        /\ Go(r, place)
        /\ place = "flush" => r \in Indexers
        /\ place = "publish" <=> at[r] = "provider"
  BY SMT DEF Resume
<1>2. r \in Coroutines /\ loop = None /\ loop' = r /\ UNCHANGED <<writer, row, claimed>>
  BY DEF Resume, rows
<1>3. rounds' \in [Coroutines -> Nat]
  BY SMT DEF Resume, IInv, TypeOK
<1>4. place \in Awaits \cup Writes \cup {"done"}
  BY DEF Writes
<1>5. Moves(r, place)
  <2>1. r \notin Routes
    BY <1>2, RequestsAssumption
  <2>2. WriterInv
    BY DEF IInv
  <2>3. /\ at[r] \in {"arrived", "history", "model", "provider"}
    BY DEF Resume
  <2>4. at[r] = "provider" => r \in Indexers /\ writer = r
    BY <2>2, Kinds, Zenon DEF Keeping
  <2>5. at[r] # "provider" => writer # r
    BY <2>2, <2>3, Kinds, SMT DEF Keeping
  <2> QED BY <1>1, <1>2, <2>1, <2>4, <2>5, SMT DEF Moves, Keeping
<1>6. WriterInv' /\ at' \in [Requests -> Awaits \cup Writes \cup {"done"}]
  BY <1>4, <1>5, MovesInv
<1>7. TypeOK'
  BY <1>2, <1>3, <1>6, SMT DEF IInv, TypeOK, Requests, Coroutines
<1> QED BY <1>6, <1>7 DEF IInv

\* The provider answers or fails.
LEMMA ProviderInv ==
  ASSUME IInv, NEW r \in Requests, NextBatch(r) \/ ProviderFails(r) PROVE IInv'
<1>1. CASE NextBatch(r)
  <2>1. UNCHANGED <<at, loop, writer, row, claimed>>
    BY <1>1 DEF NextBatch, rows
  <2>2. rounds' \in [Coroutines -> Nat]
    <3>1. rounds' = [rounds EXCEPT ![r] = @ + 1] /\ rounds \in [Coroutines -> Nat]
      BY <1>1 DEF NextBatch, IInv, TypeOK
    <3>2. CASE r \in Coroutines
      BY <3>1, <3>2, SMT
    <3>3. CASE r \notin Coroutines
      BY <3>1, <3>3, Zenon
    <3> QED BY <3>2, <3>3
  <2> QED BY <2>1, <2>2, Zenon DEF IInv, TypeOK, WriterInv, Keeping
<1>2. CASE ProviderFails(r)
  <2>1. Go(r, "done") /\ writer' = None /\ at[r] = "provider"
        /\ UNCHANGED <<loop, row, claimed, rounds>>
    BY <1>2 DEF ProviderFails, rows
  <2>2. Moves(r, "done")
    <3>1. writer = r
      BY <2>1, Kinds, Zenon DEF IInv, Keeping
    <3> QED BY <2>1, <3>1, RequestsAssumption, SMT DEF Moves, Keeping
  <2>3. WriterInv' /\ at' \in [Requests -> Awaits \cup Writes \cup {"done"}]
    BY <2>2, MovesInv
  <2> QED BY <2>1, <2>3, SMT DEF IInv, TypeOK
<1> QED BY <1>1, <1>2

\* What a write of r does: it moves r.
LEMMA WriteEffect ==
  ASSUME IInv, NEW r \in Requests, Write(r)
  PROVE  \E place \in Awaits \cup Writes \cup {"done"} : Moves(r, place) /\ loop' \in {loop, None}
<1>1. WriterInv
  BY DEF IInv
<1> DEFINE Free == writer \in {None, r} /\ writer' = None
           Refused == writer \notin {None, r} /\ writer' = writer
           Kept == writer \in {None, r} /\ writer' = r
           Stays == loop' = loop \/ (loop = r /\ loop' = None)
<1>2. r # None /\ (r \in Coroutines => r \notin Routes) /\ Indexers \subseteq Coroutines
  BY RequestsAssumption DEF Coroutines
<1>3. ASSUME NEW place \in {"model", "release", "done", "fail", "history", "create"},
             Go(r, place), Free \/ Refused, Stays, r \in Routes => place = "done"
      PROVE  \E p \in Awaits \cup Writes \cup {"done"} : Moves(r, p) /\ loop' \in {loop, None}
  <2>1. place \in Awaits \cup Writes \cup {"done"}
    BY DEF Awaits, Writes
  <2>2. Moves(r, place)
    BY <1>2, <1>3, SMT DEF Moves, Keeping
  <2> QED BY <1>3, <2>1, <2>2, Zenon
<1>4. /\ Commits(r) => Free /\ (r \notin Routes => loop = r)
      /\ Refuses(r) => Refused /\ (r \notin Routes => loop = r)
  BY SMT DEF Commits, Refuses, Expired, OnCpu
<1>5. at[r] \in {"create", "message", "finish", "fail", "claim", "checkpoint", "release", "flush",
                 "publish", "indexing"} => r \notin Routes
  BY <1>1, Kinds, SMT
<1> HIDE DEF Free, Refused, Kept, Stays
<1>6. CASE Create(r)
  <2>1. r \notin Routes /\ loop = r
    BY <1>4, <1>5, <1>6, SMT DEF Create
  <2>2. PICK place \in {"model", "release", "done"} : Go(r, place) /\ loop' \in {loop, None} /\ (Free \/ Refused)
    BY <1>4, <1>6, Zenon DEF Create, Ends, Await
  <2> QED BY <1>3, <2>1, <2>2, Zenon DEF Stays
<1>7. CASE Message(r)
  <2>1. r \notin Routes /\ loop = r
    BY <1>4, <1>5, <1>7, SMT DEF Message
  <2>2. PICK place \in {"model", "fail"} : Go(r, place) /\ loop' \in {loop, None} /\ (Free \/ Refused)
    BY <1>4, <1>7, Zenon DEF Message, Await
  <2> QED BY <1>3, <2>1, <2>2, Zenon DEF Stays
<1>8. CASE Finish(r)
  <2>1. r \notin Routes /\ loop = r
    BY <1>4, <1>5, <1>8, SMT DEF Finish
  <2>2. PICK place \in {"release", "done", "fail"} : Go(r, place) /\ loop' \in {loop, None} /\ (Free \/ Refused)
    BY <1>4, <1>8, Zenon DEF Finish, Ends, Await
  <2> QED BY <1>3, <2>1, <2>2, Zenon DEF Stays
<1>9. CASE Fail(r)
  <2>1. r \notin Routes /\ loop = r
    BY <1>4, <1>5, <1>9, SMT DEF Fail
  <2>2. PICK place \in {"release", "done"} : Go(r, place) /\ loop' \in {loop, None} /\ (Free \/ Refused)
    BY <1>4, <1>9, Zenon DEF Fail, Ends, Await
  <2> QED BY <1>3, <2>1, <2>2, Zenon DEF Stays
<1>10. CASE Claim(r)
  <2>1. r \notin Routes /\ loop = r
    BY <1>4, <1>5, <1>10, SMT DEF Claim
  <2>2. PICK place \in {"history", "done"} : Go(r, place) /\ loop' \in {loop, None} /\ (Free \/ Refused)
    BY <1>4, <1>10, Zenon DEF Claim, Await
  <2> QED BY <1>3, <2>1, <2>2, Zenon DEF Stays
<1>11. CASE Checkpoint(r)
  <2>1. r \notin Routes /\ loop = r
    BY <1>4, <1>5, <1>11, SMT DEF Checkpoint
  <2>2. PICK place \in {"create", "release"} : Go(r, place) /\ loop' \in {loop, None} /\ (Free \/ Refused)
    BY <1>4, <1>11, Zenon DEF Checkpoint
  <2> QED BY <1>3, <2>1, <2>2, Zenon DEF Stays
<1>12. CASE Release(r)
  <2>1. r \notin Routes /\ loop = r
    BY <1>4, <1>5, <1>12, SMT DEF Release
  <2>2. Go(r, "done") /\ loop' = None /\ (Free \/ Refused)
    BY <1>4, <1>12, SMT DEF Release, Await
  <2> QED BY <1>3, <2>1, <2>2, Zenon DEF Stays
<1>13. CASE Flush(r)
  <2>1. r \in Indexers /\ r \notin Routes
    BY <1>1, <1>5, <1>13, Kinds, SMT DEF Flush
  <2>2. CASE Refuses(r) /\ Await(r, "done")
    BY <1>3, <1>4, <2>1, <2>2, Zenon DEF Stays, Await
  <2>3. CASE OnCpu(r) /\ writer \in {None, r} /\ writer' = r /\ Go(r, "indexing") /\ UNCHANGED loop
    <3>1. loop = r /\ "indexing" \in Awaits \cup Writes \cup {"done"}
      BY <2>1, <2>3, SMT DEF OnCpu, Writes
    <3>2. Moves(r, "indexing")
      BY <1>2, <2>1, <2>3, <3>1, SMT DEF Moves, Keeping
    <3> QED BY <2>3, <3>1, <3>2
  <2> QED BY <1>13, <2>2, <2>3, Zenon DEF Flush
<1>14. CASE Indexed(r)
  <2>1. r \in Indexers /\ r \notin Routes /\ writer = r /\ loop = r /\ UNCHANGED writer
    BY <1>1, <1>5, <1>14, Kinds, SMT DEF Indexed, Keeping
  <2>2. CASE Await(r, "provider")
    <3>1. Moves(r, "provider")
      BY <1>2, <2>1, <2>2, SMT DEF Moves, Keeping, Await
    <3> QED BY <2>2, <3>1, SMT DEF Await, Awaits
  <2>3. CASE Go(r, "publish") /\ UNCHANGED loop
    <3>1. Moves(r, "publish")
      BY <1>2, <2>1, <2>3, SMT DEF Moves, Keeping
    <3> QED BY <2>3, <3>1, SMT DEF Writes
  <2> QED BY <1>14, <2>2, <2>3, Zenon DEF Indexed
<1>15. CASE Publish(r)
  <2>1. r \notin Routes /\ loop = r
    BY <1>4, <1>5, <1>15, SMT DEF Publish
  <2>2. Go(r, "done") /\ loop' = None /\ Free
    BY <1>4, <1>15, SMT DEF Publish, Await
  <2> QED BY <1>3, <2>1, <2>2, Zenon DEF Stays
<1>16. CASE Insert(r)
  <2>1. r \in Routes /\ r \notin Indexers /\ UNCHANGED loop
    BY <1>1, <1>2, <1>16, Kinds, SMT DEF Insert
  <2>2. CASE writer = None /\ writer' = r /\ Go(r, "inserted")
    <3>1. Moves(r, "inserted")
      BY <1>2, <2>1, <2>2, SMT DEF Moves, Keeping
    <3> QED BY <2>1, <3>1, SMT DEF Writes
  <2>3. CASE Refuses(r) /\ Go(r, "done")
    BY <1>3, <1>4, <2>1, <2>3, "done" \in {"model", "release", "done", "fail", "history", "create"} DEF Stays
  <2> QED BY <1>16, <2>2, <2>3, Zenon DEF Insert
<1>17. CASE CommitInsert(r)
  <2>1. Free /\ Go(r, "done") /\ UNCHANGED loop
    BY <1>4, <1>17, Zenon DEF CommitInsert
  <2> QED BY <1>3, <2>1 DEF Stays
<1> QED BY <1>6, <1>7, <1>8, <1>9, <1>10, <1>11, <1>12, <1>13, <1>14, <1>15, <1>16, <1>17, Zenon DEF Write

\* The rows keep their types.
LEMMA WriteRows ==
  ASSUME IInv, NEW r \in Requests, Write(r)
  PROVE  /\ row' \in [Runs \cup Turns -> {"none", "running", "completed", "failed"}]
         /\ claimed' \in [Turns -> BOOLEAN]
         /\ rounds' = rounds
<1> USE DEF IInv, TypeOK, Write, Commits, Refuses, rows
<1>1. rounds' = rounds
  <2>1. CASE Create(r) BY <2>1 DEF Create
  <2>2. CASE Message(r) BY <2>2 DEF Message
  <2>3. CASE Finish(r) BY <2>3 DEF Finish
  <2>4. CASE Fail(r) BY <2>4 DEF Fail
  <2>5. CASE Claim(r) BY <2>5 DEF Claim
  <2>6. CASE Release(r) BY <2>6 DEF Release
  <2>7. CASE Flush(r) BY <2>7 DEF Flush
  <2>8. CASE Publish(r) BY <2>8 DEF Publish
  <2>9. CASE Insert(r) BY <2>9 DEF Insert
  <2>10. CASE CommitInsert(r) BY <2>10 DEF CommitInsert
  <2>11. CASE Checkpoint(r) BY <2>11 DEF Checkpoint
  <2>12. CASE Indexed(r) BY <2>12 DEF Indexed
  <2> QED BY <2>1, <2>2, <2>3, <2>4, <2>5, <2>6, <2>7, <2>8, <2>9, <2>10, <2>11, <2>12
<1>2. row' \in [Runs \cup Turns -> {"none", "running", "completed", "failed"}]
  <2>1. CASE UNCHANGED row
    BY <2>1, Zenon
  <2>2. CASE row' = [row EXCEPT ![r] = "running"]
    BY <2>2, Assigned, "running" \in {"none", "running", "completed", "failed"}, Zenon
  <2>3. CASE row' = [row EXCEPT ![r] = "completed"]
    BY <2>3, Assigned, "completed" \in {"none", "running", "completed", "failed"}, Zenon
  <2>4. CASE row' = [row EXCEPT ![r] = "failed"]
    BY <2>4, Assigned, "failed" \in {"none", "running", "completed", "failed"}, Zenon
  <2> QED
    BY <2>1, <2>2, <2>3, <2>4, Zenon
       DEF Create, Message, Finish, Fail, Claim, Checkpoint, Release, Flush, Indexed, Publish, Insert,
           CommitInsert
<1>3. claimed' \in [Turns -> BOOLEAN]
  <2>1. CASE UNCHANGED claimed
    BY <2>1, Zenon
  <2>2. CASE \E held \in BOOLEAN : claimed' = [claimed EXCEPT ![r] = held]
    BY <2>2, Zenon
  <2> QED
    BY <2>1, <2>2, Zenon
       DEF Create, Message, Finish, Fail, Claim, Checkpoint, Release, Flush, Indexed, Publish, Insert,
           CommitInsert
<1> QED BY <1>1, <1>2, <1>3

\* A write keeps the invariant.
LEMMA WriteInv == ASSUME IInv, NEW r \in Requests, Write(r) PROVE IInv'
<1>1. PICK place \in Awaits \cup Writes \cup {"done"} : Moves(r, place) /\ loop' \in {loop, None}
  BY WriteEffect
<1>2. WriterInv' /\ at' \in [Requests -> Awaits \cup Writes \cup {"done"}]
  BY <1>1, MovesInv
<1>3. writer' \in Requests \cup {None} /\ loop' \in Coroutines \cup {None}
  BY <1>1, Zenon DEF Moves, IInv, TypeOK
<1>4. rounds' \in [Coroutines -> Nat]
  BY WriteRows DEF IInv, TypeOK
<1>5. TypeOK'
  BY <1>2, <1>3, <1>4, WriteRows DEF TypeOK
<1> QED BY <1>2, <1>5 DEF IInv

\* Every await that ends and every write keeps the invariant.
THEOREM NextInv == IInv /\ [Next]_vars => IInv'
<1> SUFFICES ASSUME IInv, [Next]_vars PROVE IInv'
  OBVIOUS
<1>1. CASE Next
  BY <1>1, ResumeInv, ProviderInv, WriteInv DEF Next
<1>2. CASE UNCHANGED vars
  BY <1>2, SMT DEF IInv, TypeOK, WriterInv, Keeping, vars, rows
<1> QED BY <1>1, <1>2

\* Every request is at a place of its kind, for any number of requests.
THEOREM TypeCorrect == Spec => []TypeOK
<1>1. IInv => TypeOK
  BY DEF IInv
<1> QED BY InitInv, NextInv, <1>1, PTL DEF Spec

\* Nobody waits in vain for a run or a turn, nor for a request that is itself waiting:
\* whoever has the lock is an indexer at its provider or at its files, or a handler that
\* is about to commit; for any number of requests of each kind.
THEOREM NobodyWaitsForRuns == Spec => []NobodyWaitsForARun
<1>1. IInv => NobodyWaitsForARun
  <2> SUFFICES ASSUME IInv, NEW r \in Requests, OnCpu(r), writer \notin {None, r}
               PROVE  \/ writer \in Indexers /\ at[writer] = "provider"
                      \/ /\ writer \in Indexers /\ at[writer] \in {"indexing", "publish"}
                         /\ loop = writer /\ r \in Routes
                      \/ writer \in Routes /\ at[writer] = "inserted"
    BY DEF NobodyWaitsForARun, Expired
  <2>1. writer \in Requests /\ WriterInv
    BY DEF IInv, TypeOK
  <2>2. at[writer] \in Keeping
    BY <2>1, Kinds
  <2>3. CASE at[writer] = "inserted"
    BY <2>1, <2>3, Kinds, Zenon
  <2>4. CASE at[writer] = "provider"
    BY <2>1, <2>4, Kinds, Zenon
  <2>5. CASE at[writer] \in {"indexing", "publish"}
    <3>1. writer \in Indexers /\ loop = writer
      BY <2>1, <2>5, Kinds, Zenon
    <3>2. r \in Routes
      BY <3>1 DEF OnCpu
    <3> QED BY <2>5, <3>1, <3>2
  <2> QED BY <2>2, <2>3, <2>4, <2>5, Zenon DEF Keeping
<1> QED BY InitInv, NextInv, <1>1, PTL DEF Spec
================================================================================
