---------------------------- MODULE SharedDatabase -----------------------------
(***************************************************************************)
(* The requests of one service process and the SQLite file they share.     *)
(* Coroutines take turns on one event loop, from await to await; ordinary  *)
(* handlers run in threads of their own.  A write takes SQLite's one write *)
(* lock, which the commit or the rollback releases.  Whoever finds it      *)
(* taken waits inside the call, the whole loop with it if it is a          *)
(* coroutine, until the driver's busy timeout raises OperationalError.     *)
(*                                                                         *)
(* Index requests alone keep the lock while they do other things:          *)
(* RepositoryIndexer.index takes it with its first flush and then reads    *)
(* the rest of the files; with embeddings it is kept over the await of the *)
(* provider.  AgentRunner.run and                                          *)
(* ConversationMemory.append are modelled in full in modules of their own; *)
(* here only their commits and awaits count.                               *)
(***************************************************************************)
EXTENDS Naturals

CONSTANTS
  Indexers,   \* POST index
  Runs,       \* POST agent-runs
  Turns,      \* POST messages of a conversation, each of its own
  Routes,     \* ordinary handlers: register a repository, open a conversation
  RepositoryOf, \* the repository of each indexer
  MaxRounds,  \* bound: answers of the model in a run, batches of an indexer
  None        \* stands for nobody

Coroutines == Indexers \cup Runs \cup Turns
Requests == Coroutines \cup Routes

ASSUME RequestsAssumption ==
  /\ None \notin Requests
  /\ Routes \cap Coroutines = {}
  /\ Indexers \cap (Runs \cup Turns) = {}
  /\ Runs \cap Turns = {}
  /\ MaxRounds \in Nat

VARIABLES
  at,      \* where each request is: an await, or the next write
  loop,    \* the coroutine that is on the event loop
  writer,  \* the session that holds SQLite's write lock
  row,     \* agent_runs.status of a run's row
  claimed, \* conversations.is_running of a turn's conversation
  rounds   \* answers a request has had from its provider

rows == <<row, claimed>>
vars == <<at, loop, writer, rows, rounds>>

Awaits == {"arrived", "provider", "history", "model"}
Writes == {"flush", "indexing", "publish", "claim", "checkpoint", "create", "message", "finish", "fail",
           "release", "insert", "inserted"}

Init ==
  /\ at = [r \in Requests |-> IF r \in Routes THEN "insert" ELSE "arrived"]
  /\ loop = None /\ writer = None
  /\ row = [r \in Runs \cup Turns |-> "none"]
  /\ claimed = [r \in Turns |-> FALSE]
  /\ rounds = [r \in Coroutines |-> 0]

Go(r, place) == at' = [at EXCEPT ![r] = place]

\* The next await gives the loop away.
Await(r, place) == Go(r, place) /\ loop' = None

--------------------------------------------------------------------------------
(* The event loop: a coroutine whose await is over, with an answer or an exception, *)
(* runs up to its next write.                                                      *)

\* async with locks.setdefault(repository_id, asyncio.Lock()).  (A service without
\* embeddings does without it; there no index request is ever suspended.)
LockFree(r) == \A i \in Indexers \ {r} :
  RepositoryOf[i] = RepositoryOf[r] => at[i] \in {"arrived", "done"}

Resume(r) ==
  /\ r \in Coroutines /\ loop = None
  /\ \/ at[r] = "arrived" /\ r \in Runs /\ Go(r, "create") /\ UNCHANGED rounds
     \/ at[r] = "arrived" /\ r \in Turns /\ Go(r, "claim") /\ UNCHANGED rounds
     \/ /\ at[r] = "history" /\ UNCHANGED rounds
        /\ Go(r, "create") \/ Go(r, "checkpoint") \/ Go(r, "release")
     \/ at[r] = "arrived" /\ r \in Indexers /\ LockFree(r) /\ Go(r, "flush") /\ UNCHANGED rounds
     \/ /\ at[r] = "model"
        /\ \/ rounds[r] < MaxRounds /\ Go(r, "message")
           \/ Go(r, "finish") \/ Go(r, "fail")
        /\ rounds' = [rounds EXCEPT ![r] = @ + 1]
     \/ at[r] = "provider" /\ Go(r, "publish") /\ UNCHANGED rounds
  /\ loop' = r
  /\ UNCHANGED <<writer, rows>>

\* embed_texts has answered a batch, and the next one is asked for.
NextBatch(r) ==
  /\ at[r] = "provider" /\ loop = None /\ rounds[r] < MaxRounds
  /\ rounds' = [rounds EXCEPT ![r] = @ + 1]
  /\ UNCHANGED <<at, loop, writer, rows>>

\* embed_texts raises: rollback.
ProviderFails(r) ==
  /\ at[r] = "provider" /\ loop = None
  /\ Go(r, "done") /\ writer' = None
  /\ UNCHANGED <<loop, rows, rounds>>

--------------------------------------------------------------------------------
(* Writes, of a request that is on the loop or has a thread of its own. *)

OnCpu(r) == loop = r \/ r \in Routes

\* A commit that is let through: the lock is taken and given back in one call.
Commits(r) == OnCpu(r) /\ writer \in {None, r} /\ writer' = None /\ UNCHANGED rounds

\* Faulty variant: the driver waits as long as it takes.
NeverExpired(r) == FALSE

\* The busy timeout: somebody else has kept the lock for as long, in an await, on the
\* loop or in a thread.
Expired(r) == OnCpu(r) /\ writer \notin {None, r}

\* OperationalError: database is locked.
Refuses(r) == Expired(r) /\ UNCHANGED <<writer, rounds>>

\* A run is over: its handler returns, or append goes on with its finally.
Ends(r) == IF r \in Turns THEN Go(r, "release") /\ UNCHANGED loop ELSE Await(r, "done")

\* session.add(run) and commit, before the try of run.
Create(r) ==
  /\ at[r] = "create"
  /\ \/ /\ Commits(r) /\ Await(r, "model")
        /\ row' = [row EXCEPT ![r] = "running"] /\ UNCHANGED claimed
     \/ Refuses(r) /\ Ends(r) /\ UNCHANGED rows

\* Faulty variant: the message is flushed, and committed with the next one.
MessageFlushed(r) ==
  /\ at[r] = "message"
  /\ \/ /\ OnCpu(r) /\ writer \in {None, r} /\ writer' = r /\ Await(r, "model")
        /\ UNCHANGED rounds
     \/ Refuses(r) /\ Go(r, "fail") /\ UNCHANGED loop
  /\ UNCHANGED rows

\* _persist_message, or the event of a tool; its error is caught by run, which
\* calls _fail_run without an await in between.
Message(r) ==
  /\ at[r] = "message"
  /\ \/ Commits(r) /\ Await(r, "model")
     \/ Refuses(r) /\ Go(r, "fail") /\ UNCHANGED loop
  /\ UNCHANGED rows

\* The commit of the closing message and the status.
Finish(r) ==
  /\ at[r] = "finish"
  /\ \/ Commits(r) /\ Ends(r) /\ row' = [row EXCEPT ![r] = "completed"]
     \/ Refuses(r) /\ Go(r, "fail") /\ UNCHANGED <<loop, row>>
  /\ UNCHANGED claimed

\* _fail_run; nobody catches what its commit raises.
Fail(r) ==
  /\ at[r] = "fail"
  /\ \/ Commits(r) /\ row' = [row EXCEPT ![r] = "failed"]
     \/ Refuses(r) /\ UNCHANGED row
  /\ Ends(r) /\ UNCHANGED claimed

\* The UPDATE that claims the conversation, and its commit.
Claim(r) ==
  /\ at[r] = "claim"
  /\ \/ Commits(r) /\ Await(r, "history") /\ claimed' = [claimed EXCEPT ![r] = TRUE]
     \/ Refuses(r) /\ Await(r, "done") /\ UNCHANGED claimed
  /\ UNCHANGED row

\* prepare_history has a new summary to store; a refusal passes through append.
Checkpoint(r) ==
  /\ at[r] = "checkpoint"
  /\ \/ Commits(r) /\ Go(r, "create")
     \/ Refuses(r) /\ Go(r, "release")
  /\ UNCHANGED <<loop, rows>>

\* The finally of append.
Release(r) ==
  /\ at[r] = "release"
  /\ \/ Commits(r) /\ claimed' = [claimed EXCEPT ![r] = FALSE]
     \/ Refuses(r) /\ UNCHANGED claimed
  /\ Await(r, "done") /\ UNCHANGED row

\* The first flush of RepositoryIndexer.index, on the loop.
Flush(r) ==
  /\ at[r] = "flush"
  /\ \/ /\ OnCpu(r) /\ writer \in {None, r} /\ writer' = r /\ UNCHANGED rounds
        /\ Go(r, "indexing") /\ UNCHANGED loop
     \/ Refuses(r) /\ Await(r, "done")
  /\ UNCHANGED rows

\* The rest of it: files are read and chunked and the text index is rebuilt without an
\* await and without a commit.  Then to the provider, unless every chunk has its
\* vector already or the service has no embeddings.
Indexed(r) ==
  /\ at[r] = "indexing" /\ OnCpu(r)
  /\ \/ Await(r, "provider")
     \/ Go(r, "publish") /\ UNCHANGED loop
  /\ UNCHANGED <<writer, rows, rounds>>

Publish(r) == at[r] = "publish" /\ Commits(r) /\ Await(r, "done") /\ UNCHANGED rows

\* A handler in a thread: its insert takes the lock, its commit gives it back.
Insert(r) ==
  /\ at[r] = "insert"
  /\ \/ writer = None /\ writer' = r /\ Go(r, "inserted") /\ UNCHANGED rounds
     \/ Refuses(r) /\ Go(r, "done")
  /\ UNCHANGED <<loop, rows>>

CommitInsert(r) == at[r] = "inserted" /\ Commits(r) /\ Go(r, "done") /\ UNCHANGED <<loop, rows>>

Write(r) == \/ Create(r) \/ Message(r) \/ Finish(r) \/ Fail(r)
            \/ Claim(r) \/ Checkpoint(r) \/ Release(r)
            \/ Flush(r) \/ Indexed(r) \/ Publish(r) \/ Insert(r) \/ CommitInsert(r)

Next == \E r \in Requests : Resume(r) \/ NextBatch(r) \/ ProviderFails(r) \/ Write(r)

\* Providers answer or time out, the loop runs whoever is ready, the driver's
\* timeout expires.
Spec == Init /\ [][Next]_vars
        /\ \A r \in Requests : WF_vars(Write(r)) /\ SF_vars(Resume(r))

--------------------------------------------------------------------------------
(* Properties *)

\* Requests are at places of their own kind.
TypeOK ==
  /\ at \in [Requests -> Awaits \cup Writes \cup {"done"}]
  /\ loop \in Coroutines \cup {None} /\ writer \in Requests \cup {None}
  /\ row \in [Runs \cup Turns -> {"none", "running", "completed", "failed"}]
  /\ claimed \in [Turns -> BOOLEAN] /\ rounds \in [Coroutines -> Nat]

\* The places between a request's first write and its commit are those where it has
\* the lock; only indexers and handlers come there, and an indexer that is neither at
\* its provider nor over is on the loop.
Keeping == {"indexing", "provider", "publish", "inserted"}
WriterInv ==
  \A r \in Requests :
    /\ at[r] \in {"flush", "indexing", "provider", "publish"} => r \in Indexers
    /\ at[r] \in {"insert", "inserted"} => r \in Routes
    /\ r \in Routes => at[r] \in {"insert", "inserted", "done"}
    /\ at[r] \in Keeping <=> writer = r
    /\ at[r] \in {"indexing", "publish"} => loop = r

\* No two requests wait for each other for ever: although an indexer that waits for
\* its provider holds the lock, and a request that waits for the lock holds the loop
\* on which the provider's answer would be taken, every request comes to its end.
EveryRequestEnds == <>(\A r \in Requests : at[r] = "done")

\* Whoever waits for the write lock in vain waits for an index request, which is at its
\* provider or, if the one that waits is a thread, at its files on the loop; or for a
\* handler that is between its INSERT and its COMMIT.  Nobody waits for a run or for a
\* turn, whatever their model does, nor for a request that is itself waiting: for the
\* lock of its repository, or for the write lock.
NobodyWaitsForARun ==
  \A r \in Requests : at[r] \in Writes /\ Expired(r) =>
    \/ writer \in Indexers /\ at[writer] = "provider"
    \/ writer \in Indexers /\ at[writer] \in {"indexing", "publish"} /\ loop = writer /\ r \in Routes
    \/ writer \in Routes /\ at[writer] = "inserted"

\* What agent_runner.py:118 says of run, "persisting success or failure": a run that
\* is over is not left running.
OutcomePersisted == \A r \in Runs \cup Turns : at[r] = "done" => row[r] # "running"
================================================================================
