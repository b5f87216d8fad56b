---------------------------- MODULE RepositoryIndex ----------------------------
(***************************************************************************)
(* The search index of one repository: POST /index with and without        *)
(* embeddings, and semantic search, as handlers of one event loop.         *)
(*                                                                         *)
(* RepositoryIndexer.index is synchronous, so while a request is "reading" *)
(* nothing else runs in the process, but editors outside it may change the *)
(* tree between two files.  With embeddings enabled the handler holds the  *)
(* repository's asyncio lock, and it gives the loop back, its transaction  *)
(* open, at every await of the embedding provider.                         *)
(*                                                                         *)
(* A text is a sequence of lines; language and symbols are functions of    *)
(* path and text and are left out, as are scores and limits of a search.   *)
(***************************************************************************)
EXTENDS Integers, Sequences, FiniteSets, SequencesExt

CONSTANTS
  Files,        \* paths, numbered in the order of list_files
  Texts,        \* contents a file may have
  Trees,        \* working trees to start from
  Settings,     \* what the process may be started with: embeddings_enabled, the
                \* model_key of its client, index_chunk_size_lines
  BatchSize,    \* embedding_batch_size
  Indexers,     \* callers of POST /index
  Searches,     \* callers of a semantic or hybrid search
  MaxRequests,  \* bound: index requests
  MaxEdits,     \* bound: edits of the tree
  MaxRestarts,  \* bound: restarts of the process
  MaxFaults     \* bound: failures, cancellations and damaged vectors

ASSUME IndexAssumption ==
  /\ Files \subseteq Nat
  /\ \A t \in Texts : t \in Seq(Range(t))
  /\ \A x \in Settings : x.embeddings \in BOOLEAN /\ x.size \in Nat \ {0}
  /\ BatchSize \in Nat \ {0}

VARIABLES
  tree,      \* Files -> what the path holds
  settings,  \* of the running process
  db,        \* committed rows: [files, fts]
  index,     \* Indexers -> state of the handler
  search,    \* Searches -> state of the handler
  budget     \* requests, edits, restarts and faults so far

vars == <<tree, settings, db, index, search, budget>>

Entry == [kind : {"text"}, text : Texts] \cup [kind : {"absent", "unreadable"}]

ASSUME TreesAssumption == Trees \subseteq [Files -> Entry]

\* A handler that is not running, and whether its last request was stored.
Ended(outcome) ==
  [pc |-> "idle", outcome |-> outcome, listed |-> {}, todo |-> {}, rows |-> <<>>,
   fts |-> {}, cache |-> {}, missing |-> {}, edited |-> FALSE]
Quiet == [pc |-> "idle", answer |-> "none", found |-> {}]

--------------------------------------------------------------------------------
(* Rows *)

\* chunk_text: consecutive runs of at most size lines.
ChunkText(text, size) ==
  [n \in 1..((Len(text) + size - 1) \div size) |->
     SubSeq(text, (n - 1) * size + 1, Min({n * size, Len(text)}))]

\* A file's row with chunks that have no vector yet.
FileRow(text, size) ==
  [text |-> text, size |-> size,
   chunks |-> [n \in DOMAIN ChunkText(text, size) |->
                 [text |-> ChunkText(text, size)[n], embedding |-> {}]]]

Chunks(rows) == UNION {Range(rows[f].chunks) : f \in DOMAIN rows}

\* What sync_repository_fts inserts for these rows.
FtsRows(rows) ==
  UNION {{<<f, n, rows[f].chunks[n].text>> : n \in DOMAIN rows[f].chunks} :
           f \in DOMAIN rows}

\* The chunk has a sound vector of its text in the vector space.
Usable(chunk, key) ==
  \E e \in chunk.embedding : e.key = key /\ e.of = chunk.text /\ e.valid

\* The vectors read back before the index is refreshed.
Reusable(rows, key) == {c.text : c \in {d \in Chunks(rows) : Usable(d, key)}}

\* Faulty variant: only a chunk without a vector receives one.
EmbeddedIfMissing(chunk, key) ==
  IF chunk.embedding # {} THEN chunk
  ELSE [chunk EXCEPT !.embedding = {[key |-> key, of |-> chunk.text, valid |-> TRUE]}]

\* The chunk with its vector, in place of the one it may have.
Embedded(chunk, key) ==
  [chunk EXCEPT !.embedding = {[key |-> key, of |-> chunk.text, valid |-> TRUE]}]

WithVectors(rows, key) ==
  [f \in DOMAIN rows |-> [rows[f] EXCEPT !.chunks =
     [n \in DOMAIN @ |-> Embedded(@[n], key)]]]

--------------------------------------------------------------------------------
(* Scheduling *)

Init ==
  /\ tree \in Trees
  /\ settings \in Settings
  /\ db = [files |-> <<>>, fts |-> {}]
  /\ index = [i \in Indexers |-> Ended("none")]
  /\ search = [s \in Searches |-> Quiet]
  /\ budget = [requests |-> 0, edits |-> 0, restarts |-> 0, faults |-> 0]

\* No handler is between two awaits.
LoopFree == \A i \in Indexers : index[i].pc # "reading"

\* asyncio.Lock of the repository: taken from Begin until the request ends.
LockFree == \A i \in Indexers : index[i].pc \in {"idle", "waiting"}

Fault ==
  /\ budget.faults < MaxFaults
  /\ budget' = [budget EXCEPT !.faults = @ + 1]

--------------------------------------------------------------------------------
(* POST /repositories/{id}/index *)

Request(i) ==
  /\ index[i].pc = "idle" /\ budget.requests < MaxRequests
  /\ index' = [index EXCEPT ![i] = [Ended("none") EXCEPT !.pc = "waiting"]]
  /\ budget' = [budget EXCEPT !.requests = @ + 1]
  /\ UNCHANGED <<tree, settings, db, search>>

\* The state in which index starts to read: listing, rows, vectors to reuse.
Started ==
  LET listed == {f \in Files : tree[f].kind # "absent"} IN
  [Ended("none") EXCEPT !.pc = "reading", !.listed = listed, !.todo = listed,
     !.rows = db.files,
     !.cache = IF settings.embeddings THEN Reusable(db.files, settings.key) ELSE {}]

\* Faulty variant: the handler does not wait for the repository's lock.
BeginUnlocked(i) ==
  /\ index[i].pc = "waiting" /\ LoopFree
  /\ index' = [index EXCEPT ![i] = Started]
  /\ UNCHANGED <<tree, settings, db, search, budget>>

Begin(i) ==
  /\ index[i].pc = "waiting" /\ LoopFree
  /\ settings.embeddings => LockFree
  /\ index' = [index EXCEPT ![i] = Started]
  /\ UNCHANGED <<tree, settings, db, search, budget>>

\* Faulty variant: a row is kept whatever chunk size it was made with.
UpToDateText(rows, f, text) == f \in DOMAIN rows /\ rows[f].text = text

\* The row was made from this text with this chunk size.
UpToDate(rows, f, text) ==
  f \in DOMAIN rows /\ rows[f].text = text /\ rows[f].size = settings.size

\* The next file in order.  One that cannot be read keeps the row it has.
ReadFile(i) ==
  LET f == Min(index[i].todo)
      rows == index[i].rows
      entry == tree[f] IN
  /\ index[i].pc = "reading" /\ index[i].todo # {}
  /\ index' = [index EXCEPT ![i].todo = @ \ {f},
       ![i].rows =
         IF entry.kind # "text" THEN rows
         ELSE IF UpToDate(rows, f, entry.text) THEN rows
         ELSE [g \in DOMAIN rows \cup {f} |->
                 IF g = f THEN FileRow(entry.text, settings.size) ELSE rows[g]]]
  /\ UNCHANGED <<tree, settings, db, search, budget>>

\* session.commit, or a refused one and its rollback.  The lock is released.
Commit(i, rows, fts) ==
  /\ \/ /\ db' = [files |-> rows, fts |-> fts]
        /\ index' = [index EXCEPT ![i] = Ended("stored")]
        /\ UNCHANGED budget
     \/ /\ Fault
        /\ index' = [index EXCEPT ![i] = Ended("none")]
        /\ UNCHANGED db
  /\ UNCHANGED <<tree, settings, search>>

\* Vectors for these rows are all at hand, or there are texts to send.
EmbedOrStore(i, rows, fts, missing) ==
  \/ missing = {} /\ Commit(i, WithVectors(rows, settings.key), fts)
  \/ /\ missing # {}
     /\ index' = [index EXCEPT ![i].pc = "embedding", ![i].rows = rows,
                               ![i].fts = fts, ![i].missing = missing]
     /\ UNCHANGED <<tree, settings, db, search, budget>>

\* Faulty variant: the full-text rows are made before the deletions are flushed.
FinishBeforeFlush(i) ==
  LET rows == Restrict(index[i].rows, DOMAIN index[i].rows \cap index[i].listed) IN
  /\ index[i].pc = "reading" /\ index[i].todo = {}
  /\ \/ ~settings.embeddings /\ Commit(i, rows, FtsRows(index[i].rows))
     \/ /\ settings.embeddings
        /\ EmbedOrStore(i, rows, FtsRows(index[i].rows),
                        {c.text : c \in Chunks(rows)} \ index[i].cache)

\* Rows of files that are gone are deleted and the full-text rows replaced.
Finish(i) ==
  LET rows == Restrict(index[i].rows, DOMAIN index[i].rows \cap index[i].listed) IN
  /\ index[i].pc = "reading" /\ index[i].todo = {}
  /\ \/ ~settings.embeddings /\ Commit(i, rows, FtsRows(rows))
     \/ /\ settings.embeddings
        /\ EmbedOrStore(i, rows, FtsRows(rows),
                        {c.text : c \in Chunks(rows)} \ index[i].cache)

\* The provider answers one batch; after the last one everything is stored.
EmbedBatch(i) ==
  /\ index[i].pc = "embedding" /\ LoopFree
  /\ LET missing == index[i].missing IN
     \E batch \in SUBSET missing :
       /\ Cardinality(batch) = Min({BatchSize, Cardinality(missing)})
       /\ EmbedOrStore(i, index[i].rows, index[i].fts, missing \ batch)

\* Faulty variant: the lock is not released when the provider fails.
AbortKeepingLock(i) ==
  /\ index[i].pc # "idle" /\ Fault
  /\ index' = [index EXCEPT ![i] =
       IF index[i].pc = "waiting" THEN Ended("none")
       ELSE [Ended("none") EXCEPT !.pc = "locked"]]
  /\ UNCHANGED <<tree, settings, db, search>>

\* The provider or a file operation fails, or the request is cancelled: rollback.
Abort(i) ==
  /\ index[i].pc # "idle" /\ Fault
  /\ index' = [index EXCEPT ![i] = Ended("none")]
  /\ UNCHANGED <<tree, settings, db, search>>

--------------------------------------------------------------------------------
(* Semantic search *)

Answer(s, answer, found) ==
  search' = [search EXCEPT ![s] = [pc |-> "idle", answer |-> answer, found |-> found]]

\* Faulty variant: vectors of any model are counted.
CountedOfAnyModel(chunk) == chunk.embedding # {}

\* The outer join finds a vector of the active model for the chunk.
Counted(chunk) == \E e \in chunk.embedding : e.key = settings.key

\* The vectors are counted, then the query is sent to be embedded.
SearchStart(s) ==
  /\ search[s].pc = "idle" /\ LoopFree /\ settings.embeddings
  /\ \/ /\ \E c \in Chunks(db.files) : ~Counted(c)
        /\ Answer(s, "reindex", {})
     \/ /\ Chunks(db.files) = {}
        /\ Answer(s, "results", {})
     \/ /\ Chunks(db.files) # {} /\ \A c \in Chunks(db.files) : Counted(c)
        /\ search' = [search EXCEPT ![s] = [Quiet EXCEPT !.pc = "embedding"]]
  /\ UNCHANGED <<tree, settings, db, index, budget>>

\* The rows joined with a vector of the active model, as they are now.
Scanned ==
  {x \in UNION {{f} \X DOMAIN db.files[f].chunks : f \in DOMAIN db.files} :
     \E e \in db.files[x[1]].chunks[x[2]].embedding : e.key = settings.key}

\* Each is validated before it is ranked.
SearchScan(s) ==
  /\ search[s].pc = "embedding" /\ LoopFree
  /\ \/ /\ \A x \in Scanned : Usable(db.files[x[1]].chunks[x[2]], settings.key)
        /\ Answer(s, "results",
                  {<<x[1], x[2], db.files[x[1]].chunks[x[2]].text>> : x \in Scanned})
     \/ /\ \E x \in Scanned : ~Usable(db.files[x[1]].chunks[x[2]], settings.key)
        /\ Answer(s, "reindex", {})
  /\ UNCHANGED <<tree, settings, db, index, budget>>

SearchFails(s) ==
  /\ search[s].pc = "embedding" /\ Fault
  /\ Answer(s, "none", {})
  /\ UNCHANGED <<tree, settings, db, index>>

--------------------------------------------------------------------------------
(* Everything else *)

\* An editor, a patch or a checkout changes one path.
Edit ==
  /\ budget.edits < MaxEdits
  /\ \E f \in Files, entry \in Entry :
       entry # tree[f] /\ tree' = [tree EXCEPT ![f] = entry]
  /\ index' = [i \in Indexers |->
       IF index[i].pc \in {"reading", "embedding"}
       THEN [index[i] EXCEPT !.edited = TRUE] ELSE index[i]]
  /\ budget' = [budget EXCEPT !.edits = @ + 1]
  /\ UNCHANGED <<settings, db, search>>

\* A stored vector is damaged: "malformed persisted evidence".
Damage ==
  /\ Fault
  /\ \E f \in DOMAIN db.files : \E n \in DOMAIN db.files[f].chunks :
       \E e \in db.files[f].chunks[n].embedding :
         /\ e.valid
         /\ db' = [db EXCEPT !.files[f].chunks[n].embedding =
                               {[e EXCEPT !.valid = FALSE]}]
  /\ UNCHANGED <<tree, settings, index, search>>

\* The process ends, at any point, and starts again with other settings.
Restart ==
  /\ budget.restarts < MaxRestarts
  /\ settings' \in Settings
  /\ index' = [i \in Indexers |-> Ended("none")]
  /\ search' = [s \in Searches |-> Quiet]
  /\ budget' = [budget EXCEPT !.restarts = @ + 1]
  /\ UNCHANGED <<tree, db>>

Step(i) == Begin(i) \/ ReadFile(i) \/ Finish(i) \/ EmbedBatch(i)

Next ==
  \/ \E i \in Indexers : Request(i) \/ Step(i) \/ Abort(i)
  \/ \E s \in Searches : SearchStart(s) \/ SearchScan(s) \/ SearchFails(s)
  \/ Edit \/ Damage \/ Restart

\* asyncio.Lock wakes its waiters in order, so a waiting handler is not
\* overtaken for ever; synchronous code runs on; the provider answers, or its
\* timeout aborts the request.
Spec ==
  /\ Init /\ [][Next]_vars
  /\ \A i \in Indexers : SF_vars(Begin(i)) /\ WF_vars(Step(i))

--------------------------------------------------------------------------------
(* Properties *)

Lines == UNION {Range(t) : t \in Texts}
Embedding == [key : {x.key : x \in Settings}, of : Seq(Lines), valid : BOOLEAN]

\* Types.  A row's chunks are those of its text and chunk size, and none is empty.
RowsOK(rows) ==
  /\ DOMAIN rows \subseteq Files
  /\ \A f \in DOMAIN rows :
       LET chunks == ChunkText(rows[f].text, rows[f].size) IN
       /\ rows[f].text \in Texts /\ \E x \in Settings : rows[f].size = x.size
       /\ Len(rows[f].chunks) = Len(chunks)
       /\ \A n \in DOMAIN chunks :
            /\ rows[f].chunks[n].text = chunks[n] /\ chunks[n] # <<>>
            /\ rows[f].chunks[n].embedding \subseteq Embedding
            /\ Cardinality(rows[f].chunks[n].embedding) <= 1

\* Variables hold values of their types in every state.
TypeOK ==
  /\ tree \in [Files -> Entry] /\ settings \in Settings
  /\ RowsOK(db.files) /\ \A i \in Indexers : RowsOK(index[i].rows)
  /\ \A i \in Indexers : /\ index[i].pc \in {"idle", "waiting", "reading", "embedding"}
                         /\ index[i].outcome \in {"none", "stored"}
                         /\ index[i].todo \subseteq index[i].listed
  /\ \A s \in Searches : search[s].answer \in {"none", "results", "reindex"}

\* Request i stores its work in this step.
Stores(i) == index[i].outcome # "stored" /\ index'[i].outcome = "stored"

\* The chunks put together are the text, in pieces of at most size lines.
Splits(row, text, size) ==
  /\ FlattenSeq([n \in DOMAIN row.chunks |-> row.chunks[n].text]) = text
  /\ \A n \in DOMAIN row.chunks : Len(row.chunks[n].text) \in 1..size
  /\ \A n \in 1..Len(row.chunks) - 1 : Len(row.chunks[n].text) = size

\* A reindex during which the tree does not change leaves the rows of every
\* readable file exactly as the tree and the settings say, none for a path that
\* is gone, and full-text rows equal to the chunks, whatever was indexed before
\* with other settings (the incremental skip of RepositoryIndexer.index).
MirrorsTree ==
  [][\A i \in Indexers : Stores(i) /\ ~index[i].edited =>
       /\ \A f \in Files :
            /\ tree[f].kind = "text" => /\ f \in DOMAIN db'.files
                                        /\ Splits(db'.files[f], tree[f].text, settings.size)
            /\ tree[f].kind = "absent" => f \notin DOMAIN db'.files
       /\ db'.fts = FtsRows(db'.files)]_vars

\* A reindex with embeddings leaves a sound vector of the active model on every
\* chunk, also when it reused rows of another model or with damaged vectors.
ReindexRepairs ==
  [][\A i \in Indexers : Stores(i) /\ settings.embeddings =>
       \A c \in Chunks(db'.files) : Usable(c, settings.key)]_vars

\* No text is sent to the provider for which the committed index has a sound
\* vector: overlapping requests reuse what the first one stored.
NothingPaidTwice ==
  \A i \in Indexers : index[i].pc = "embedding" =>
    index[i].missing \cap Reusable(db.files, settings.key) = {}

\* A semantic search that answers has compared the query with every chunk of
\* the index, in one vector space, although the index may have been replaced
\* while the query was being embedded.
SearchComplete ==
  [][\A s \in Searches :
       search'[s] # search[s] /\ search'[s].answer = "results" =>
         search'[s].found = FtsRows(db.files)]_vars

\* Every index request ends, and so does the wait of the next one for the lock.
IndexEnds == \A i \in Indexers : index[i].pc = "waiting" ~> index[i].pc = "idle"
================================================================================
