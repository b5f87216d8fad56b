# Verification of CodeForge Agent

TLA+ models of the parts of CodeForge Agent (`src/agent`) whose correctness
depends on the order of awaits, commits, file operations and failures, the
TLC runs that check them on small instances, and TLAPS proofs that hold for
every value of the constants.

## 1. Inventory

| Component | State | Operations | Hard behaviour | What makes it correct |
|---|---|---|---|---|
| Agent run (`agent_runner.py`, `tools.py`, `pytest_tool.py`) | rows `agent_runs`, `agent_messages`, `tool_events`, `pytest_executions`; locals of the loop | `run`, `_execute_loop`, `_verify_repair`, `_persist_message`, `_fail_run`; `ToolExecutor.execute` | a timeout or a cancellation at any await; refused commits; numbering by literals; stale evidence; a bounded repair budget | a repair is called done only if the suite passed on its tree; every call answered; dense numbers; one final outcome |
| Patch transaction (`patch_service.py`, `patches.py`) | the working tree, a recovery directory | `parse_unified_diff`, `apply_hunks`; `execute` (validate, dry run, commit), rollback | headers that do not fit their lines, missing line feeds; failing file operations, other writers, cancellation after the commit, crash | a patch does what its headers declare; all or nothing; no edit of anybody else is lost; originals are saved |
| Conversation memory (`conversation_memory.py`, `conversations.py`) | row `conversations` (`is_running`, `summary`, `summary_through_turn`), rows `conversation_turns` | `append`, `prepare_history`, `_summarize` | concurrent requests, stale copies of the row, partial summaries, a claim that outlives its owner | one turn at a time; no dialogue is lost; the claim is given back |
| Git service, review (`git_service.py`, `git_tools.py`, `review_service.py`) | per-repository `asyncio.Lock`; the repository | branch, checkout, stage, unstage, commit, review snapshot | an await at every git command; people outside the lock; killed commands | a review is one moment; a commit is what was looked at; a checkout carries nothing over |
| Index and search (`indexing.py`, `embedding_index.py`, `embeddings.py`, `search.py`, `semantic_search.py`) | rows `indexed_files`, `code_chunks`, `chunk_embeddings`, `code_symbols`, the FTS table; a lock per repository | index, index with embeddings, four searches | a transaction held across awaits, an index replaced during a search, incremental skips, settings that change with a restart | the index is the tree; every chunk has a vector of the active model; a search sees all chunks |
| Process runner (`process_runner.py`) | a process group, two pipes, two captures | `run`, `_kill`, `_Capture.append` | timeout, cancellation, descendants that keep a pipe open | nothing of the group survives a run that got to its `try`; head and tail of the output are kept; the run returns |
| Test and analysis runners (`pytest_runner.py`, `static_analysis.py`) | none | `parse_summary`, `normalize_diagnostics`, the status of a result | a verdict drawn from an excerpt whose middle is gone | the verdict is that of the whole output; what is called clean is clean |
| Database (`database.py`, the sessions of all handlers) | one SQLite file | the commits of every request | one write lock, a busy timeout that blocks the event loop, a transaction that spans files and awaits | nobody waits for a run or a turn, nor for ever; outcomes are stored |
| Model and embedding clients, file access, settings, HTTP routes, schemas | none of their own | | external services, validation | |

Interactions: a route builds an `AgentRunner` (`agent_runs.py`) and, for a
conversation, hands it to `ConversationMemory.append`, which claims the
conversation, builds its history and lets the runner store the new turn
together with the new run. The runner awaits the model and the tool executor;
the executor awaits the tools, among them `PatchTool` (a patch transaction under
the repository lock) and `PytestTool` (which commits its own evidence row).
Everything is stored by SQLAlchemy transactions on one SQLite database, short ones
except that of an index request with embeddings.

## 2. Modules

`PROJECT.json` maps every definition to its lines; faulty variants (operators
named for the mistake, defined just before the operator they would replace) are
used for the mutation runs only and are part of no specification.

### AgentRunner
One run, from `idle` to one of `returned`, `raised` (a cancellation), `lost`
(the commit that records the failure is refused) and `crashed`. `pc` is the
await or the commit that comes next, so a step is exactly what can be separated
from its neighbours by a timeout, a refused commit or a crash. The rows are
variables that survive; `turn`, `reply`, `next`, `attempted`, `applied`,
`msgSeq` and `toolSeq` are the locals of `_execute_loop`. `tree` counts the edits
of this run on disk, so that evidence can be tied to a tree. The model may answer
with any sequence of calls to `apply_patch`, `run_pytest` or another tool;
`PatchRuns` allows what `PatchService` allows, the error after a successful write
included. Texts, token counts and tool payloads are abstracted.

### PatchService, PatchContract
`PatchService` is one call of `execute`: validation, the two passes of `_commit`,
each file replacement, `git diff`, and the rollback in reverse order, the removal
of created directories and the recovery directory. Any file operation may raise
before or after its effect, `rmdir` included, whose `OSError` is suppressed
(`patch_service.py:246`): a directory made for nothing may stay although the report is
"restored". The history variable `stuck` keeps such directories. Other writers change
files at any moment; the process may crash. A content is a model value: a hunk applies to the one old content it
names. `PatchContract` is the abstract transaction (all changes at one moment or
none; no directory left behind but one whose removal was tried and refused, which is its
action `Stick` or part of `Refuse`; incomplete only with saved originals; a crash leaves
anything). `ImplementsContract` maps the concrete tree to the abstract one by
undoing, while the commit is in flight, the changes it has already made.

### UnifiedDiff
`parse_unified_diff` line by line and `apply_hunks` hunk by hunk. The patch is not a
string: at every place the parser is in, any next line may come (`ReadOldPath`,
`ReadNewPath`, `ReadHunkHeader`, `ReadHunkLine`, `EndFile`, `EndPatch`), or one it has
no use for (`Unexpected`). Header numbers, paths and line kinds are chosen there; the
words of a line only when the hunk meets the text, because the parser does not look at
them. A line is its words (`Words` is what may stand on one that is not blank, and two
such lines may be joined) and whether it ends in a line feed, so blank
lines, missing line feeds and what `"".join` then does are the real ones (`Split`).

### ConversationMemory
Any number of requests for one conversation, each possibly in another process.
`Claim` is the conditional UPDATE with its commit, `Refresh` the read that still
stands before the `try`, `Select` the synchronous part of `prepare_history`,
`Summarize` one model call of `_summarize`, `Checkpoint` the commit of summary and
checkpoint, `ReadNumber` and `CreateTurn` the numbering of the new turn, `Release`
the `finally`. A summary is the set of dialogue pieces the model was shown;
`CompletedUpTo` is the query for the completed turns, a function of the last number.

### RepositoryIndex
`POST /index` for one repository, with and without embeddings, and semantic search,
as handlers of one event loop. `RepositoryIndexer.index` is synchronous, so while a
handler is `reading` no other handler moves (`LoopFree`); editors may still change
the tree between two files. `Begin` takes the lock (only with embeddings, as the
route does) and reads the vectors to reuse; `ReadFile` is one turn of the loop with
its skip of unchanged rows; `Finish` deletes rows and rebuilds the full-text rows;
`EmbedBatch` is one await of the provider; `Commit` stores or rolls back.
`SearchStart` counts the vectors, `SearchScan` uses them after the await. `Restart`
ends the process at any point and starts it with other settings. A text is a
sequence of lines, so that the chunks of `chunk_text` are the real ones.

### GitService
Callers of one `GitService` on one repository. A repository has commits, refs, HEAD,
an index, a working tree and possibly a stale `index.lock`; what the git commands do
to it is the section "What the git commands do". `Enter` takes `repository_lock`,
`Prepare` stands for the validating commands, `Check` for the state that is read
before a mutation, `Mutate` for the command that writes (it may be killed halfway),
`ResolveBase`, `ResolveRange`, `Names`, `ReadPatch` for the commands of
`review_diff`; a review of a branch that shares no history with HEAD ends with the error
of `git merge-base`. A patch writes and calls `git diff` under the same lock
(`WriteFile`, `DiffOfPatch`; its transaction is module PatchService). `Other` is
anybody outside the lock.

### ProcessRunner, CheckRunners
`ProcessRunner` is one call of `run` on a POSIX system. `Start` spawns the command;
`create_subprocess_exec` (`process_runner.py:84`) is still awaited then, outside the
`try`, until `Started`. A caller cancelled in between (`CancelStart`) leaves asyncio to
kill the command alone (`KillLeader`), and children it has already forked live on:
`NoSurvivors` names this exception. The command may fork, redirect its output, leave the process group, write and exit as it likes; `Drain`
reads any number of bytes up to `ReadSize` and feeds them to `Collect`, which is
`_Capture.append`. `Return`, `Timeout`, `Cancel`, `CancelAgain` and `Reaped` are the
ways through the `try` statement, each with the kill of its `finally`. Bytes are
numbered in the order they are written, so "head and tail" can be stated exactly.

`CheckRunners` extends it with what `PytestRunner.run` and `StaticAnalysisRunner.run`
make of the result. It adds no state: for the positions the captures have kept, and
for every output the command may have written there (a symbol per byte: an item of a
totals line, its end, a record, junk, an end of line), `Excerpt` is the text with the
truncation marker, and `Verdict` and `AnalysisStatus` are what the runners return. The
exit code is 0, 1 or that of a signal; pytest's 2 to 5 are left out, for which the status
follows from the code and the same counts.

### SharedDatabase
All requests of one service process, one SQLite file, one event loop. Each request
is reduced to its awaits and its writes: `Resume` lets a coroutine run from an
await to its next write, `Commits` takes and gives back the write lock in one call,
`Refuses` is the `OperationalError` of the busy timeout, during which a coroutine keeps
the whole loop; nothing is assumed of how long a holder keeps the lock (`Expired`). Index
requests keep it from their first `Flush` on: on the loop, while the remaining files are
read and chunked and the text index is rebuilt (`Indexed`), and over the await of the
provider; a service without embeddings goes from `Indexed` straight to `Publish`.
`Insert` and `CommitInsert` are ordinary handlers in threads of their own, the only
requests that can wait for an indexer on the loop.
The other modules treat a refused commit as a fault from outside; here it is explained.

## 3. Runs

| Run | Question | Bounds |
|---|---|---|
| `agent` | evidence, numbering, answered calls, mixed batches, repair budget, final outcome, every run settles | 3 turns, 3 calls in the run, 2 repairs, 2 refused commits |
| `patch` | others' edits, nobody's file is lost, the transaction implements the contract | 2 files (one in a missing directory), 3 contents, all patches of 1 or 2 changes, 3 failures, 2 foreign edits |
| `patch_errors` | finding: a failure reported after the patch was written in full | the same without foreign edits |
| `diff` | a patch does what its headers declare, and its inverse restores the text | 2 files, 2 hunks, 3 hunk lines, numbers to 2, texts of 2 lines |
| `conversation_turns` | one turn at a time, numbering, complete history within the budget, the checkpoint, the claim is given back | 4 requests, turns costing 1, 2 or 3 of a budget of 3 with 1 reserved, 2 pieces per turn, 1 fault |
| `conversation_busy` | finding: busy without a running turn | 2 requests |
| `index` | the index is the tree, every chunk is embedded and found, nothing is sent twice, every request ends | 2 files, 2 texts, 3 settings, 2 requests, 1 search, 1 edit, 1 restart, 1 fault, batches of 1 |
| `database` | who keeps whom from writing; every request ends | 3 index requests on 2 repositories, a run, a turn, a threaded handler, 2 answers of each provider |
| `database_lost` | finding: the commit of a failed run's outcome is refused, and it is left RUNNING | an index request and a run |
| `git` | snapshots, commits, checkouts, every call ends | 2 callers, 2 calls, 2 files, 2 versions, 2 branches, 3 start states, 1 outside step, 1 fault |
| `process` | no survivors, head and tail, whole results, the run returns; verdicts drawn from an excerpt | a leader and 2 descendants, 1 of them in its own session, 6 bytes of which 5 are kept, every output of 6 symbols, 2 diagnostics |
| `process_timeout` | finding: the deadline does not bound the run | a leader and 1 descendant |

Three calls are what a mixed batch (a patch applied, a later one rejected) with
something before or after it needs, and, one to a turn, what a third repair against a
budget of two needs; two changes are what a partial commit needs, and three
failures let the commit, the rollback and the recovery fail in the same behaviour. Two
hunks are what an overlap needs, three lines let one hunk remove and add and the other
shift. Four requests let a summary be made on top of a summary. Two texts that share a
line let a vector be reused across files; three settings differ in model, chunk size
and whether there are embeddings, so a restart invalidates rows for each reason. One
step of somebody else is enough to fall between any two commands of a Git call, and
two calls are what the lock keeps apart. Two indexers of one repository queue behind
its lock while a third holds the database. Six bytes cut a totals line of two
items anywhere. Between them the pass runs take every action of every next-state
relation.

Fairness: `AgentRunner` assumes weak fairness of the coroutine, because each await
of `run` stands under `asyncio.timeout` and a coroutine is scheduled when it can
run. `ConversationMemory` assumes the same for each request (its model calls stand
under a timeout of their own, and a run settles). `RepositoryIndex` and `GitService`
add strong fairness of taking the lock: `asyncio.Lock` wakes its waiters in FIFO
order, so a waiter cannot be overtaken for ever; the provider and every git command
end by their timeouts. `SharedDatabase` is weakly fair to every write (the driver's
busy timeout ends the waiting) and strongly fair to `Resume`: the loop's ready queue
is FIFO, so a coroutine whose await is over is not passed over for ever, although the
loop is taken again and again. `ProcessRunner` is fair to the drain loop and to the
runner's own steps, its deadline included, and assumes nothing of the command.
Crashes, restarts, faults, cancellations and the steps of other people are never fair.
`CHECK_DEADLOCK FALSE` stands where the system stops: a run, a patch or the last
request is over.

### Disagreements

The violation runs show where the code and what is written about it part; each
is described in `PROJECT.json`. The one across components is `database_lost`:
`index_with_embeddings` flushes the new index and then awaits its provider with
SQLite's write lock. A run whose model fails in that time stores its outcome in
`_fail_run`: it blocks the event loop until the busy timeout, so the provider's answer
cannot be taken either, then its commit is refused, nobody catches that, and the row stays
RUNNING. (A message commit that is refused leads to `_fail_run` too, with the lock still
taken.) `EveryRequestEnds` shows that the two never wait for each other for ever.

Met on the way and not given a run:
- A caller that is cancelled while the command of a test or an analysis is being started
  leaves the children the command already has (`process_runner.py:84`): the `finally` that
  kills the group belongs to the `try` of line 115. `CancelStart` does what the code does.
- A write run that is interrupted while `git diff` is awaited after the patch was
  written (`patch_service.py:110`) leaves an edit without a tool event: `CancelledError`
  passes by the handlers of `ToolExecutor.execute`. `Interrupt` models it.
- A file that can no longer be read keeps its old chunks through a reindex
  (`indexing.py:147`), although "Reindex after editing to refresh search"
  (`src/README.md:76`). `ReadFile` does what the code does; `MirrorsTree` speaks of
  readable and absent files only.
- When the recovery directory of a failed rollback cannot be written
  (`patch_service.py:249`), the error is an ordinary filesystem failure and originals
  are gone. `OriginalsRecoverable` speaks of the other outcomes.
- A killed git mutation may leave `index.lock` behind (`git_service.py:98`), after
  which every later index command of the service fails. It is part of `Mutate`.
- A totals line that the captures cut at the start of the kept end can look whole
  with fewer counts, and when the last totals line is lost in the middle an earlier
  one in the head is read instead (`pytest_runner.py:40`). `VerdictOfWholeOutput` says
  when the verdict can be relied on: as long as the end holds the last totals line.
- An added last line that is blank and has no line feed leaves nothing in the text, so
  the file has a line less than the hunk header declares (`patches.py:115`, `LeavesNoTrace`).

## 4. Proofs

`AgentRunnerProofs` proves, for every limit, every number of tool calls and every
number of refused commits, that `IInv` is inductive and that type correctness,
`CompletedRepairWasTested`, `SequencesDense`, `CallsAnswered`, `RepairsBounded`,
`EveryPatchBatchVerified` and `TerminalIsFinal` follow. The invariants are not
inductive by themselves: `IInv` adds where the counters stand between two rows
(`CounterInv`), which tool call of the last row is pending (`PendingInv`), how far
the attempts are ahead of the verifications (`BudgetInv`), that an unverified patch
belongs to the current batch (`PatchInv`), that the runner's evidence has a number
below `toolSeq` or is of the present tree (`EvidenceInv`), and at which places a
status can have been stored (`StatusInv`). The only assumption is
`LimitsAssumption`, the checks of `AgentRunner.__init__`.

`PatchServiceProofs` proves, for any files, patches of any length, any directories,
any number of failures and any steps of other writers, type correctness,
`OthersEditsSurvive` and `OriginalsRecoverable`. The argument: the attempted changes
are a prefix of the patch (`IndexInv`); a target is written only right after it was
found to hold what the change expects, or something raced in between (`CheckedInv`);
as long as a file is not attempted and nobody touched it, it is as at the start
(`StartInv`); the rollback goes through the prefix from its end, and behind it every
change is undone, touched by others, or marked as a failure (`UndoneInv`). A report is
therefore true when it is made, and nothing moves after it but others (`ReportInv`).
The assumption is `PatchAssumption`: a patch names known files and no foreign content.

The same module proves, for the same instances, that `PatchService` implements
`PatchContract` (`ImplementsTheContract`). Four facts are added to the invariant: the
commit has written every change before the one at hand (`DoneInv`), a file lies in an
existing directory (`PlacedInv`), a directory is made for a file that the patch creates
(`CreatedInv`), and what rmdir leaves is in use or was refused (`LeftInv`). `SeenUndone` says what the
mapping shows: a pending file with the old content of its one change, any other as it is
on disk. Then every action is mapped by a lemma of its own: the last `Write` is the
contract's `Commit` (`CommitMaps`), a finished rollback its `Refuse`, `Recover` its
`Incomplete` for the changes still on disk, and a step inside `_commit` changes
nothing, except that a failed write of a file somebody raced for shows that edit, and
that refused removals before `Recover` are the contract's `Stick` (`InsideMaps`). `ChangeAssumption` (a file patch names an old or a new file,
`patches.py:87`) is needed once: a directory made for a created file is not left empty
by a commit.

`SharedDatabaseProofs` proves, for any number of requests of each kind, type
correctness and `NobodyWaitsForARun`. `WriterInv` says at which places a request has the
lock (`Keeping`): between an indexer's first flush and its commit, where it is on the loop
or at its provider, and between a handler's `INSERT` and `COMMIT`. A run or a turn comes to
none of them between two steps, and whoever waits for the lock is elsewhere, so it never
waits for one that waits; every step takes
a request to a place whose kind fits what it does to the lock (`MovesInv`, `WriteEffect`).

`ConversationMemoryProofs` proves, for any set of requests, any costs and budgets and
any number of database faults, `OneTurnAtATime` and `TurnsNumbered`. The second rests
on the first: `max(sequence_number)` is read in one transaction and the turn is stored
in another, and `NumberInv` says that what a request has read is still the last number
when it stores its turn. A step preserves it because only the one request that works on
the conversation appends. `Types` is the part of the type invariant the argument needs.

On top of these stand the histories: type correctness, `HistoryComplete`, `WithinBudget`
and `CheckpointAdvances`. A history is selected, evicted, summarized piece by piece and
committed in steps between which anything may fail, so `HInv` says where the dialogue is
at each of them. `RowsInv`: the stored summary is exactly the dialogue of the completed
turns it claims to cover. `Summarizing`: what is evicted is in the summary in the making
or still in the transcript, and what is kept verbatim begins after it and fits beside a
summary. `Ready`: a history to be sent is the list of all completed turns after the
checkpoint. `Progress` adds that the turn a request is running is not covered by the
summary, without which settling it would make the summary incomplete. What the select
returns (`Selected`), where it is cut (`CutList`, `FirstRetainedFits`) and what a list
costs (`CostOfTurns`) are lemmas, proved by induction over the numbers of turns.
The assumption is `BudgetAssumption`: the limits are natural numbers, and the tokens
reserved for a summary are part of the budget.

`RepositoryIndexProofs` proves, for any files, texts, settings, batch sizes and numbers
of requests, searches, edits, restarts and faults, type correctness,
`NothingPaidTwice`, `MirrorsTree`, `ReindexRepairs` and `SearchComplete`. What a request
has read is the tree, as far as it has come and as long as nobody edits (`Reads`); what
waits for its vectors is complete otherwise (`Prepared`); a request knows every vector
that is stored (`Knows`), which holds because with embeddings enabled the lock admits
one request at a time (`Alone`): a second one could store vectors the first does not
know of. While a query is embedded every chunk keeps a vector (`Searched`), for the only
commits that can come in between are of requests that leave one everywhere. The chunks
are those of the text they come from (the types), so a row that is skipped as unchanged
is the row that would be written; that the chunks, joined, are the text again is an
induction over their number (`Flattened`). `IndexAssumption` and `TreesAssumption`: batches and chunk sizes are
positive, and a path holds a text, something unreadable or nothing.

`GitServiceProofs` proves, for any callers, branches, files, histories and numbers of
calls, outside steps and faults, type correctness (`TypeOK`: the repository stays
well formed and the lock belongs to the one call that is past it), `ReviewIsSnapshot`,
`CommitsWhatWasStaged` and `CheckoutStartsClean`. The first half shows of every git
command that it keeps the repository well formed and changes no commit (`Sound`); so the
commits a branch review has resolved stay what they were even while others work
(`RangeInv`, `PatchesInv`). Everything else a call knows (`MutationInv`: the index that was
found staged, the tree that was found clean) is kept by the lock until somebody outside
writes, which `disturbed` records. `GitAssumption` keeps branch names apart from the
modes of a review, `StartAssumption` is that of a repository: a commit's parent is an
earlier commit, and HEAD names a branch that exists or a commit.

`ProcessRunnerProofs` proves, for any descendants, any size of the output, of a read and
of the two captures, type correctness, `HeadAndTailKept`, `ResultIsWhole` and
`NoSurvivors`. Lemma `CollectKeeps` is the argument about `_Capture.append`: with the
bytes of the output numbered, head and tail are the intervals `Kept` describes, and
appending the next n bytes leaves the intervals of the longer output. `ExitInv` ties
`exit` to the death of the leader and to the place of the runner, `EndInv` says who can
be alive before the start, after the end, and after a start that was cancelled; without them a return could follow a state
in which a process of the group is still to be born or to die. The assumption is
`RunnerAssumption`: sizes are natural numbers, and the started process is not one of
its own descendants.

On `HeadAndTailKept` rest the verdicts: `VerdictOfWholeOutput` and `NothingHidden`, for
outputs of any length. `ExcerptIs` describes the excerpt symbol by symbol; where two texts
end alike from an end of line on, they have the same totals lines there (`EndAlike`,
`SameTotals`), so the last one, if the kept end holds it, is the last one of both. An
analysis is complete only if nothing was truncated, and then each record of the output is
a diagnostic of its own (`FindingIsReported`).

`UnifiedDiffProofs` proves, for patches of any number of files, hunks and lines, header
numbers and words, against texts of any length, type correctness,
`AppliesWhatItDeclares` and `InverseRestores`. Neither property is inductive, for both
speak of a patch that is over; `Inv` says where each applied hunk is while the patch is
at work. `ParsedInv`: a hunk the parser has closed has as many lines as its header
declares (`Complete`), which is what makes the positions of `apply_hunks` add up.
`AllFit`: each applied hunk stands in both texts at its declared place, and what lies
between it and the hunk before it is the same in both (`Fits`); a hunk keeps fitting when
lines are put out after it (`FitsOn`), and one that is placed and matches fits in its turn
(`Grows`). `DoneInv`: the rest was carried over, and no line but the last lacks its line
feed. From here `AppliesWhatItDeclares` is read off (`Declared`), because such an output is
written and read again as it is (`SplitWhole`). For `InverseRestores`, read backwards a
hunk has its old and new lines exchanged (`BothWays`), and by induction over the hunks the
text restored up to the kth is the old text up to there (`BackStep`). That the lines of a
hunk are as many as are counted, and depend on nothing but their kinds and contents, is
an induction over the recursive function of `Lines` (`LinesAre`, `LinesAlike`). The
assumption is `DiffAssumption`: the bounds are natural numbers.

Inductions over recursive functions and folds are proved with sets: a set of natural
numbers that has 0, and with each number the next, has them all. The set is that of the
numbers for which the claim holds. This lemma (`NatSetInduction`), and those of least and
greatest numbers it stands on, precede the proofs in each module that needs them.

Only model-checked: liveness (`RunSettles`, `ClaimReleased`, `IndexEnds`, `CallsEnd`,
`EveryRequestEnds`, `ReturnsUnlessEscaped`), which is out of the prover's reach. Every
invariant and every safety property of a step that a passing run checks is also a
theorem. The violation runs are counterexamples and need no proof.

## 5. Not modelled

Path rules, redaction, JSON bounding, the detection of a pytest or analyser
configuration, the fields of a diagnostic, the chunking of prompts and the translation
of requests and responses of the model APIs are functions on strings and documents; the
HTTP routes keep no state; read-only Git and repository tools change nothing. Schema
upgrades run before anything else. `changed_lines` of a patch only informs. UTF-8 is not
modelled: a byte that is cut in half shows as a replacement character in an excerpt. Two
agent runs that share one working tree are not composed: no document promises what
the suite of one says of a tree another run is patching (`pytest_tool.py:48`).

## 6. Plan

Built in this order, because the service's promises rest on them: the agent
run, the patch transaction with its contract, the conversation, the index, the Git
service, the process runner; then the database they share, the verdicts drawn from a
captured output, and the diff that a patch is. Left:

1. Two write runs over one tree, once it is decided what their verdicts should mean.
2. Pure algorithms on small inputs against reference definitions: `changed_lines`,
   the bounding of JSON, the fusion of ranks in a search.
