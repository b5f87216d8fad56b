------------------------------ MODULE AgentRunner ------------------------------
(***************************************************************************)
(* One agent run: AgentRunner.run, _execute_loop, _verify_repair,          *)
(* _persist_message and _fail_run of agent_runner.py, with the tool        *)
(* executor's event row (tools.py) and the evidence row of the pytest tool *)
(* (pytest_tool.py).                                                       *)
(*                                                                         *)
(* A step is what happens between two points where something else can go   *)
(* wrong: an await (which may be timed out or cancelled), a commit (which  *)
(* the database may refuse) or a crash of the process.  `run`,             *)
(* `transcript`, `events` and `evidence` are rows of the database and      *)
(* survive a crash; `tree` counts the edits this run has made on disk; the *)
(* other variables are locals of the coroutine.                            *)
(***************************************************************************)
EXTENDS Naturals, Sequences, FiniteSets

CONSTANTS
  MaxIterations,      \* AgentRunner.max_iterations
  MaxRepairAttempts,  \* AgentRunner.max_repair_attempts
  MaxCalls,           \* bound: tool calls of the model in one run
  MaxFaults           \* bound: commits the database refuses in one behaviour

ASSUME LimitsAssumption ==
  /\ MaxIterations \in Nat \ {0}
  /\ MaxRepairAttempts \in Nat \ {0}
  /\ MaxCalls \in Nat
  /\ MaxFaults \in Nat

VARIABLES
  pc,          \* where the coroutine is: an await, or the next commit
  kind,        \* run mode and type: read_only, write, or a bug_fix (write) run
  run,         \* the persisted agent_runs row
  transcript,  \* the persisted agent_messages rows, in insertion order
  events,      \* the persisted tool_events rows, in insertion order
  evidence,    \* the persisted pytest_executions rows
  tree,        \* edits of this run that are on disk
  turn,        \* iterations of the for loop already started
  reply,       \* tool calls of the current response
  text,        \* is the current response more than blank text?
  next,        \* index in reply of the current tool call
  attempted,   \* patch_attempted
  applied,     \* patch_applied
  toolError,   \* is_error of the tool result about to be recorded
  msgSeq,      \* next_message_sequence
  toolSeq,     \* tool_sequence
  cause,       \* which except clause of run is taken
  faults       \* commits refused so far

rows == <<run, transcript, events, evidence>>
locals == <<turn, reply, text, next, attempted, applied, toolError, msgSeq, toolSeq>>
vars == <<pc, kind, rows, tree, locals, cause, faults>>

Kinds == {"read_only", "write", "bug_fix"}
Tools == {"apply_patch", "run_pytest", "other"}
Causes == {"none", "exception", "timeout", "cancel"}

Awaits == {"context", "model", "tool", "verify"}
Commits == {"system", "user", "assistant", "complete", "call", "event", "results",
            "verifyCall", "verifyEvent", "evidence", "final", "unrepaired"}
Stopped == {"returned", "raised", "lost", "crashed"}
Locations == {"idle", "failing"} \cup Awaits \cup Commits \cup Stopped

Message == [seq : Nat,
            what : {"system", "user", "assistant", "results", "verifyCall",
                    "evidence", "final", "feedback"},
            calls : Nat, answers : Nat]
Event == [seq : Nat, tool : Tools, verify : BOOLEAN, error : BOOLEAN]
Execution == [seq : Nat, byModel : BOOLEAN, full : BOOLEAN, verified : BOOLEAN, tree : Nat]

--------------------------------------------------------------------------------

Init ==
  /\ pc = "idle"
  /\ kind \in Kinds
  /\ run = [status |-> "none", attempts |-> 0, verified |-> FALSE]
  /\ transcript = <<>> /\ events = <<>> /\ evidence = {}
  /\ tree = 0
  /\ turn = 0 /\ reply = <<>> /\ text = FALSE /\ next = 1
  /\ attempted = FALSE /\ applied = FALSE /\ toolError = FALSE
  /\ msgSeq = 3 /\ toolSeq = 1
  /\ cause = "none"
  /\ faults = 0

\* The first commit stands before the try of run: its failure is the caller's.
CreateRun ==
  /\ pc = "idle"
  /\ pc' = "context"
  /\ run' = [run EXCEPT !.status = "running"]
  /\ UNCHANGED <<kind, transcript, events, evidence, tree, locals, cause, faults>>

\* _persist_message: one row, committed at once, numbered by the caller.
Persist(seq, what, calls, answers) ==
  transcript' = Append(transcript,
                       [seq |-> seq, what |-> what, calls |-> calls, answers |-> answers])

\* The head of the for loop: another model turn, or the execution limit.
LoopHead == IF turn < MaxIterations THEN "model" ELSE "failing"
LoopCause == IF turn < MaxIterations THEN cause ELSE "exception"

BuildContext ==
  /\ pc = "context"
  /\ pc' = "system"
  /\ UNCHANGED <<kind, rows, tree, locals, cause, faults>>

PersistSystem ==
  /\ pc = "system"
  /\ Persist(1, "system", 0, 0)
  /\ pc' = "user"
  /\ UNCHANGED <<kind, run, events, evidence, tree, locals, cause, faults>>

PersistUser ==
  /\ pc = "user"
  /\ Persist(2, "user", 0, 0)
  /\ pc' = LoopHead
  /\ cause' = LoopCause
  /\ UNCHANGED <<kind, run, events, evidence, tree, locals, faults>>

--------------------------------------------------------------------------------
(* One model turn. *)

ModelReplies ==
  /\ pc = "model"
  /\ \E n \in 0 .. MaxCalls :
       /\ Len(SelectSeq(events, LAMBDA e : ~e.verify)) + n <= MaxCalls
       /\ reply' \in [1 .. n -> Tools]
       /\ text' \in IF n = 0 THEN BOOLEAN ELSE {TRUE}
  /\ turn' = turn + 1
  /\ pc' = "assistant"
  /\ UNCHANGED <<kind, rows, tree, next, attempted, applied, toolError, msgSeq, toolSeq,
                 cause, faults>>

\* A response without tool calls ends the run: a bug-fix run may not stop so,
\* and other runs need an answer that is not blank.
PersistAssistant ==
  /\ pc = "assistant"
  /\ Persist(msgSeq, "assistant", Len(reply), 0)
  /\ msgSeq' = msgSeq + 1
  /\ next' = 1 /\ attempted' = FALSE /\ applied' = FALSE
  /\ \/ /\ reply # <<>>
        /\ pc' = "call" /\ cause' = cause
     \/ /\ reply = <<>> /\ (kind = "bug_fix" \/ ~text)
        /\ pc' = "failing" /\ cause' = "exception"
     \/ /\ reply = <<>> /\ kind # "bug_fix" /\ text
        /\ pc' = "complete" /\ cause' = cause
  /\ UNCHANGED <<kind, run, events, evidence, tree, turn, reply, text, toolError,
                 toolSeq, faults>>

Complete ==
  /\ pc = "complete"
  /\ run' = [run EXCEPT !.status = "completed"]
  /\ pc' = "returned"
  /\ UNCHANGED <<kind, transcript, events, evidence, tree, locals, cause, faults>>

\* Faulty variant: every apply_patch of a response counts.
OpensEveryTime == kind = "bug_fix" /\ reply[next] = "apply_patch"

\* Only the first apply_patch of a response counts as a repair attempt.
OpensAttempt == kind = "bug_fix" /\ reply[next] = "apply_patch" /\ ~attempted

StartCall ==
  /\ pc = "call"
  /\ run' = IF OpensAttempt THEN [run EXCEPT !.attempts = @ + 1] ELSE run
  /\ attempted' = (attempted \/ OpensAttempt)
  /\ pc' = "tool"
  /\ UNCHANGED <<kind, transcript, events, evidence, tree, turn, reply, text, next,
                 applied, toolError, msgSeq, toolSeq, cause, faults>>

\* PatchService.execute as the executor sees it.  A patch can also reach the disk
\* and still be reported as an error: an OSError after the commit, or a rollback
\* that could not be completed (module PatchService).
PatchRuns ==
  /\ \/ kind # "read_only" /\ tree' = tree + 1 /\ toolError' \in BOOLEAN
     \/ tree' = tree /\ toolError' = TRUE
  /\ UNCHANGED evidence

\* The pytest tool commits its evidence before it returns to the executor.
PytestRuns(byModel, fullSuite) ==
  /\ \/ /\ kind # "read_only" /\ toolError' = FALSE
        /\ \E full \in fullSuite, verified \in BOOLEAN :
             evidence' = evidence \cup
               {[seq |-> toolSeq, byModel |-> byModel, full |-> full,
                 verified |-> verified, tree |-> tree]}
     \/ evidence' = evidence /\ toolError' = TRUE
  /\ UNCHANGED tree

ToolRuns ==
  /\ pc = "tool"
  /\ \/ reply[next] = "apply_patch" /\ PatchRuns
     \/ reply[next] = "run_pytest" /\ PytestRuns(TRUE, BOOLEAN)
     \/ reply[next] = "other" /\ toolError' \in BOOLEAN /\ UNCHANGED <<tree, evidence>>
  /\ pc' = "event"
  /\ UNCHANGED <<kind, run, transcript, events, turn, reply, text, next, attempted,
                 applied, msgSeq, toolSeq, cause, faults>>

RecordEvent(tool, verify) ==
  events' = Append(events,
                   [seq |-> toolSeq, tool |-> tool, verify |-> verify, error |-> toolError])

\* Faulty variant: the last patch of a batch decides alone.
LastPatchApplied ==
  IF reply[next] = "apply_patch" THEN kind = "bug_fix" /\ ~toolError ELSE applied

PatchApplied == applied \/ (kind = "bug_fix" /\ reply[next] = "apply_patch" /\ ~toolError)

PersistEvent ==
  /\ pc = "event"
  /\ RecordEvent(reply[next], FALSE)
  /\ toolSeq' = toolSeq + 1
  /\ applied' = PatchApplied
  /\ next' = next + 1
  /\ pc' = IF next = Len(reply) THEN "results" ELSE "call"
  /\ UNCHANGED <<kind, run, transcript, evidence, tree, turn, reply, text, attempted,
                 toolError, msgSeq, cause, faults>>

\* After the tool results: a bug-fix batch that applied a patch is verified, one
\* that only tried is counted, and anything else goes back to the model.
PersistResults ==
  /\ pc = "results"
  /\ Persist(msgSeq, "results", 0, next - 1)
  /\ msgSeq' = msgSeq + 1
  /\ \/ /\ attempted /\ applied
        /\ pc' = "verifyCall" /\ cause' = cause
     \/ /\ attempted /\ ~applied
        /\ pc' = "unrepaired" /\ cause' = cause
     \/ /\ ~attempted
        /\ pc' = LoopHead /\ cause' = LoopCause
  /\ UNCHANGED <<kind, run, events, evidence, tree, turn, reply, text, next, attempted,
                 applied, toolError, toolSeq, faults>>

--------------------------------------------------------------------------------
(* Verification of a bug-fix patch batch. *)

PersistVerifyCall ==
  /\ pc = "verifyCall"
  /\ Persist(msgSeq, "verifyCall", 1, 0)
  /\ pc' = "verify"
  /\ UNCHANGED <<kind, run, events, evidence, tree, locals, cause, faults>>

VerifyRuns ==
  /\ pc = "verify"
  /\ PytestRuns(FALSE, {TRUE})
  /\ pc' = "verifyEvent"
  /\ UNCHANGED <<kind, run, transcript, events, turn, reply, text, next, attempted,
                 applied, msgSeq, toolSeq, cause, faults>>

\* Faulty variant: a suite that could not be run is not fed back as evidence.
PersistVerifyEventNoFeedback ==
  /\ pc = "verifyEvent"
  /\ RecordEvent("run_pytest", TRUE)
  /\ pc' = IF toolError THEN "unrepaired" ELSE "evidence"
  /\ msgSeq' = IF toolError THEN msgSeq + 1 ELSE msgSeq
  /\ toolSeq' = IF toolError THEN toolSeq + 1 ELSE toolSeq
  /\ UNCHANGED <<kind, run, transcript, evidence, tree, turn, reply, text, next, attempted,
                 applied, toolError, cause, faults>>

PersistVerifyEvent ==
  /\ pc = "verifyEvent"
  /\ RecordEvent("run_pytest", TRUE)
  /\ pc' = "evidence"
  /\ UNCHANGED <<kind, run, transcript, evidence, tree, locals, cause, faults>>

\* Faulty variant: any passing test run of the agent run verifies the repair.
VerifiedByAnyExecution == \E e \in evidence : e.verified

\* The verdict is the evidence row of this very call: its identifier is a fresh
\* uuid, so a test run the model asked for is never taken for it.
Verified == \E e \in evidence : ~e.byModel /\ e.seq = toolSeq /\ e.verified

\* Faulty variant: the loop does not account for the verification's event.
CountMessagesOnly == msgSeq' = msgSeq + 2 /\ toolSeq' = toolSeq

\* The loop accounts for the two messages and the event of a verification.
CountVerification == msgSeq' = msgSeq + 2 /\ toolSeq' = toolSeq + 1

PersistEvidence ==
  /\ pc = "evidence"
  /\ Persist(msgSeq + 1, "evidence", 0, 1)
  /\ CountVerification
  /\ pc' = IF Verified THEN "final" ELSE "unrepaired"
  /\ UNCHANGED <<kind, run, events, evidence, tree, turn, reply, text, next, attempted,
                 applied, toolError, cause, faults>>

\* Faulty variant: the status is committed before the closing message.
PersistFinalInTwoCommits ==
  /\ pc = "final"
  /\ \/ /\ run.status = "running"
        /\ run' = [run EXCEPT !.status = "completed", !.verified = TRUE]
        /\ pc' = "final"
        /\ UNCHANGED transcript
     \/ /\ run.status = "completed"
        /\ Persist(msgSeq, "final", 0, 0)
        /\ pc' = "returned"
        /\ UNCHANGED run
  /\ UNCHANGED <<kind, events, evidence, tree, locals, cause, faults>>

\* One commit carries the closing message, the verdict and the status.
PersistFinal ==
  /\ pc = "final"
  /\ Persist(msgSeq, "final", 0, 0)
  /\ run' = [run EXCEPT !.status = "completed", !.verified = TRUE]
  /\ pc' = "returned"
  /\ UNCHANGED <<kind, events, evidence, tree, locals, cause, faults>>

AttemptsExhausted == run.attempts >= MaxRepairAttempts

PersistFeedback ==
  /\ pc = "unrepaired" /\ ~AttemptsExhausted
  /\ Persist(msgSeq, "feedback", 0, 0)
  /\ msgSeq' = msgSeq + 1
  /\ pc' = LoopHead
  /\ cause' = LoopCause
  /\ UNCHANGED <<kind, run, events, evidence, tree, turn, reply, text, next, attempted,
                 applied, toolError, toolSeq, faults>>

GiveUp ==
  /\ pc = "unrepaired" /\ AttemptsExhausted
  /\ pc' = "failing" /\ cause' = "exception"
  /\ UNCHANGED <<kind, rows, tree, locals, faults>>

--------------------------------------------------------------------------------
(* Failures. *)

\* The Git snapshot or the model client raises.
AwaitRaises ==
  /\ pc \in {"context", "model"}
  /\ pc' = "failing" /\ cause' = "exception"
  /\ UNCHANGED <<kind, rows, tree, locals, faults>>

InPytest == pc = "verify" \/ (pc = "tool" /\ reply[next] = "run_pytest" /\ kind # "read_only")
InPatch == pc = "tool" /\ reply[next] = "apply_patch" /\ kind # "read_only"

\* asyncio.timeout or a cancelled request throws into the await.  The executor
\* does not catch CancelledError, so no tool event is recorded; the pytest tool
\* leaves a cancelled evidence row; a patch may already be on disk, because the
\* patch service awaits `git diff` after it has written.
Interrupt ==
  /\ pc \in Awaits
  /\ cause' \in {"timeout", "cancel"}
  /\ pc' = "failing"
  /\ \/ InPytest /\ \E full \in BOOLEAN :
          /\ pc = "verify" => full
          /\ evidence' = evidence \cup
               {[seq |-> toolSeq, byModel |-> pc = "tool", full |-> full,
                 verified |-> FALSE, tree |-> tree]}
     \/ ~InPytest /\ evidence' = evidence
  /\ \/ tree' = tree
     \/ InPatch /\ tree' = tree + 1
  /\ UNCHANGED <<kind, run, transcript, events, locals, faults>>

\* The database refuses a commit (for instance "database is locked"): nothing of
\* it is stored and the exception leaves the loop.  A refused evidence row ends
\* the same way: the session needs a rollback, so the event cannot be stored either.
CommitFails ==
  /\ faults < MaxFaults
  /\ \/ pc \in Commits \ {"call", "unrepaired"}
     \/ pc = "call" /\ OpensAttempt
     \/ pc = "unrepaired" /\ ~AttemptsExhausted
     \/ InPytest
  /\ faults' = faults + 1
  /\ pc' = "failing" /\ cause' = "exception"
  /\ UNCHANGED <<kind, rows, tree, locals>>

\* Faulty variant: a cancellation passes through run without being recorded.
FailRunUnlessCancelled ==
  /\ pc = "failing"
  /\ run' = IF cause = "cancel" THEN run
            ELSE [run EXCEPT !.status = "failed",
                             !.verified = IF kind = "bug_fix" THEN FALSE ELSE @]
  /\ pc' = IF cause = "cancel" THEN "raised" ELSE "returned"
  /\ UNCHANGED <<kind, transcript, events, evidence, tree, locals, cause, faults>>

\* _fail_run; a cancellation is raised again afterwards.
FailRun ==
  /\ pc = "failing"
  /\ run' = [run EXCEPT !.status = "failed",
                        !.verified = IF kind = "bug_fix" THEN FALSE ELSE @]
  /\ pc' = IF cause = "cancel" THEN "raised" ELSE "returned"
  /\ UNCHANGED <<kind, transcript, events, evidence, tree, locals, cause, faults>>

\* The commit of _fail_run is refused too, or the first commit of run is.
FailureIsLost ==
  /\ pc \in {"idle", "failing"} /\ faults < MaxFaults
  /\ faults' = faults + 1
  /\ pc' = "lost"
  /\ UNCHANGED <<kind, rows, tree, locals, cause>>

Crash ==
  /\ pc \notin {"idle"} \cup Stopped
  /\ pc' = "crashed"
  /\ UNCHANGED <<kind, rows, tree, locals, cause, faults>>

--------------------------------------------------------------------------------

Turn == ModelReplies \/ PersistAssistant \/ Complete \/ StartCall \/ ToolRuns
        \/ PersistEvent \/ PersistResults
Verification == PersistVerifyCall \/ VerifyRuns \/ PersistVerifyEvent \/ PersistEvidence
                \/ PersistFinal \/ PersistFeedback \/ GiveUp
Progress == CreateRun \/ BuildContext \/ PersistSystem \/ PersistUser \/ Turn
            \/ Verification \/ AwaitRaises \/ Interrupt \/ CommitFails \/ FailRun
            \/ FailureIsLost
Next == Progress \/ Crash

\* Every await of the loop stands under asyncio.timeout, so each of them ends;
\* between two awaits the coroutine is scheduled without waiting for anybody.
Spec == Init /\ [][Next]_vars /\ WF_vars(Progress)

--------------------------------------------------------------------------------
(* Properties. *)

TypeOK ==
  /\ pc \in Locations
  /\ kind \in Kinds
  /\ run \in [status : {"none", "running", "completed", "failed"},
              attempts : Nat, verified : BOOLEAN]
  /\ transcript \in Seq(Message)
  /\ events \in Seq(Event)
  /\ evidence \in SUBSET Execution
  /\ tree \in Nat
  /\ turn \in Nat
  /\ reply \in Seq(Tools)
  /\ text \in BOOLEAN
  /\ next \in Nat \ {0}
  /\ attempted \in BOOLEAN /\ applied \in BOOLEAN /\ toolError \in BOOLEAN
  /\ msgSeq \in Nat /\ toolSeq \in Nat
  /\ cause \in Causes
  /\ faults \in Nat

WasTested == \E e \in evidence : ~e.byModel /\ e.full /\ e.verified /\ e.tree = tree

\* A bug-fix run that is reported completed, and any run reported verified, has
\* passing evidence of the full suite, produced by the runner's own call on the
\* very tree the run leaves behind (agent_runner.py, _verify_repair): neither a
\* test run of the model nor evidence older than the last edit is enough.
CompletedRepairWasTested ==
  (kind = "bug_fix" /\ run.status = "completed") \/ run.verified => WasTested

\* The literal 1 and 2, the counters of the loop and the +2 and +1 after a
\* verification never collide and leave no gap: the rows of a run are numbered
\* 1, 2, 3, ... as its unique constraints and the replay of a conversation need.
SequencesDense ==
  /\ \A i \in DOMAIN transcript : transcript[i].seq = i
  /\ \A i \in DOMAIN events : events[i].seq = i

\* Whatever the model is sent next, and whatever a later turn of the conversation
\* replays from a completed run: every message with tool calls is answered, in
\* full, by the message after it.
CallsAnswered ==
  pc = "model" \/ run.status = "completed" =>
    \A i \in DOMAIN transcript : transcript[i].calls > 0 =>
       /\ i + 1 \in DOMAIN transcript
       /\ transcript[i + 1].answers = transcript[i].calls

VerifyEvents == {i \in DOMAIN events : events[i].verify}

\* Repairs are bounded: no more batches are tried than max_repair_attempts, and
\* the runner starts no more suites than batches, whatever else the model calls.
RepairsBounded ==
  /\ run.attempts <= MaxRepairAttempts
  /\ Cardinality(VerifyEvents) <= run.attempts

\* In a bug-fix run the model is never asked again while a patch it was told is
\* applied has not been put through the suite, even when a later patch of the
\* same batch was rejected.
EveryPatchBatchVerified ==
  kind = "bug_fix" /\ pc = "model" =>
    \A i \in DOMAIN events : events[i].tool = "apply_patch" /\ ~events[i].error =>
       \E j \in DOMAIN events : j > i /\ events[j].verify

\* Whatever fails between two commits, a run that was once reported completed or
\* failed is never reported as anything else (one commit carries the closing
\* message and the status).
TerminalIsFinal ==
  [][run.status \in {"completed", "failed"} => run' = run]_vars

\* Unless the process dies or the database refuses the very commit that records
\* the failure, a started run ends with a recorded outcome: limits, timeouts,
\* errors and cancellations included.
RunSettles == <>(run.status \in {"completed", "failed"} \/ pc \in {"lost", "crashed"})

--------------------------------------------------------------------------------
(* The inductive invariant behind CompletedRepairWasTested, SequencesDense,     *)
(* CallsAnswered, RepairsBounded, EveryPatchBatchVerified and TerminalIsFinal:  *)
(* what the runner's locals say about the rows at each place of the loop.       *)

InBatch == {"call", "tool", "event", "results"}
InVerification == {"verify", "verifyEvent", "evidence"}
Over == {"failing"} \cup Stopped

\* The status follows the place, and a verdict is only ever written at the end.
StatusInv ==
  /\ run.status = "completed" => pc = "returned"
  /\ run.status = "failed" => pc \in {"returned", "raised"}
  /\ run.verified => run.status = "completed"
  /\ pc = "complete" => kind # "bug_fix"
  /\ pc = "final" => WasTested

\* The evidence of the runner's own calls is of earlier calls, except the one
\* just taken, which is of the present tree.
EvidenceInv ==
  \A e \in evidence : ~e.byModel =>
    /\ e.full
    /\ \/ pc \in Over
       \/ e.seq < toolSeq
       \/ pc \in {"verifyEvent", "evidence"} /\ e.seq = toolSeq /\ e.tree = tree

\* Where the counters stand between two rows.
CounterInv ==
  /\ pc \in {"idle", "context", "system"} => Len(transcript) = 0 /\ msgSeq = 3
  /\ pc = "user" => Len(transcript) = 1 /\ msgSeq = 3
  /\ pc \in InVerification => Len(transcript) = msgSeq
  /\ pc \notin InVerification \cup Over \cup {"idle", "context", "system", "user"} =>
        Len(transcript) + 1 = msgSeq
  /\ pc = "evidence" => Len(events) = toolSeq
  /\ pc \notin Over \cup {"evidence"} => Len(events) + 1 = toolSeq

\* The tool calls of the last row are the ones still to be answered.
Answered(i) ==
  transcript[i].calls > 0 =>
    i + 1 \in DOMAIN transcript /\ transcript[i + 1].answers = transcript[i].calls
PendingInv ==
  /\ pc \in {"call", "tool", "event"} => next \in 1 .. Len(reply)
  /\ pc = "results" => next = Len(reply) + 1
  /\ pc \in InBatch => transcript # <<>> /\ transcript[Len(transcript)].calls = Len(reply)
  /\ pc \in InVerification => transcript # <<>> /\ transcript[Len(transcript)].calls = 1
  /\ pc \notin Over => \A i \in DOMAIN transcript :
        Answered(i) \/ (i = Len(transcript) /\ pc \in InBatch \cup InVerification)
  /\ pc = "returned" /\ run.status = "completed" => \A i \in DOMAIN transcript : Answered(i)

\* Every batch is opened once, and verified at most once.
BudgetInv ==
  /\ run.attempts <= MaxRepairAttempts
  /\ Cardinality(VerifyEvents) <= run.attempts
  /\ pc \in {"idle", "context", "system", "user", "model", "assistant"} =>
        run.attempts < MaxRepairAttempts
  /\ pc \in InBatch /\ ~attempted => run.attempts < MaxRepairAttempts
  /\ pc \in InBatch \cup {"verifyCall", "verify", "verifyEvent"} /\ attempted =>
        Cardinality(VerifyEvents) < run.attempts
  /\ pc \in {"verifyCall"} \cup InVerification => attempted

\* A patch without a later suite belongs to the current batch, and the flags say so.
Covered(i) == \E j \in DOMAIN events : j > i /\ events[j].verify
PatchInv ==
  kind = "bug_fix" =>
    /\ pc \in InBatch /\ applied => attempted
    /\ pc \in {"tool", "event"} /\ reply[next] = "apply_patch" => attempted
    /\ pc \notin Over => \A i \in DOMAIN events :
          events[i].tool = "apply_patch" /\ ~events[i].error =>
            \/ Covered(i)
            \/ applied /\ pc \in InBatch \cup {"verifyCall", "verify", "verifyEvent"}

IInv == /\ TypeOK /\ StatusInv /\ EvidenceInv /\ SequencesDense /\ CounterInv
        /\ PendingInv /\ BudgetInv /\ PatchInv /\ CompletedRepairWasTested
================================================================================
