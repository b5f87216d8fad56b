--------------------------- MODULE ConversationMemory ---------------------------
(***************************************************************************)
(* The turns of one conversation: ConversationMemory.append,               *)
(* prepare_history and _summarize (conversation_memory.py), called by      *)
(* requests that may be served by different processes.  `conversation` and *)
(* `turns` are rows of the database; the rest are locals of a request.     *)
(*                                                                         *)
(* Sizes are abstract: `cost` is history_cost of a turn, and its dialogue  *)
(* is cut into Parts pieces.  A summary is represented by the pieces the   *)
(* model was shown while it was made; it is empty when there is none (a    *)
(* summary_max_tokens of at least 4 never clips one to nothing).           *)
(***************************************************************************)
EXTENDS Integers, Sequences, FiniteSets, Functions

CONSTANTS
  Requests,
  Costs,      \* what a turn may cost
  Budget,     \* history_token_budget
  Reserved,   \* what a summary message may cost of it
  Parts,      \* pieces of dialogue in a turn
  MaxFaults   \* bound: database operations that fail

ASSUME BudgetAssumption ==
  /\ Costs \subseteq Nat \ {0}
  /\ Budget \in Nat /\ Reserved \in Nat /\ Reserved <= Budget
  /\ Parts \in Nat \ {0}
  /\ MaxFaults \in Nat

VARIABLES
  conversation,  \* the row: is_running, summary and summary_through_turn
  turns,         \* the conversation_turns rows, with the status of their runs
  pc,            \* where each request is
  seen,          \* each request's copy of the conversation row
  recent,        \* turns kept verbatim
  evicted,       \* turns to be summarized
  transcript,    \* dialogue not yet summarized
  summary,       \* the summary in the making, and then of the history
  number,        \* the number read for the new turn
  faults

rows == <<conversation, turns>>
locals == <<seen, recent, evicted, transcript, summary, number>>
vars == <<rows, pc, locals, faults>>

Row == [running : BOOLEAN, through : Nat, summary : SUBSET (Nat \X (1 .. Parts))]
Turn == [number : Nat \ {0}, status : {"running", "completed", "failed"}, cost : Costs]

Ended == {"done", "busy", "error"}      \* append has returned or raised
Stranded == {"crashed", "unreleased"}   \* it never released its claim
Claimed == {"refresh", "select", "summarize", "checkpoint", "number", "create", "run", "release"}

NoRow == [running |-> FALSE, through |-> 0, summary |-> {}]

Pieces(t) == {t.number} \X (1 .. Parts)
Completed(t) == t.status = "completed"
Cost(ts) == FoldFunction(LAMBDA t, sum : t.cost + sum, 0, ts)

Init ==
  /\ conversation = NoRow /\ turns = <<>>
  /\ pc = [r \in Requests |-> "idle"]
  /\ seen = [r \in Requests |-> NoRow]
  /\ recent = [r \in Requests |-> <<>>] /\ evicted = [r \in Requests |-> <<>>]
  /\ transcript = [r \in Requests |-> <<>>] /\ summary = [r \in Requests |-> {}]
  /\ number = [r \in Requests |-> 0]
  /\ faults = 0

\* The locals of a request are gone once append has left.
Forget(r) ==
  /\ seen' = [seen EXCEPT ![r] = NoRow]
  /\ recent' = [recent EXCEPT ![r] = <<>>] /\ evicted' = [evicted EXCEPT ![r] = <<>>]
  /\ transcript' = [transcript EXCEPT ![r] = <<>>] /\ summary' = [summary EXCEPT ![r] = {}]
  /\ number' = [number EXCEPT ![r] = 0]

Goto(r, place) == pc' = [pc EXCEPT ![r] = place]
Fault == faults < MaxFaults /\ faults' = faults + 1

--------------------------------------------------------------------------------
(* Claiming the conversation. *)

\* append_message loads the row into the session.
Load(r) ==
  /\ pc[r] = "idle"
  /\ seen' = [seen EXCEPT ![r] = conversation]
  /\ Goto(r, "claim")
  /\ UNCHANGED <<rows, recent, evicted, transcript, summary, number, faults>>

\* Faulty variant: the flag is tested on the loaded row, not in the UPDATE.
ClaimIfSeenFree(r) ==
  /\ pc[r] = "claim"
  /\ \/ /\ ~seen[r].running
        /\ conversation' = [conversation EXCEPT !.running = TRUE]
        /\ Goto(r, "refresh")
     \/ /\ seen[r].running
        /\ Goto(r, "busy") /\ UNCHANGED conversation
  /\ UNCHANGED <<turns, locals, faults>>

\* UPDATE ... WHERE NOT is_running, and its commit.
Claim(r) ==
  /\ pc[r] = "claim"
  /\ \/ /\ ~conversation.running
        /\ conversation' = [conversation EXCEPT !.running = TRUE]
        /\ Goto(r, "refresh") /\ UNCHANGED <<locals, faults>>
     \/ /\ conversation.running
        /\ Goto(r, "busy") /\ Forget(r) /\ UNCHANGED <<conversation, faults>>
     \/ Fault /\ Goto(r, "error") /\ Forget(r) /\ UNCHANGED conversation
  /\ UNCHANGED turns

\* session.refresh still stands before the try: if it fails the claim stays.
Refresh(r) ==
  /\ pc[r] = "refresh"
  /\ \/ /\ seen' = [seen EXCEPT ![r] = conversation]
        /\ Goto(r, "select") /\ faults' = faults
        /\ UNCHANGED <<recent, evicted, transcript, summary, number>>
     \/ Fault /\ Goto(r, "unreleased") /\ Forget(r)
  /\ UNCHANGED rows

--------------------------------------------------------------------------------
(* prepare_history *)

\* The completed turns after turn n, in order: those among the first k, and all.
CompletedUpTo(n) ==
  LET upTo[k \in 0 .. Len(turns)] ==
        IF k = 0 THEN <<>>
        ELSE IF Completed(turns[k]) /\ turns[k].number > n THEN Append(upTo[k - 1], turns[k])
        ELSE upTo[k - 1]
  IN  upTo

CompletedAfter(n) == CompletedUpTo(n)[Len(turns)]

\* Faulty variant: the room for the summary is not set aside.
FirstRetainedUnreserved(ts) ==
  CHOOSE k \in 1 .. Len(ts) + 1 :
    /\ Cost(SubSeq(ts, k, Len(ts))) <= Budget
    /\ k > 1 => Cost(SubSeq(ts, k - 1, Len(ts))) > Budget

\* The longest suffix of whole turns that fits beside the summary.
FirstRetained(ts) ==
  CHOOSE k \in 1 .. Len(ts) + 1 :
    /\ Cost(SubSeq(ts, k, Len(ts))) <= Budget - Reserved
    /\ k > 1 => Cost(SubSeq(ts, k - 1, Len(ts))) > Budget - Reserved

Dialogue(ts) ==
  [i \in 1 .. Len(ts) * Parts |-> <<ts[((i - 1) \div Parts) + 1].number, ((i - 1) % Parts) + 1>>]

\* Faulty variant: a new summary does not start from the last one.
FromScratch(r) == {}

Previous(r) == seen[r].summary

Select(r) ==
  /\ pc[r] = "select"
  /\ LET ts == CompletedAfter(seen[r].through)
         fits == seen[r].summary = {} /\ Cost(ts) <= Budget
         first == IF fits THEN 1 ELSE FirstRetained(ts)
         out == SubSeq(ts, 1, first - 1)
     IN
     /\ recent' = [recent EXCEPT ![r] = SubSeq(ts, first, Len(ts))]
     /\ evicted' = [evicted EXCEPT ![r] = out]
     /\ transcript' = [transcript EXCEPT ![r] = Dialogue(out)]
     /\ summary' = [summary EXCEPT ![r] = Previous(r)]
     /\ Goto(r, IF out = <<>> THEN "number" ELSE "summarize")
  /\ UNCHANGED <<rows, seen, number, faults>>

\* Faulty variant: the tail that does not fit one excerpt is dropped.
SummarizeOnce(r) ==
  /\ pc[r] = "summarize"
  /\ \E n \in 1 .. Len(transcript[r]) :
       summary' = [summary EXCEPT ![r] = @ \cup {transcript[r][i] : i \in 1 .. n}]
  /\ transcript' = [transcript EXCEPT ![r] = <<>>]
  /\ Goto(r, "checkpoint")
  /\ UNCHANGED <<rows, seen, recent, evicted, number, faults>>

\* One excerpt, as long as the input budget allows, is merged by the model.
Summarize(r) ==
  /\ pc[r] = "summarize"
  /\ \E n \in 1 .. Len(transcript[r]) :
       /\ summary' = [summary EXCEPT ![r] = @ \cup {transcript[r][i] : i \in 1 .. n}]
       /\ transcript' = [transcript EXCEPT ![r] = SubSeq(@, n + 1, Len(@))]
       /\ Goto(r, IF n = Len(transcript[r]) THEN "checkpoint" ELSE "summarize")
  /\ UNCHANGED <<rows, seen, recent, evicted, number, faults>>

\* The model call raises, answers with something else than a summary, times out
\* or is cancelled.
SummaryFails(r) ==
  /\ pc[r] = "summarize"
  /\ Goto(r, "release")
  /\ UNCHANGED <<rows, locals, faults>>

\* One commit stores the summary and how far it reaches.
Checkpoint(r) ==
  /\ pc[r] = "checkpoint"
  /\ \/ /\ conversation' = [conversation EXCEPT !.summary = summary[r],
                              !.through = evicted[r][Len(evicted[r])].number]
        /\ Goto(r, "number") /\ faults' = faults
     \/ Fault /\ Goto(r, "release") /\ UNCHANGED conversation
  /\ UNCHANGED <<turns, locals>>

--------------------------------------------------------------------------------
(* The new turn. *)

LastNumber == IF turns = <<>> THEN 0 ELSE turns[Len(turns)].number

\* SELECT max(sequence_number).
ReadNumber(r) ==
  /\ pc[r] = "number"
  /\ number' = [number EXCEPT ![r] = LastNumber]
  /\ Goto(r, "create")
  /\ UNCHANGED <<rows, seen, recent, evicted, transcript, summary, faults>>

\* The first commit of AgentRunner.run stores the run and its turn together.
CreateTurn(r) ==
  /\ pc[r] = "create"
  /\ \/ /\ \E c \in Costs :
             turns' = Append(turns, [number |-> number[r] + 1, status |-> "running", cost |-> c])
        /\ Goto(r, "run") /\ faults' = faults
     \/ Fault /\ Goto(r, "release") /\ UNCHANGED turns
  /\ UNCHANGED <<conversation, locals>>

Settle(r, status) ==
  turns' = [i \in DOMAIN turns |->
              IF turns[i].number = number[r] + 1 THEN [turns[i] EXCEPT !.status = status]
              ELSE turns[i]]

\* The run ends (module AgentRunner); its failure may have been lost.
RunEnds(r) ==
  /\ pc[r] = "run"
  /\ \/ \E s \in {"completed", "failed"} : Settle(r, s) /\ faults' = faults
     \/ Fault /\ turns' = turns
  /\ Goto(r, "release")
  /\ UNCHANGED <<conversation, locals>>

\* Faulty variant: a turn whose summary failed does not give its claim back.
ReleaseUnlessFailed(r) ==
  /\ pc[r] = "release"
  /\ conversation' = [conversation EXCEPT !.running = (transcript[r] # <<>>)]
  /\ Goto(r, "done")
  /\ Forget(r)
  /\ UNCHANGED <<turns, faults>>

\* The finally: rollback, and give the claim back.
Release(r) ==
  /\ pc[r] = "release"
  /\ \/ /\ conversation' = [conversation EXCEPT !.running = FALSE]
        /\ Goto(r, "done") /\ faults' = faults
     \/ Fault /\ Goto(r, "unreleased") /\ UNCHANGED conversation
  /\ Forget(r)
  /\ UNCHANGED turns

--------------------------------------------------------------------------------

\* The process of a request dies.
Crash(r) ==
  /\ pc[r] \in Claimed
  /\ Goto(r, "crashed")
  /\ Forget(r)
  /\ UNCHANGED <<rows, faults>>

Step(r) == Claim(r) \/ Refresh(r) \/ Select(r) \/ Summarize(r) \/ SummaryFails(r)
           \/ Checkpoint(r) \/ ReadNumber(r) \/ CreateTurn(r) \/ RunEnds(r) \/ Release(r)
Next == \E r \in Requests : Load(r) \/ Step(r) \/ Crash(r)

\* The model calls stand under asyncio.timeout and a run ends (RunSettles of module
\* AgentRunner); nothing else that a request awaits can hold it up.
Spec == Init /\ [][Next]_vars /\ \A r \in Requests : WF_vars(Step(r))

--------------------------------------------------------------------------------
(* Properties. *)

TypeOK ==
  /\ conversation \in Row
  /\ turns \in Seq(Turn)
  /\ pc \in [Requests -> {"idle", "claim"} \cup Claimed \cup Ended \cup Stranded]
  /\ seen \in [Requests -> Row]
  /\ recent \in [Requests -> Seq(Turn)] /\ evicted \in [Requests -> Seq(Turn)]
  /\ transcript \in [Requests -> Seq(Nat \X (1 .. Parts))]
  /\ summary \in [Requests -> SUBSET (Nat \X (1 .. Parts))]
  /\ number \in [Requests -> Nat]
  /\ faults \in 0 .. MaxFaults

\* At most one request works on the conversation, whichever processes serve them,
\* and the row says so for as long as it does (conversation_memory.py:114).
OneTurnAtATime ==
  /\ \A r, s \in Requests : pc[r] \in Claimed /\ pc[s] \in Claimed => r = s
  /\ \A r \in Requests : pc[r] \in Claimed => conversation.running

\* Turns are numbered 1, 2, 3, ... in the order they began, although the number is
\* read in one transaction and used in another.
TurnsNumbered == \A i \in DOMAIN turns : turns[i].number = i

\* What the model is sent: each completed turn is either whole in the history, in
\* order, or went into the summary with its whole dialogue, and never both.
HistoryComplete ==
  \A r \in Requests : pc[r] \in {"number", "create"} =>
    LET older == {i \in DOMAIN turns : Completed(turns[i]) /\ i <= conversation.through}
        newer == {i \in DOMAIN turns : Completed(turns[i]) /\ i > conversation.through}
    IN
    /\ Range(recent[r]) = {turns[i] : i \in newer}
    /\ \A j, k \in DOMAIN recent[r] : j < k => recent[r][j].number < recent[r][k].number
    /\ summary[r] = UNION {Pieces(turns[i]) : i \in older}

\* What the model is sent fits the budget, summary included.
WithinBudget ==
  \A r \in Requests : pc[r] \in {"number", "create"} =>
    Cost(recent[r]) + (IF summary[r] = {} THEN 0 ELSE Reserved) <= Budget

\* The summary reaches further with every change and is never put back, and it only
\* grows together with the checkpoint that says what it covers.
CheckpointAdvances ==
  [][conversation'.summary # conversation.summary \/ conversation'.through # conversation.through
     => /\ conversation'.through > conversation.through
        /\ conversation.summary \subseteq conversation'.summary]_vars

\* A claimed conversation becomes free again, however the turn ends, unless a process
\* died or the database failed at the claim or at the release.
ClaimReleased ==
  conversation.running ~> (~conversation.running \/ \E r \in Requests : pc[r] \in Stranded)
================================================================================
