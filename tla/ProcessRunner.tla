----------------------------- MODULE ProcessRunner -----------------------------
(***************************************************************************)
(* ProcessRunner.run on a POSIX system: a command in a process group of    *)
(* its own, whose output is drained into bounded captures until the        *)
(* command has exited and nobody holds its output pipe any more; a         *)
(* deadline and the caller's cancellation kill the group.                  *)
(*                                                                         *)
(* Both streams are drained alike, so one is modelled; its bytes are the   *)
(* numbers 1, 2, 3, ... in the order they were written.                    *)
(***************************************************************************)
EXTENDS Integers, Sequences, FiniteSets, FiniteSetsExt

CONSTANTS
  Leader,       \* the process that is started
  Others,       \* processes it may have as descendants
  HeadLimit,    \* bytes kept of the beginning and ...
  TailLimit,    \* ... of the end of the output, without the marker
  ReadSize,     \* bytes taken from the pipe at once, 8192 in the code
  MaxEscapes,   \* bound: descendants that make a session of their own
  MaxOutput     \* bound: bytes written

ASSUME RunnerAssumption ==
  /\ Leader \notin Others
  /\ HeadLimit \in Nat /\ TailLimit \in Nat \ {0}
  /\ TailLimit \in HeadLimit .. HeadLimit + 1
  /\ ReadSize \in Nat \ {0}
  /\ MaxOutput \in Nat

VARIABLES
  pc,        \* of run
  result,    \* what run returned or raised
  timedOut,
  exit,      \* exit code of the leader, once it is dead
  proc,      \* the processes: [state, group, pipe]
  written,   \* number of bytes written to the pipe
  total,     \* number of bytes drained, and the two parts that are kept
  head,
  tail

run == <<pc, result, timedOut>>
capture == <<total, head, tail>>
vars == <<run, exit, proc, written, capture>>

Processes == {Leader} \cup Others
Unborn == [state |-> "unborn", group |-> "own", pipe |-> FALSE]
Alive(p) == proc[p].state = "alive"
Capacity == HeadLimit + TailLimit
Escaped == {p \in Processes : proc[p].group = "other"}

\* Reading returns b"": the pipe is empty and nobody can write to it.
AtEnd == total = written /\ \A p \in Processes : ~(Alive(p) /\ proc[p].pipe)

\* Faulty variant: the end of the leader is taken for the end of its output.
ExitedOnly == ~Alive(Leader)

\* The gather of the drain loops and of process.wait is done.
Completed == ~Alive(Leader) /\ AtEnd

Init ==
  /\ pc = "start" /\ result = "none" /\ timedOut = FALSE /\ exit = "none"
  /\ proc = [p \in Processes |-> Unborn]
  /\ written = 0 /\ total = 0 /\ head = <<>> /\ tail = <<>>

--------------------------------------------------------------------------------
(* The runner *)

\* create_subprocess_exec spawns the command, with start_new_session, and waits for
\* its pipes to be connected; or it raises an OSError.
Start ==
  /\ pc = "start"
  /\ \/ /\ pc' = "starting" /\ result' = result
        /\ proc' = [proc EXCEPT ![Leader] =
                      [state |-> "alive", group |-> "own", pipe |-> TRUE]]
     \/ /\ pc' = "done" /\ result' = "not started" /\ proc' = proc
  /\ UNCHANGED <<timedOut, exit, written, capture>>

\* It returns; run enters its try.
Started ==
  /\ pc = "starting"
  /\ pc' = "running" /\ UNCHANGED <<result, timedOut, exit, proc, written, capture>>

\* The first n bytes of data, or all of it.
First(data, n) == SubSeq(data, 1, Min({n, Len(data)}))

\* The last n bytes of data, or all of it.
Latest(data, n) == SubSeq(data, Max({0, Len(data) - n}) + 1, Len(data))

\* Faulty variant: the room left in the head is measured after it was filled.
CollectFilled(data) ==
  LET remaining == HeadLimit - Len(head) IN
  /\ total' = total + Len(data)
  /\ head' = head \o First(data, remaining)
  /\ tail' = Latest(tail \o Latest(data, Len(data) - (HeadLimit - Len(head'))), TailLimit)

\* _Capture.append: fill the head, then keep the end of what follows.
Collect(data) ==
  LET remaining == HeadLimit - Len(head) IN
  /\ total' = total + Len(data)
  /\ head' = head \o First(data, remaining)
  /\ tail' = Latest(tail \o Latest(data, Max({0, Len(data) - remaining})), TailLimit)

\* One read of the drain loop.  The loops end when the run does.
Drain ==
  /\ pc \in {"running", "killed", "cancelled"} /\ total < written
  /\ \E n \in 1 .. Min({ReadSize, written - total}) : Collect([k \in 1..n |-> total + k])
  /\ UNCHANGED <<run, exit, proc, written>>

\* What asyncio does to the process of a start it does not finish: it closes the
\* transport, which kills the process itself.  (As _kill, a faulty variant.)
KillLeader ==
  /\ proc' = [proc EXCEPT ![Leader].state = "dead"]
  /\ exit' = IF Alive(Leader) THEN "killed" ELSE exit

\* _kill: SIGKILL to the process group, if there is still somebody in it.
Kill ==
  /\ proc' = [p \in Processes |->
                IF Alive(p) /\ proc[p].group = "own" THEN [proc[p] EXCEPT !.state = "dead"]
                ELSE proc[p]]
  /\ exit' = IF Alive(Leader) THEN "killed" ELSE exit

\* Faulty variant: no kill after an orderly end.
ReturnOnly ==
  /\ pc = "running" /\ Completed
  /\ pc' = "done" /\ result' = "result" /\ UNCHANGED <<timedOut, exit, proc, written, capture>>

\* In time: the group is killed all the same (finally), children may be left.
Return ==
  /\ pc = "running" /\ Completed
  /\ pc' = "done" /\ result' = "result" /\ timedOut' = timedOut /\ Kill
  /\ UNCHANGED <<written, capture>>

\* wait_for gives up; completion goes on behind its shield.
Timeout ==
  /\ pc = "running"
  /\ pc' = "killed" /\ timedOut' = TRUE /\ result' = result /\ Kill
  /\ UNCHANGED <<written, capture>>

\* The caller is cancelled while the command is starting, outside the try.
CancelStart ==
  /\ pc = "starting"
  /\ pc' = "done" /\ result' = "start cancelled" /\ timedOut' = timedOut /\ KillLeader
  /\ UNCHANGED <<written, capture>>

Cancel ==
  /\ pc = "running"
  /\ pc' = "cancelled" /\ UNCHANGED <<timedOut, result>> /\ Kill
  /\ UNCHANGED <<written, capture>>

\* The caller cancels again, in `await completion`, which nothing shields.
CancelAgain ==
  /\ pc \in {"killed", "cancelled"}
  /\ pc' = "done" /\ result' = "cancelled" /\ timedOut' = timedOut /\ Kill
  /\ UNCHANGED <<written, capture>>

\* `await completion` after the kill.
Reaped ==
  /\ pc \in {"killed", "cancelled"} /\ Completed
  /\ pc' = "done" /\ result' = IF pc = "killed" THEN "result" ELSE "cancelled"
  /\ timedOut' = timedOut /\ Kill
  /\ UNCHANGED <<written, capture>>

--------------------------------------------------------------------------------
(* The command and its descendants *)

\* With the parent's pipe or its output redirected, in its group or in its own.
Fork(p) ==
  /\ Alive(p)
  /\ \E c \in Others, g \in {proc[p].group, "other"}, b \in BOOLEAN :
       /\ proc[c].state = "unborn"
       /\ g = "other" => Cardinality(Escaped) < MaxEscapes
       /\ b => proc[p].pipe
       /\ proc' = [proc EXCEPT ![c] = [state |-> "alive", group |-> g, pipe |-> b]]
  /\ UNCHANGED <<run, exit, written, capture>>

Write(p) ==
  /\ Alive(p) /\ proc[p].pipe /\ written < MaxOutput
  /\ written' = written + 1
  /\ UNCHANGED <<run, exit, proc, capture>>

ClosePipe(p) ==
  /\ Alive(p) /\ proc[p].pipe
  /\ proc' = [proc EXCEPT ![p].pipe = FALSE]
  /\ UNCHANGED <<run, exit, written, capture>>

Exit(p) ==
  /\ Alive(p)
  /\ proc' = [proc EXCEPT ![p].state = "dead"]
  /\ exit' \in IF p = Leader THEN {"0", "1"} ELSE {exit}
  /\ UNCHANGED <<run, written, capture>>

Runner == Start \/ Started \/ Drain \/ Return \/ Timeout \/ Reaped

Next ==
  \/ Runner \/ CancelStart \/ Cancel \/ CancelAgain
  \/ \E p \in Processes : Fork(p) \/ Write(p) \/ ClosePipe(p) \/ Exit(p)

\* The event loop runs what is ready, and the deadline comes; nothing is assumed
\* of the command.
Spec == Init /\ [][Next]_vars /\ WF_vars(Drain) /\ WF_vars(Start \/ Started \/ Return \/ Timeout \/ Reaped)

--------------------------------------------------------------------------------
(* Properties *)

\* Variables hold values of their types, and the captures stay within the limit.
TypeOK ==
  /\ pc \in {"start", "starting", "running", "killed", "cancelled", "done"}
  /\ result \in {"none", "not started", "start cancelled", "result", "cancelled"}
  /\ timedOut \in BOOLEAN
  /\ exit \in {"none", "0", "1", "killed"}
  /\ proc \in [Processes -> [state : {"unborn", "alive", "dead"},
                             group : {"own", "other"}, pipe : BOOLEAN]]
  /\ written \in 0..MaxOutput /\ total \in 0..written
  /\ Len(head) <= HeadLimit /\ Len(tail) <= TailLimit

\* What is kept of the output is its beginning and its end, of full length if
\* anything was dropped, whatever the pieces it was read in (test
\* test_output_limit_keeps_head_and_tail_without_killing_process).
HeadAndTailKept ==
  /\ head = [k \in 1 .. Min({HeadLimit, total}) |-> k]
  /\ LET kept == Min({TailLimit, total - Len(head)}) IN
     tail = [k \in 1..kept |-> total - kept + k]

\* A run that returns a result has seen all that was written to the pipe, and knows
\* how its command ended: by itself, or killed at the deadline.
ResultIsWhole ==
  result = "result" =>
    /\ exit # "none" /\ (exit = "killed" => timedOut)
    /\ total = written

\* No process of the command's group outlives the run, be it over in time, timed
\* out, or cancelled once or again.  One cancellation is not answered with the kill
\* of the group: while create_subprocess_exec is awaited (line 84, before the try).
\* Then the command is dead, but not the children it already has.
NoSurvivors ==
  pc = "done" =>
    /\ ~Alive(Leader)
    /\ result # "start cancelled" => \A p \in Processes : Alive(p) => proc[p].group = "other"

\* The run ends, unless a descendant in a session of its own holds the pipe.
ReturnsUnlessEscaped ==
  <>(pc = "done") \/ <>[](\E p \in Escaped : Alive(p) /\ proc[p].pipe)

\* What README.md:81 says of the timeout, that it bounds execution: a run
\* that is past its deadline comes to its end.
TimeoutBoundsExecution == (pc = "killed") ~> (pc = "done")
================================================================================
