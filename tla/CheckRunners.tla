------------------------------ MODULE CheckRunners -----------------------------
(***************************************************************************)
(* What PytestRunner.run and StaticAnalysisRunner.run conclude from the    *)
(* result of a ProcessRunner.run: the exit code, the deadline and the      *)
(* excerpt of standard output that the captures have kept.                 *)
(*                                                                         *)
(* The command's output is a sequence of symbols, one for each byte of     *)
(* ProcessRunner: an item of a totals line ("3 passed, "), its end         *)
(* ("in 0.1s"), a JSON record, anything else, an end of line.  Standard    *)
(* error is empty: what it holds can only lower a verdict.                 *)
(***************************************************************************)
EXTENDS ProcessRunner, Functions

CONSTANT MaxDiagnostics  \* StaticAnalysisRunner.max_diagnostics

ASSUME DiagnosticsAssumption == MaxDiagnostics \in Nat \ {0}

Eol == "eol"
Counts == {"passed", "failed"}
PytestSymbols == Counts \cup {"time", Eol}
AnalysisSymbols == {"finding", "note", "junk", Eol}

\* What a command that has written this much may have written.
Outputs(symbols) == [1 .. written -> symbols]

--------------------------------------------------------------------------------
(* The excerpt: _Capture.text *)

Marker == <<Eol, "junk", Eol>>
Truncated == total > Capacity

\* Faulty variant: the end follows the beginning directly.
ExcerptJoined(output) == [k \in DOMAIN (head \o tail) |-> output[(head \o tail)[k]]]

Excerpt(output) ==
  LET kept(positions) == [k \in DOMAIN positions |-> output[positions[k]]] IN
  IF Truncated THEN kept(head) \o Marker \o kept(tail) ELSE kept(head \o tail)

\* Where the lines of a text end, where the line that ends there begins, the line.
LineEnds(t) == {k \in 1 .. Len(t) + 1 : k = Len(t) + 1 \/ t[k] = Eol}
LineStart(t, end) == Max({0} \cup {k \in 1 .. end - 1 : t[k] = Eol}) + 1
Line(t, end) == SubSeq(t, LineStart(t, end), end - 1)

--------------------------------------------------------------------------------
(* pytest_runner.py *)

\* SUMMARY.fullmatch: at least one count, nothing but counts, and the duration.
IsTotals(line) ==
  /\ Len(line) > 1 /\ line[Len(line)] = "time"
  /\ \A k \in 1 .. Len(line) - 1 : line[k] \in Counts
Totals(t) == {end \in LineEnds(t) : IsTotals(Line(t, end))}

\* parse_summary: the counts of the last totals line, if there is any.
ParseSummary(t) ==
  IF Totals(t) = {} THEN [counts |-> {}, complete |-> FALSE]
  ELSE [counts |-> Range(Line(t, Max(Totals(t)))) \ {"time"}, complete |-> TRUE]

\* The exit codes 2 to 5 of pytest, each with a status of its own that is not "passed"
\* either, are abstracted to "1" and to the other codes, as errors are to failures.
PytestStatus ==
  CASE timedOut -> "timeout"
    [] ~timedOut /\ exit = "0" -> "passed"
    [] ~timedOut /\ exit = "1" -> "failed"
    [] OTHER -> "execution_error"

\* The result of PytestRunner.run, had its command written t and nothing else.
Verdict(t) ==
  LET summary == ParseSummary(t) IN
  [status |-> PytestStatus, summary |-> summary,
   verified |-> /\ PytestStatus = "passed" /\ summary.complete
                /\ "passed" \in summary.counts /\ "failed" \notin summary.counts]

--------------------------------------------------------------------------------
(* static_analysis.py *)

\* normalize_diagnostics: the records of well-formed lines, up to the limit.
Lines(t) == {end \in LineEnds(t) : Line(t, end) # <<>>}
IsRecord(line) == Len(line) = 1 /\ line[1] \in {"finding", "note"}
Records(t) == {end \in Lines(t) : IsRecord(Line(t, end))}
Diagnostics(t) == {end \in Records(t) :
                     Cardinality({e \in Records(t) : e < end}) < MaxDiagnostics}
Severities(t, ends) == {Line(t, end)[1] : end \in ends}

\* Faulty variant: records beyond the limit are dropped silently.
WellFormedBelowLimit(t) == Records(t) = Lines(t) /\ ~Truncated

\* Every line is a record and is reported.  (The marker of a truncated excerpt is a
\* line that is none.)
WellFormed(t) == Records(t) = Lines(t) /\ Diagnostics(t) = Records(t) /\ ~Truncated

AnalysisStatus(t) ==
  LET some == Diagnostics(t) # {} IN
  CASE timedOut -> "timeout"
    [] ~timedOut /\ exit = "1" /\ some -> "findings"
    [] ~timedOut /\ exit = "1" /\ ~some /\ ~WellFormed(t) -> "incomplete"
    [] ~timedOut /\ exit = "0" ->
         IF WellFormed(t) /\ "finding" \notin Severities(t, Diagnostics(t))
         THEN "passed" ELSE "incomplete"
    [] OTHER -> "execution_error"

\* diagnostics_complete and clean of the AnalysisResult.
Complete(t) == WellFormed(t) /\ AnalysisStatus(t) \in {"passed", "findings"}
Clean(t) == AnalysisStatus(t) = "passed" /\ Complete(t)

--------------------------------------------------------------------------------
(* Properties *)

\* The last totals line of the output, or its absence, is not affected by what the
\* captures have dropped.
TotalsKept(output) ==
  \/ ~Truncated
  \/ Totals(output) # {} /\ LineStart(output, Max(Totals(output))) > total - Len(tail)

\* The verdict on a test run is that of its whole output: whatever else the suite
\* has printed, earlier totals included, and wherever the captures have cut it,
\* nothing but the last totals line is read, as long as the captured end holds it.
VerdictOfWholeOutput ==
  result = "result" =>
    \A output \in Outputs(PytestSymbols) :
      TotalsKept(output) => Verdict(Excerpt(output)) = Verdict(output)

\* An analysis that is called complete has reported every record of the tool, and
\* one that is called clean none that is more than a note: neither the captures
\* nor the limit on diagnostics nor a line that is no record has hidden one.
NothingHidden ==
  result = "result" =>
    \A output \in Outputs(AnalysisSymbols) :
      LET t == Excerpt(output) IN
      /\ Complete(t) =>
           /\ \A end \in Lines(output) : IsRecord(Line(output, end))
           /\ Cardinality(Diagnostics(t)) = Cardinality(Lines(output))
      /\ Clean(t) => "finding" \notin Range(output) /\ exit = "0" /\ ~timedOut
================================================================================
