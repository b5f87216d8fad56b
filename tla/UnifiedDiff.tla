------------------------------ MODULE UnifiedDiff ------------------------------
(***************************************************************************)
(* patches.py: parse_unified_diff reads a patch line by line, and          *)
(* apply_hunks applies one of its file patches to a text hunk by hunk.     *)
(*                                                                         *)
(* Any patch may be sent: what the next line is, and whether there is one, *)
(* is chosen as the parser goes.  A line of a file is [text, lf]: a        *)
(* sequence of words, empty for a blank line, and whether it ends in a     *)
(* line feed, which only the last line of a text may lack.  The words of a *)
(* patch line matter to apply_hunks alone, and are chosen there.           *)
(***************************************************************************)
EXTENDS Naturals, Sequences, FiniteSets, Functions, SequencesExt

CONSTANTS
  Paths, Null,   \* the names a header may give; /dev/null
  Words,         \* what may stand on a line that is not blank
  MaxNumber,     \* bound: numbers in a hunk header
  MaxBody,       \* bound: lines in all hunks of a patch
  MaxHunks,      \* bound: hunks of a patch
  MaxLines       \* bound: lines of a text that is patched

ASSUME DiffAssumption ==
  /\ Null \notin Paths
  /\ MaxNumber \in Nat /\ MaxBody \in Nat /\ MaxHunks \in Nat /\ MaxLines \in Nat

VARIABLES
  pc,       \* where the parser or apply_hunks is
  ended,    \* the patch has ended in the middle of a line
  files,    \* the file patches already parsed
  file,     \* the one at hand: [old, new, hunks]
  hunk,     \* the hunk at hand: [oldStart, oldCount, newStart, newCount, lines]
  source,   \* the text to patch
  applied,  \* the hunks already applied to it, with their words
  at        \* [cursor, output]: lines of source consumed and lines put out

parser == <<ended, files, file, hunk>>
patching == <<source, applied, at>>
vars == <<pc, parser, patching>>

Texts == {<<>>} \cup {<<word>> : word \in Words}
Line == [text : Texts, lf : BOOLEAN]
NoFile == [old |-> Null, new |-> Null, hunks |-> <<>>]
NoHunk == [oldStart |-> 0, oldCount |-> 0, newStart |-> 0, newCount |-> 0, lines |-> <<>>]
Start == [cursor |-> 0, output |-> <<>>]

\* split_lines of every text: only a last line that is not blank may lack its LF.
Sources == {s \in UNION {[1 .. n -> Line] : n \in 0 .. MaxLines} :
              \A k \in DOMAIN s : s[k].lf \/ (k = Len(s) /\ s[k].text # <<>>)}

Seen(kinds, lines) == Cardinality({k \in DOMAIN lines : lines[k].kind \in kinds})
HunksRead == file.hunks \o FlattenSeq([k \in DOMAIN files |-> files[k].hunks])
BodyRead == Len(hunk.lines) + Len(FlattenSeq([k \in DOMAIN HunksRead |-> HunksRead[k].lines]))
ChangesSomething(f) == \E h \in Range(f.hunks) : Seen({"-", "+"}, h.lines) > 0

Init ==
  /\ pc = "top" /\ ended = FALSE /\ files = <<>> /\ file = NoFile /\ hunk = NoHunk
  /\ source = <<>> /\ applied = <<>> /\ at = Start

\* PatchError, from the parser or from apply_hunks.
Reject == /\ pc' = "rejected" /\ ended' = FALSE /\ files' = <<>> /\ file' = NoFile
          /\ hunk' = NoHunk /\ source' = <<>> /\ applied' = <<>> /\ at' = Start

--------------------------------------------------------------------------------
(* parse_unified_diff *)

\* A line that the parser has no use for where it is: a `diff --git` line in a hunk,
\* a line that is neither header nor hunk, a malformed header, or too few lines.
Unexpected == pc \in {"top", "new", "body", "hunks"} /\ Reject

\* `--- a/path` or `--- /dev/null`; `diff --git`, `index` and mode lines before it
\* are skipped.
ReadOldPath ==
  /\ pc = "top" /\ ~ended
  /\ \E path \in Paths \cup {Null} : file' = [NoFile EXCEPT !.old = path]
  /\ pc' = "new"
  /\ UNCHANGED <<ended, files, hunk, patching>>

\* `+++ b/path` right after it; renames and patches of nothing are refused.
ReadNewPath ==
  /\ pc = "new"
  /\ \E path \in Paths \cup {Null} :
       /\ path # Null \/ file.old # Null
       /\ Null \in {path, file.old} \/ path = file.old
       /\ file' = [file EXCEPT !.new = path]
  /\ pc' = "hunks"
  /\ UNCHANGED <<ended, files, hunk, patching>>

\* A hunk is complete: the loop over its lines ends.
Close(h) == /\ file' = [file EXCEPT !.hunks = Append(@, h)] /\ hunk' = NoHunk
            /\ pc' = "hunks"

ReadHunkHeader ==
  /\ pc = "hunks" /\ ~ended /\ Len(HunksRead) < MaxHunks
  /\ \E oldStart, oldCount, newStart, newCount \in 0 .. MaxNumber :
       /\ oldCount > 0 => oldStart > 0
       /\ newCount > 0 => newStart > 0
       /\ LET h == [oldStart |-> oldStart, oldCount |-> oldCount,
                    newStart |-> newStart, newCount |-> newCount, lines |-> <<>>]
          IN IF oldCount + newCount = 0 THEN Close(h)
             ELSE hunk' = h /\ file' = file /\ pc' = "body"
  /\ UNCHANGED <<ended, files, patching>>

\* Faulty variant: one count is enough.
EnoughOfOne(h) == Seen({" ", "-"}, h.lines) = h.oldCount \/ Seen({" ", "+"}, h.lines) = h.newCount

Enough(h) == Seen({" ", "-"}, h.lines) >= h.oldCount /\ Seen({" ", "+"}, h.lines) >= h.newCount
Exceeds(h) == Seen({" ", "-"}, h.lines) > h.oldCount \/ Seen({" ", "+"}, h.lines) > h.newCount

\* A line of a hunk, told by its first character alone, with the marker for a missing
\* line feed if one follows.  The patch itself may also end without a line feed.
ReadHunkLine ==
  /\ pc = "body" /\ BodyRead < MaxBody
  /\ \E kind \in {" ", "-", "+"}, lf \in BOOLEAN :
       LET h == [hunk EXCEPT !.lines = Append(@, [kind |-> kind, lf |-> lf])] IN
       /\ ended' \in IF lf THEN {FALSE} ELSE BOOLEAN
       /\ ~Exceeds(h)
       /\ IF Enough(h) THEN Close(h)
          ELSE ~ended' /\ hunk' = h /\ file' = file /\ pc' = "body"
  /\ UNCHANGED <<files, patching>>

\* The next line does not begin with @@, or there is none.
EndFile ==
  /\ pc = "hunks" /\ ChangesSomething(file)
  /\ pc' = "top" /\ files' = Append(files, file) /\ file' = NoFile
  /\ UNCHANGED <<ended, hunk, patching>>

Path(f) == IF f.new # Null THEN f.new ELSE f.old

\* End of the patch.  Each file patch is then applied to its own file: one of them.
EndPatch ==
  /\ pc = "top" /\ files # <<>>
  /\ \A j, k \in DOMAIN files : j # k => Path(files[j]) # Path(files[k])
  /\ \E f \in Range(files), s \in Sources : file' = f /\ source' = s
  /\ pc' = "apply" /\ files' = <<>> /\ ended' = FALSE
  /\ UNCHANGED <<hunk, applied, at>>

--------------------------------------------------------------------------------
(* apply_hunks *)

Content(line) == [text |-> line.text, lf |-> line.lf]

\* The lines of a hunk that are of these kinds, in order.
Lines(kinds, h) ==
  LET kept[n \in 0 .. Len(h.lines)] ==
        IF n = 0 THEN <<>>
        ELSE IF h.lines[n].kind \in kinds THEN Append(kept[n - 1], Content(h.lines[n]))
        ELSE kept[n - 1]
  IN kept[Len(h.lines)]
Old(h) == Lines({" ", "-"}, h)
New(h) == Lines({" ", "+"}, h)

\* Lines before a range of a hunk header; an empty range names the line before it.
Before(start, count) == IF count = 0 THEN start ELSE start - 1

\* The hunk lies behind the last one and in the text, and its new position agrees.
Placed(text, here, h) ==
  LET position == Before(h.oldStart, h.oldCount) IN
  /\ position \in here.cursor .. Len(text)
  /\ Before(h.newStart, h.newCount) = Len(here.output) + position - here.cursor

\* Its context and removed lines are the next ones of the text.
Matches(text, h) ==
  LET position == Before(h.oldStart, h.oldCount)  old == Old(h) IN
  /\ position + Len(old) <= Len(text)
  /\ old = SubSeq(text, position + 1, position + Len(old))

Advance(text, here, h) ==
  LET position == Before(h.oldStart, h.oldCount) IN
  [cursor |-> position + Len(Old(h)),
   output |-> here.output \o SubSeq(text, here.cursor + 1, position) \o New(h)]

\* The whole output, once no hunk is left.
Output(text, here) == here.output \o SubSeq(text, here.cursor + 1, Len(text))

\* Faulty variant: a missing line feed in the middle is not noticed.
AnyOutput(output, deletion) == deletion => \A line \in Range(output) : line.text = <<>> /\ ~line.lf

\* Only the last line lacks its line feed, and a deletion leaves nothing.
ValidOutput(output, deletion) ==
  /\ \A k \in 1 .. Len(output) - 1 : output[k].lf
  /\ deletion => \A line \in Range(output) : line.text = <<>> /\ ~line.lf

\* Split(output): the lines of the text that is written.  A line without a line feed is
\* joined with the next one, and an empty rest after the last line feed is no line.
Split(output) ==
  LET join(lines, line) ==
        IF lines # <<>> /\ ~Last(lines).lf
        THEN Front(lines) \o <<[text |-> Last(lines).text \o line.text, lf |-> line.lf]>>
        ELSE Append(lines, line)
      joined[n \in 0 .. Len(output)] ==
        IF n = 0 THEN <<>> ELSE join(joined[n - 1], output[n])
      lines == joined[Len(output)]
  IN IF lines # <<>> /\ ~Last(lines).lf /\ Last(lines).text = <<>> THEN Front(lines) ELSE lines

ApplyHunk ==
  /\ pc = "apply" /\ file.hunks # <<>>
  /\ LET h == Head(file.hunks) IN
     /\ Placed(source, at, h)
     /\ \E texts \in [DOMAIN h.lines -> Texts] :
          LET worded == [h EXCEPT !.lines =
                 [k \in DOMAIN @ |-> [kind |-> @[k].kind, lf |-> @[k].lf, text |-> texts[k]]]]
          IN /\ Matches(source, worded)
             /\ at' = Advance(source, at, worded)
             /\ applied' = Append(applied, worded)
  /\ file' = [file EXCEPT !.hunks = Tail(@)]
  /\ UNCHANGED <<pc, ended, files, hunk, source>>

\* A hunk that is misplaced or whose lines are not found.
RejectHunk == pc = "apply" /\ file.hunks # <<>> /\ Reject

FinishPatch ==
  /\ pc = "apply" /\ file.hunks = <<>>
  /\ IF ValidOutput(Output(source, at), file.new = Null)
     THEN /\ pc' = "done" /\ at' = [cursor |-> Len(source), output |-> Output(source, at)]
          /\ UNCHANGED <<parser, source, applied>>
     ELSE Reject

Next == \/ Unexpected \/ ReadOldPath \/ ReadNewPath \/ ReadHunkHeader \/ ReadHunkLine
        \/ EndFile \/ EndPatch \/ ApplyHunk \/ RejectHunk \/ FinishPatch

Spec == Init /\ [][Next]_vars

--------------------------------------------------------------------------------
(* Properties *)

\* An added last line that is blank and has no line feed leaves nothing in the text.
LeavesNoTrace == \A h \in Range(applied) : \A line \in Range(h.lines) :
                   line.text # <<>> \/ line.lf

OldEnd(k) == IF k = 0 THEN 0
             ELSE Before(applied[k].oldStart, applied[k].oldCount) + applied[k].oldCount
NewEnd(k) == IF k = 0 THEN 0
             ELSE Before(applied[k].newStart, applied[k].newCount) + applied[k].newCount

\* What a hunk header declares is what happens: a patch that was parsed and applied
\* replaces the declared lines of the old text by its own, finds them at the declared
\* lines of the new text, and carries over, in place, all that lies between.
AppliesWhatItDeclares ==
  pc = "done" /\ LeavesNoTrace =>
    LET result == Split(at.output)
        oldFrom(k) == IF k > Len(applied) THEN Len(source)
                      ELSE Before(applied[k].oldStart, applied[k].oldCount)
        newFrom(k) == IF k > Len(applied) THEN Len(result)
                      ELSE Before(applied[k].newStart, applied[k].newCount)
    IN /\ \A k \in DOMAIN applied : OldEnd(k) <= Len(source) /\ NewEnd(k) <= Len(result)
       /\ \A k \in DOMAIN applied :
            /\ SubSeq(source, oldFrom(k) + 1, OldEnd(k)) = Old(applied[k])
            /\ SubSeq(result, newFrom(k) + 1, NewEnd(k)) = New(applied[k])
       /\ \A k \in 1 .. Len(applied) + 1 :
            SubSeq(source, OldEnd(k - 1) + 1, oldFrom(k))
              = SubSeq(result, NewEnd(k - 1) + 1, newFrom(k))

Swapped(kind) == CASE kind = "-" -> "+" [] kind = "+" -> "-" [] OTHER -> kind
Reversed(h) ==
  [oldStart |-> h.newStart, oldCount |-> h.newCount, newStart |-> h.oldStart,
   newCount |-> h.oldCount,
   lines |-> [k \in DOMAIN h.lines |-> [h.lines[k] EXCEPT !.kind = Swapped(@)]]]

\* No information is lost: the patch read backwards is accepted on the text as it is
\* then read, line feeds included, and restores the text as it was.
InverseRestores ==
  pc = "done" /\ LeavesNoTrace =>
    LET text == Split(at.output)
        back[k \in 0 .. Len(applied)] ==
          IF k = 0 THEN [ok |-> TRUE, here |-> Start]
          ELSE LET h == Reversed(applied[k]) IN
               IF back[k - 1].ok /\ Placed(text, back[k - 1].here, h) /\ Matches(text, h)
               THEN [ok |-> TRUE, here |-> Advance(text, back[k - 1].here, h)]
               ELSE [back[k - 1] EXCEPT !.ok = FALSE]
        whole == back[Len(applied)]
    IN whole.ok /\ Output(text, whole.here) = source
================================================================================
