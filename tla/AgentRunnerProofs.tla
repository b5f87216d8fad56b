--------------------------- MODULE AgentRunnerProofs ---------------------------
(***************************************************************************)
(* Proofs about AgentRunner for every value of its constants.  One lemma   *)
(* per conjunct of the inductive invariant IInv, each with one step per    *)
(* action, and the properties of AgentRunner as their consequences.        *)
(***************************************************************************)
EXTENDS AgentRunner, FiniteSetTheorems, TLAPS

\* A response of the model is a sequence of tool names.
LEMMA ReplyType ==
  ASSUME NEW n \in Nat, NEW s \in [1 .. n -> Tools]
  PROVE  s \in Seq(Tools)
  OBVIOUS

\* Appending a row leaves the others where they are.
LEMMA AppendFacts ==
  ASSUME NEW S, NEW s \in Seq(S), NEW e
  PROVE  /\ Len(Append(s, e)) = Len(s) + 1
         /\ DOMAIN Append(s, e) = 1 .. Len(s) + 1
         /\ DOMAIN s = 1 .. Len(s)
         /\ Len(s) \in Nat
         /\ \A i \in 1 .. Len(s) : Append(s, e)[i] = s[i]
         /\ Append(s, e)[Len(s) + 1] = e
  OBVIOUS

\* A row numbered one more than the rows before it keeps the numbering dense.
LEMMA NumberedAppend ==
  ASSUME NEW S, NEW s \in Seq(S), NEW e,
         \A i \in DOMAIN s : s[i].seq = i, e.seq = Len(s) + 1
  PROVE  \A i \in DOMAIN Append(s, e) : Append(s, e)[i].seq = i
  BY AppendFacts

\* A row that _persist_message stores is a message.
LEMMA MessageType ==
  ASSUME TypeOK, NEW seq \in Nat, NEW calls \in Nat, NEW answers \in Nat,
         NEW what \in {"system", "user", "assistant", "results", "verifyCall",
                       "evidence", "final", "feedback"},
         Persist(seq, what, calls, answers)
  PROVE  transcript' \in Seq(Message)
  BY DEF TypeOK, Persist, Message

\* The pytest tool stores at most one well-formed evidence row.
LEMMA PytestType ==
  ASSUME TypeOK, NEW byModel \in BOOLEAN, NEW fullSuite \in SUBSET BOOLEAN,
         PytestRuns(byModel, fullSuite)
  PROVE  evidence' \in SUBSET Execution /\ toolError' \in BOOLEAN /\ tree' = tree
<1>1. ASSUME NEW full \in fullSuite, NEW verified \in BOOLEAN
      PROVE  [seq |-> toolSeq, byModel |-> byModel, full |-> full,
              verified |-> verified, tree |-> tree] \in Execution
  BY <1>1 DEF TypeOK, Execution
<1> QED BY <1>1 DEF TypeOK, PytestRuns

\* Every step keeps the type invariant.
LEMMA TypeStep == TypeOK /\ PendingInv /\ [Next]_vars => TypeOK'
<1> SUFFICES ASSUME TypeOK, PendingInv, [Next]_vars PROVE TypeOK'
  OBVIOUS
<1> USE LimitsAssumption
<1> USE DEF TypeOK, Locations, Awaits, Commits, Stopped, Kinds, Tools, Causes, rows, locals
<1>1. CASE CreateRun BY <1>1 DEF CreateRun
<1>2. CASE BuildContext BY <1>2 DEF BuildContext
<1>3. CASE PersistSystem BY <1>3 DEF PersistSystem, Persist, Message
<1>4. CASE PersistUser BY <1>4 DEF PersistUser, Persist, Message, LoopHead, LoopCause
<1>5. CASE ModelReplies
  <2>1. reply' \in Seq(Tools) BY <1>5, ReplyType DEF ModelReplies
  <2>2. text' \in BOOLEAN BY <1>5, Zenon DEF ModelReplies
  <2>3. turn' \in Nat /\ pc' \in Locations BY <1>5 DEF ModelReplies
  <2>4. UNCHANGED <<kind, rows, tree, next, attempted, applied, toolError, msgSeq, toolSeq,
                    cause, faults>>
    BY <1>5 DEF ModelReplies
  <2> QED BY <2>1, <2>2, <2>3, <2>4 DEF rows
<1>6. CASE PersistAssistant
  <2>1. Len(reply) \in Nat /\ Persist(msgSeq, "assistant", Len(reply), 0)
    BY <1>6 DEF PersistAssistant
  <2>2. transcript' \in Seq(Message) BY <2>1, MessageType
  <2>3. /\ pc' \in Locations /\ cause' \in Causes
        /\ msgSeq' \in Nat /\ next' \in Nat \ {0}
    BY <1>6 DEF PersistAssistant
  <2>5. attempted' \in BOOLEAN /\ applied' \in BOOLEAN
    BY <1>6, Zenon DEF PersistAssistant
  <2>4. UNCHANGED <<kind, run, events, evidence, tree, turn, reply, text, toolError,
                    toolSeq, faults>>
    BY <1>6 DEF PersistAssistant
  <2> QED BY <2>2, <2>3, <2>4, <2>5
<1>7. CASE Complete BY <1>7 DEF Complete
<1>8. CASE StartCall
  <2>1. attempted' \in BOOLEAN BY <1>8 DEF StartCall
  <2>2. run.attempts + 1 \in Nat OBVIOUS
  <2>3. run' \in [status : {"none", "running", "completed", "failed"},
                  attempts : Nat, verified : BOOLEAN]
    BY <1>8, <2>2 DEF StartCall
  <2> QED BY <1>8, <2>1, <2>3 DEF StartCall
<1>9. CASE ToolRuns
  <2>1. UNCHANGED <<kind, run, transcript, events, turn, reply, text, next, attempted,
                    applied, msgSeq, toolSeq, cause, faults>> /\ pc' = "event"
    BY <1>9 DEF ToolRuns
  <2>2. reply[next] = "apply_patch" /\ PatchRuns
          => evidence' \in SUBSET Execution /\ toolError' \in BOOLEAN /\ tree' \in Nat
    <3>1. PatchRuns => toolError' \in BOOLEAN BY Zenon DEF PatchRuns
    <3>2. PatchRuns => evidence' = evidence /\ tree' \in Nat BY DEF PatchRuns
    <3> QED BY <3>1, <3>2
  <2>3. reply[next] = "run_pytest" /\ PytestRuns(TRUE, BOOLEAN)
          => evidence' \in SUBSET Execution /\ toolError' \in BOOLEAN /\ tree' \in Nat
    BY PytestType
  <2>4. evidence' \in SUBSET Execution /\ toolError' \in BOOLEAN /\ tree' \in Nat
    <3>1. reply[next] = "other" /\ toolError' \in BOOLEAN /\ UNCHANGED <<tree, evidence>>
            => evidence' \in SUBSET Execution /\ toolError' \in BOOLEAN /\ tree' \in Nat
      OBVIOUS
    <3> QED BY <1>9, <2>2, <2>3, <3>1, Zenon DEF ToolRuns
  <2> QED BY <2>1, <2>4
<1>10. CASE PersistEvent
  <2>1. reply[next] \in Tools BY <1>10 DEF PersistEvent, PatchApplied, PendingInv
  <2>2. [seq |-> toolSeq, tool |-> reply[next], verify |-> FALSE, error |-> toolError] \in Event
    BY <2>1 DEF Event
  <2>3. events' \in Seq(Event)
    BY <1>10, <2>2 DEF PersistEvent, PatchApplied, RecordEvent
  <2>4. applied' \in BOOLEAN BY <1>10 DEF PersistEvent, PatchApplied
  <2> QED BY <1>10, <2>3, <2>4 DEF PersistEvent, PatchApplied
<1>11. CASE PersistResults BY <1>11 DEF PersistResults, Persist, Message, LoopHead, LoopCause
<1>12. CASE PersistVerifyCall BY <1>12 DEF PersistVerifyCall, Persist, Message
<1>13. CASE VerifyRuns
  <2>1. evidence' \in SUBSET Execution /\ toolError' \in BOOLEAN /\ tree' = tree
    BY <1>13, PytestType DEF VerifyRuns
  <2> QED BY <1>13, <2>1 DEF VerifyRuns
<1>14. CASE PersistVerifyEvent BY <1>14 DEF PersistVerifyEvent, RecordEvent, Event
<1>15. CASE PersistEvidence BY <1>15 DEF PersistEvidence, CountVerification, Persist, Message
<1>16. CASE PersistFinal
  <2>1. transcript' \in Seq(Message) BY <1>16, MessageType DEF PersistFinal
  <2>2. [run EXCEPT !.status = "completed", !.verified = TRUE] \in
           [status : {"none", "running", "completed", "failed"},
            attempts : Nat, verified : BOOLEAN]
    OBVIOUS
  <2> QED BY <1>16, <2>1, <2>2 DEF PersistFinal
<1>17. CASE PersistFeedback BY <1>17 DEF PersistFeedback, Persist, Message, LoopHead, LoopCause
<1>18. CASE GiveUp BY <1>18 DEF GiveUp
<1>19. CASE AwaitRaises BY <1>19 DEF AwaitRaises
<1>20. CASE Interrupt
  <2>1. ASSUME NEW full \in BOOLEAN
        PROVE  [seq |-> toolSeq, byModel |-> pc = "tool", full |-> full,
                verified |-> FALSE, tree |-> tree] \in Execution
    BY <2>1 DEF Execution
  <2>2. evidence' \in SUBSET Execution BY <1>20, <2>1 DEF Interrupt
  <2>3. tree' \in Nat BY <1>20 DEF Interrupt
  <2> QED BY <1>20, <2>2, <2>3 DEF Interrupt
<1>21. CASE CommitFails BY <1>21 DEF CommitFails
<1>22. CASE FailRun BY <1>22 DEF FailRun
<1>23. CASE FailureIsLost BY <1>23 DEF FailureIsLost
<1>24. CASE Crash BY <1>24 DEF Crash
<1>25. CASE UNCHANGED vars BY <1>25 DEF vars
<1> QED BY <1>1, <1>2, <1>3, <1>4, <1>5, <1>6, <1>7, <1>8, <1>9, <1>10, <1>11, <1>12,
           <1>13, <1>14, <1>15, <1>16, <1>17, <1>18, <1>19, <1>20, <1>21, <1>22, <1>23,
           <1>24, <1>25 DEF Next, Progress, Turn, Verification

\* The status follows the place.
LEMMA StatusStep ==
  ASSUME IInv, [Next]_vars
  PROVE  StatusInv'
<1> USE LimitsAssumption DEF IInv, TypeOK, StatusInv, WasTested, Locations, Awaits, Commits, Stopped, Kinds, rows, locals
<1>1. CASE CreateRun BY <1>1 DEF CreateRun
<1>2. CASE BuildContext BY <1>2 DEF BuildContext
<1>3. CASE PersistSystem BY <1>3 DEF PersistSystem
<1>4. CASE PersistUser BY <1>4 DEF PersistUser, LoopHead
<1>5. CASE ModelReplies BY <1>5 DEF ModelReplies
<1>6. CASE PersistAssistant BY <1>6 DEF PersistAssistant
<1>7. CASE Complete BY <1>7 DEF Complete
<1>8. CASE StartCall BY <1>8 DEF StartCall, OpensAttempt
<1>9. CASE ToolRuns BY <1>9 DEF ToolRuns, PatchRuns, PytestRuns
<1>10. CASE PersistEvent BY <1>10 DEF PersistEvent, PatchApplied
<1>11. CASE PersistResults BY <1>11 DEF PersistResults, LoopHead
<1>12. CASE PersistVerifyCall BY <1>12 DEF PersistVerifyCall
<1>13. CASE VerifyRuns BY <1>13 DEF VerifyRuns, PytestRuns
<1>14. CASE PersistVerifyEvent BY <1>14 DEF PersistVerifyEvent
<1>15. CASE PersistEvidence BY <1>15 DEF PersistEvidence, CountVerification, EvidenceInv, Verified, Over
<1>16. CASE PersistFinal BY <1>16 DEF PersistFinal
<1>17. CASE PersistFeedback BY <1>17 DEF PersistFeedback, LoopHead
<1>18. CASE GiveUp BY <1>18 DEF GiveUp
<1>19. CASE AwaitRaises BY <1>19 DEF AwaitRaises
<1>20. CASE Interrupt BY <1>20 DEF Interrupt
<1>21. CASE CommitFails BY <1>21 DEF CommitFails, InPytest
<1>22. CASE FailRun BY <1>22 DEF FailRun
<1>23. CASE FailureIsLost BY <1>23 DEF FailureIsLost
<1>24. CASE Crash BY <1>24 DEF Crash
<1>25. CASE UNCHANGED vars BY <1>25 DEF vars
<1> QED BY <1>1, <1>2, <1>3, <1>4, <1>5, <1>6, <1>7, <1>8, <1>9, <1>10, <1>11, <1>12,
           <1>13, <1>14, <1>15, <1>16, <1>17, <1>18, <1>19, <1>20, <1>21, <1>22,
           <1>23, <1>24, <1>25 DEF Next, Progress, Turn, Verification

\* The runner's own evidence is of an earlier call, or of the present one.
LEMMA EvidenceStep ==
  ASSUME IInv, [Next]_vars
  PROVE  EvidenceInv'
<1> USE LimitsAssumption DEF IInv, TypeOK, EvidenceInv, Execution, Locations, Awaits, Commits, Stopped, Over, rows, locals
<1>1. CASE CreateRun BY <1>1 DEF CreateRun
<1>2. CASE BuildContext BY <1>2 DEF BuildContext
<1>3. CASE PersistSystem BY <1>3 DEF PersistSystem
<1>4. CASE PersistUser BY <1>4 DEF PersistUser, LoopHead
<1>5. CASE ModelReplies BY <1>5 DEF ModelReplies
<1>6. CASE PersistAssistant BY <1>6 DEF PersistAssistant
<1>7. CASE Complete BY <1>7 DEF Complete
<1>8. CASE StartCall BY <1>8 DEF StartCall, OpensAttempt
<1>9. CASE ToolRuns BY <1>9 DEF ToolRuns, PatchRuns, PytestRuns
<1>10. CASE PersistEvent BY <1>10 DEF PersistEvent, PatchApplied
<1>11. CASE PersistResults BY <1>11 DEF PersistResults, LoopHead
<1>12. CASE PersistVerifyCall BY <1>12 DEF PersistVerifyCall
<1>13. CASE VerifyRuns BY <1>13 DEF VerifyRuns, PytestRuns
<1>14. CASE PersistVerifyEvent BY <1>14 DEF PersistVerifyEvent
<1>15. CASE PersistEvidence BY <1>15 DEF PersistEvidence, CountVerification
<1>16. CASE PersistFinal BY <1>16 DEF PersistFinal
<1>17. CASE PersistFeedback BY <1>17 DEF PersistFeedback, LoopHead
<1>18. CASE GiveUp BY <1>18 DEF GiveUp
<1>19. CASE AwaitRaises BY <1>19 DEF AwaitRaises
<1>20. CASE Interrupt
  <2>1. pc' = "failing" BY <1>20 DEF Interrupt
  <2>2. \A e \in evidence' : ~e.byModel => e.full
    <3>1. CASE ~InPytest BY <1>20, <3>1 DEF Interrupt
    <3>2. CASE InPytest
      <4>1. PICK full \in BOOLEAN :
              /\ pc = "verify" => full
              /\ evidence' = evidence \cup
                   {[seq |-> toolSeq, byModel |-> pc = "tool", full |-> full,
                     verified |-> FALSE, tree |-> tree]}
        BY <1>20, <3>2 DEF Interrupt
      <4> DEFINE new == [seq |-> toolSeq, byModel |-> pc = "tool", full |-> full,
                         verified |-> FALSE, tree |-> tree]
      <4>2. (new.byModel <=> pc = "tool") /\ (new.full <=> full) BY Zenon
      <4>3. ~new.byModel => new.full BY <3>2, <4>1, <4>2, Zenon DEF InPytest
      <4> HIDE DEF new
      <4>4. evidence' = evidence \cup {new} BY <4>1 DEF new
      <4> QED BY <4>3, <4>4
    <3> QED BY <3>1, <3>2
  <2> QED BY <2>1, <2>2
<1>21. CASE CommitFails BY <1>21 DEF CommitFails
<1>22. CASE FailRun BY <1>22 DEF FailRun
<1>23. CASE FailureIsLost BY <1>23 DEF FailureIsLost
<1>24. CASE Crash BY <1>24 DEF Crash
<1>25. CASE UNCHANGED vars BY <1>25 DEF vars
<1> QED BY <1>1, <1>2, <1>3, <1>4, <1>5, <1>6, <1>7, <1>8, <1>9, <1>10, <1>11, <1>12,
           <1>13, <1>14, <1>15, <1>16, <1>17, <1>18, <1>19, <1>20, <1>21, <1>22,
           <1>23, <1>24, <1>25 DEF Next, Progress, Turn, Verification

\* The counters stand where the rows do.
LEMMA CounterStep ==
  ASSUME IInv, [Next]_vars
  PROVE  CounterInv'
<1> USE LimitsAssumption DEF IInv, TypeOK, CounterInv, Locations, Awaits, Commits, Stopped, Over, InVerification, rows, locals
<1>1. CASE CreateRun BY <1>1 DEF CreateRun
<1>2. CASE BuildContext BY <1>2 DEF BuildContext
<1>3. CASE PersistSystem BY <1>3 DEF PersistSystem, Persist
<1>4. CASE PersistUser
  <2>1. pc' \in {"model", "failing"} BY <1>4 DEF PersistUser, LoopHead
  <2>2. Len(transcript') = Len(transcript) + 1 BY <1>4 DEF PersistUser, Persist
  <2>3. /\ Len(transcript) = 1 /\ msgSeq = 3 /\ Len(events) + 1 = toolSeq
        /\ UNCHANGED <<msgSeq, toolSeq, events>>
    BY <1>4 DEF PersistUser
  <2> HIDE DEF IInv, TypeOK
  <2> QED BY <2>1, <2>2, <2>3
<1>5. CASE ModelReplies BY <1>5 DEF ModelReplies
<1>6. CASE PersistAssistant BY <1>6 DEF PersistAssistant, Persist
<1>7. CASE Complete BY <1>7 DEF Complete
<1>8. CASE StartCall BY <1>8 DEF StartCall
<1>9. CASE ToolRuns BY <1>9 DEF ToolRuns
<1>10. CASE PersistEvent BY <1>10 DEF PersistEvent, PatchApplied, RecordEvent
<1>11. CASE PersistResults BY <1>11 DEF PersistResults, LoopHead, Persist
<1>12. CASE PersistVerifyCall BY <1>12 DEF PersistVerifyCall, Persist
<1>13. CASE VerifyRuns BY <1>13 DEF VerifyRuns
<1>14. CASE PersistVerifyEvent BY <1>14 DEF PersistVerifyEvent, RecordEvent
<1>15. CASE PersistEvidence BY <1>15 DEF PersistEvidence, CountVerification, Persist
<1>16. CASE PersistFinal BY <1>16 DEF PersistFinal, Persist
<1>17. CASE PersistFeedback
  <2>1. pc' \in {"model", "failing"} BY <1>17 DEF PersistFeedback, LoopHead
  <2>2. Len(transcript') = Len(transcript) + 1 BY <1>17 DEF PersistFeedback, Persist
  <2> QED BY <1>17, <2>1, <2>2 DEF PersistFeedback
<1>18. CASE GiveUp BY <1>18 DEF GiveUp
<1>19. CASE AwaitRaises BY <1>19 DEF AwaitRaises
<1>20. CASE Interrupt BY <1>20 DEF Interrupt
<1>21. CASE CommitFails BY <1>21 DEF CommitFails
<1>22. CASE FailRun BY <1>22 DEF FailRun
<1>23. CASE FailureIsLost BY <1>23 DEF FailureIsLost
<1>24. CASE Crash BY <1>24 DEF Crash
<1>25. CASE UNCHANGED vars BY <1>25 DEF vars
<1> QED BY <1>1, <1>2, <1>3, <1>4, <1>5, <1>6, <1>7, <1>8, <1>9, <1>10, <1>11, <1>12,
           <1>13, <1>14, <1>15, <1>16, <1>17, <1>18, <1>19, <1>20, <1>21, <1>22,
           <1>23, <1>24, <1>25 DEF Next, Progress, Turn, Verification

\* Rows keep their numbers, and a new one takes the next.
LEMMA SequencesStep ==
  ASSUME IInv, [Next]_vars
  PROVE  SequencesDense'
<1> USE LimitsAssumption DEF IInv, TypeOK, SequencesDense, CounterInv, Over, Stopped, InVerification, rows, locals
<1>1. CASE CreateRun BY <1>1 DEF CreateRun
<1>2. CASE BuildContext BY <1>2 DEF BuildContext
<1>3. CASE PersistSystem BY <1>3 DEF PersistSystem, Persist
<1>4. CASE PersistUser
  <2> DEFINE row == [seq |-> 2, what |-> "user", calls |-> 0, answers |-> 0]
  <2>0. Len(transcript) = 1 /\ row.seq = 2 BY <1>4 DEF PersistUser
  <2>1. events' = events /\ transcript' = Append(transcript, row)
    BY <1>4 DEF PersistUser, Persist
  <2>2. /\ transcript \in Seq(Message) /\ \A i \in DOMAIN transcript : transcript[i].seq = i
        /\ \A i \in DOMAIN events : events[i].seq = i
    OBVIOUS
  <2>4. row.seq = Len(transcript) + 1 BY <2>0
  <2> HIDE DEF row, IInv, TypeOK, CounterInv
  <2>3. \A i \in DOMAIN Append(transcript, row) : Append(transcript, row)[i].seq = i
    BY <2>2, <2>4, NumberedAppend
  <2> QED BY <2>1, <2>2, <2>3
<1>5. CASE ModelReplies BY <1>5 DEF ModelReplies
<1>6. CASE PersistAssistant BY <1>6 DEF PersistAssistant, Persist
<1>7. CASE Complete BY <1>7 DEF Complete
<1>8. CASE StartCall BY <1>8 DEF StartCall
<1>9. CASE ToolRuns BY <1>9 DEF ToolRuns
<1>10. CASE PersistEvent BY <1>10 DEF PersistEvent, PatchApplied, RecordEvent
<1>11. CASE PersistResults BY <1>11 DEF PersistResults, Persist
<1>12. CASE PersistVerifyCall BY <1>12 DEF PersistVerifyCall, Persist
<1>13. CASE VerifyRuns BY <1>13 DEF VerifyRuns
<1>14. CASE PersistVerifyEvent BY <1>14 DEF PersistVerifyEvent, RecordEvent
<1>15. CASE PersistEvidence BY <1>15 DEF PersistEvidence, CountVerification, Persist
<1>16. CASE PersistFinal BY <1>16, SMTT(30) DEF PersistFinal, Persist
<1>17. CASE PersistFeedback BY <1>17 DEF PersistFeedback, Persist
<1>18. CASE GiveUp BY <1>18 DEF GiveUp
<1>19. CASE AwaitRaises BY <1>19 DEF AwaitRaises
<1>20. CASE Interrupt BY <1>20 DEF Interrupt
<1>21. CASE CommitFails BY <1>21 DEF CommitFails
<1>22. CASE FailRun BY <1>22 DEF FailRun
<1>23. CASE FailureIsLost BY <1>23 DEF FailureIsLost
<1>24. CASE Crash BY <1>24 DEF Crash
<1>25. CASE UNCHANGED vars BY <1>25 DEF vars
<1> QED BY <1>1, <1>2, <1>3, <1>4, <1>5, <1>6, <1>7, <1>8, <1>9, <1>10, <1>11, <1>12,
           <1>13, <1>14, <1>15, <1>16, <1>17, <1>18, <1>19, <1>20, <1>21, <1>22,
           <1>23, <1>24, <1>25 DEF Next, Progress, Turn, Verification

\* There are finitely many events, so their count is a number.
LEMMA VerifyEventsFinite ==
  ASSUME TypeOK
  PROVE  IsFiniteSet(VerifyEvents) /\ Cardinality(VerifyEvents) \in Nat
<1>1. DOMAIN events = 1 .. Len(events) /\ Len(events) \in Int BY DEF TypeOK
<1>2. VerifyEvents \in SUBSET (1 .. Len(events)) BY <1>1 DEF VerifyEvents
<1>3. IsFiniteSet(1 .. Len(events)) BY <1>1, FS_Interval
<1>4. IsFiniteSet(VerifyEvents) BY <1>2, <1>3, FS_Subset
<1> QED BY <1>4, FS_CardinalityType

\* Recording an event counts as a verification exactly when it is one.
LEMMA VerifyEventsStep ==
  ASSUME TypeOK, NEW tool \in Tools, NEW verify \in BOOLEAN, RecordEvent(tool, verify)
  PROVE  /\ ~verify => VerifyEvents' = VerifyEvents
         /\ verify => Cardinality(VerifyEvents') = Cardinality(VerifyEvents) + 1
<1>1. /\ Len(events') = Len(events) + 1
      /\ \A i \in DOMAIN events : events'[i] = events[i]
      /\ events'[Len(events) + 1].verify = verify
  BY DEF RecordEvent, TypeOK
<1>2. DOMAIN events = 1 .. Len(events) /\ DOMAIN events' = 1 .. Len(events) + 1
  BY <1>1 DEF RecordEvent, TypeOK
<1>3. \A i \in 1 .. Len(events) : i \in VerifyEvents' <=> i \in VerifyEvents
  BY <1>1, <1>2 DEF VerifyEvents
<1>4. Len(events) + 1 \in VerifyEvents' <=> verify
  BY <1>1, <1>2, Len(events) \in Nat DEF VerifyEvents, TypeOK
<1>5. VerifyEvents \subseteq 1 .. Len(events) /\ VerifyEvents' \subseteq 1 .. Len(events) + 1
  BY <1>2 DEF VerifyEvents
<1>6. Len(events) \in Nat BY DEF TypeOK
<1> DEFINE before == VerifyEvents  after == VerifyEvents'  n == Len(events)
<1> HIDE DEF before, after, n
<1>a. /\ n \in Nat /\ before \subseteq 1 .. n /\ after \subseteq 1 .. n + 1
      /\ \A i \in 1 .. n : i \in after <=> i \in before
      /\ n + 1 \in after <=> verify
  BY <1>3, <1>4, <1>5, <1>6 DEF before, after, n
<1>7. CASE ~verify
  <2>1. \A i \in 1 .. n + 1 : i \in 1 .. n \/ i = n + 1 BY <1>a
  <2>2. \A i : i \in after <=> i \in before BY <1>a, <1>7, <2>1
  <2>3. before = after BY <2>2
  <2> QED BY <2>3, <1>7 DEF before, after
<1>8. CASE verify
  <2>4. \A i \in 1 .. n + 1 : i \in 1 .. n \/ i = n + 1 BY <1>a
  <2>5. \A i : i \in after <=> i \in before \/ i = n + 1 BY <1>a, <1>8, <2>4
  <2>0. after = before \cup {n + 1} BY <2>5
  <2>1. VerifyEvents' = VerifyEvents \cup {Len(events) + 1}
    BY <2>0 DEF before, after, n
  <2>2. Len(events) + 1 \notin VerifyEvents BY <1>5, <1>6
  <2>3. IsFiniteSet(VerifyEvents) BY VerifyEventsFinite
  <2> QED BY <2>1, <2>2, <2>3, FS_AddElement, <1>8
<1> QED BY <1>7, <1>8

\* The unanswered calls are those of the last row.
LEMMA PendingStep ==
  ASSUME IInv, [Next]_vars
  PROVE  PendingInv'
<1> USE LimitsAssumption DEF IInv, TypeOK, PendingInv, Answered, StatusInv, InBatch, Over, Stopped, InVerification, rows, locals
<1>1. CASE CreateRun BY <1>1 DEF CreateRun
<1>2. CASE BuildContext BY <1>2 DEF BuildContext
<1>3. CASE PersistSystem BY <1>3 DEF PersistSystem, Persist
<1>4. CASE PersistUser BY <1>4 DEF PersistUser, Persist, LoopHead
<1>5. CASE ModelReplies BY <1>5 DEF ModelReplies
<1>6. CASE PersistAssistant
  <2> DEFINE row == [seq |-> msgSeq, what |-> "assistant", calls |-> Len(reply), answers |-> 0]
  <2>1. /\ transcript' = Append(transcript, row) /\ next' = 1 /\ UNCHANGED <<run, reply>>
        /\ pc' \in {"call", "failing", "complete"}
        /\ pc' = "call" <=> reply # <<>>
    BY <1>6 DEF PersistAssistant, Persist
  <2>2. /\ Len(reply) \in Nat /\ (reply = <<>> <=> Len(reply) = 0)
        /\ row.calls = Len(reply) /\ transcript \in Seq(Message)
        /\ \A i \in DOMAIN transcript : Answered(i)
    BY <1>6 DEF PersistAssistant
  <2>3. /\ DOMAIN transcript' = 1 .. Len(transcript) + 1 /\ Len(transcript') = Len(transcript) + 1
        /\ DOMAIN transcript = 1 .. Len(transcript) /\ Len(transcript) \in Nat
        /\ \A i \in 1 .. Len(transcript) : transcript'[i] = transcript[i]
        /\ transcript'[Len(transcript) + 1] = row /\ transcript' # <<>>
    BY <2>1, <2>2, AppendFacts, SMTT(30)
  <2>4. run'.status # "completed" BY <1>6 DEF PersistAssistant
  <2> HIDE DEF row, IInv, TypeOK, StatusInv
  <2>5. \A i \in DOMAIN transcript' :
          Answered(i)' \/ (i = Len(transcript') /\ (reply # <<>> \/ row.calls = 0))
    BY <2>2, <2>3
  <2> QED BY <2>1, <2>2, <2>3, <2>4, <2>5
<1>7. CASE Complete BY <1>7 DEF Complete
<1>8. CASE StartCall BY <1>8 DEF StartCall
<1>9. CASE ToolRuns BY <1>9 DEF ToolRuns
<1>10. CASE PersistEvent BY <1>10 DEF PersistEvent, PatchApplied, RecordEvent
<1>11. CASE PersistResults
  <2> DEFINE row == [seq |-> msgSeq, what |-> "results", calls |-> 0, answers |-> next - 1]
             last == Len(transcript)
  <2>1. /\ transcript' = Append(transcript, row) /\ UNCHANGED <<run, reply>>
        /\ pc' \in {"verifyCall", "unrepaired", "model", "failing"}
    BY <1>11 DEF PersistResults, Persist, LoopHead
  <2>2. /\ row.calls = 0 /\ row.answers = Len(reply) /\ transcript \in Seq(Message)
        /\ last \in 1 .. last /\ transcript[last].calls = Len(reply)
        /\ \A i \in DOMAIN transcript : Answered(i) \/ i = last
    BY <1>11 DEF PersistResults
  <2>3. /\ DOMAIN transcript' = 1 .. last + 1 /\ DOMAIN transcript = 1 .. last
        /\ last \in Nat
        /\ \A i \in 1 .. last : transcript'[i] = transcript[i]
        /\ transcript'[last + 1] = row
    BY <2>1, <2>2, AppendFacts
  <2>4. run'.status # "completed" BY <1>11, <2>1 DEF PersistResults
  <2> HIDE DEF row, last, IInv, TypeOK, StatusInv
  <2>5. \A i \in 1 .. last : Answered(i)'
    BY <2>2, <2>3
  <2>6. \A i \in DOMAIN transcript' \ (1 .. last) : Answered(i)'
    BY <2>2, <2>3
  <2>7. \A i \in DOMAIN transcript' : Answered(i)' BY <2>5, <2>6
  <2> QED BY <2>1, <2>4, <2>7
<1>12. CASE PersistVerifyCall BY <1>12 DEF PersistVerifyCall, Persist
<1>13. CASE VerifyRuns BY <1>13 DEF VerifyRuns
<1>14. CASE PersistVerifyEvent BY <1>14 DEF PersistVerifyEvent, RecordEvent
<1>15. CASE PersistEvidence BY <1>15 DEF PersistEvidence, CountVerification, Persist
<1>16. CASE PersistFinal
  <2> DEFINE row == [seq |-> msgSeq, what |-> "final", calls |-> 0, answers |-> 0]
  <2>1. transcript' = Append(transcript, row) /\ pc' = "returned"
    BY <1>16 DEF PersistFinal, Persist
  <2>2. /\ row.calls = 0 /\ transcript \in Seq(Message)
        /\ \A i \in DOMAIN transcript : Answered(i)
    BY <1>16 DEF PersistFinal
  <2>3. /\ DOMAIN transcript' = 1 .. Len(transcript) + 1
        /\ DOMAIN transcript = 1 .. Len(transcript) /\ Len(transcript) \in Nat
        /\ \A i \in 1 .. Len(transcript) : transcript'[i] = transcript[i]
        /\ transcript'[Len(transcript) + 1] = row
    BY <2>1, <2>2, AppendFacts
  <2> HIDE DEF row, IInv, TypeOK, StatusInv
  <2>4. \A i \in DOMAIN transcript' : Answered(i)' BY <2>2, <2>3
  <2> QED BY <2>1, <2>4
<1>17. CASE PersistFeedback BY <1>17 DEF PersistFeedback, Persist, LoopHead
<1>18. CASE GiveUp BY <1>18 DEF GiveUp
<1>19. CASE AwaitRaises BY <1>19 DEF AwaitRaises
<1>20. CASE Interrupt BY <1>20 DEF Interrupt
<1>21. CASE CommitFails BY <1>21 DEF CommitFails, InPytest
<1>22. CASE FailRun BY <1>22 DEF FailRun
<1>23. CASE FailureIsLost BY <1>23 DEF FailureIsLost
<1>24. CASE Crash BY <1>24 DEF Crash
<1>25. CASE UNCHANGED vars BY <1>25 DEF vars
<1> QED BY <1>1, <1>2, <1>3, <1>4, <1>5, <1>6, <1>7, <1>8, <1>9, <1>10, <1>11, <1>12,
           <1>13, <1>14, <1>15, <1>16, <1>17, <1>18, <1>19, <1>20, <1>21, <1>22,
           <1>23, <1>24, <1>25 DEF Next, Progress, Turn, Verification

\* Batches and suites stay within the budget.
LEMMA BudgetStep ==
  ASSUME IInv, [Next]_vars
  PROVE  BudgetInv'
<1> USE LimitsAssumption DEF IInv, TypeOK, BudgetInv, InBatch, Over, Stopped, InVerification, rows, locals
<1>1. CASE CreateRun BY <1>1 DEF CreateRun, VerifyEvents
<1>2. CASE BuildContext BY <1>2 DEF BuildContext, VerifyEvents
<1>3. CASE PersistSystem BY <1>3 DEF PersistSystem, VerifyEvents
<1>4. CASE PersistUser BY <1>4 DEF PersistUser, LoopHead, VerifyEvents
<1>5. CASE ModelReplies BY <1>5 DEF ModelReplies, VerifyEvents
<1>6. CASE PersistAssistant BY <1>6 DEF PersistAssistant, VerifyEvents
<1>7. CASE Complete BY <1>7 DEF Complete, VerifyEvents
<1>8. CASE StartCall
  <2>1. Cardinality(VerifyEvents) \in Nat /\ VerifyEvents' = VerifyEvents
    BY <1>8, VerifyEventsFinite DEF StartCall, VerifyEvents
  <2>2. CASE OpensAttempt
    <3>1. /\ run'.attempts = run.attempts + 1 /\ pc' = "tool"
          /\ run.attempts < MaxRepairAttempts /\ ~attempted /\ attempted'
      BY <1>8, <2>2 DEF StartCall, OpensAttempt
    <3> QED BY <2>1, <3>1
  <2>3. CASE ~OpensAttempt
    <3>1. run' = run /\ pc' = "tool" /\ (attempted' <=> attempted)
      BY <1>8, <2>3 DEF StartCall
    <3> QED BY <1>8, <2>1, <3>1 DEF StartCall
  <2> QED BY <2>2, <2>3
<1>9. CASE ToolRuns BY <1>9 DEF ToolRuns, VerifyEvents
<1>10. CASE PersistEvent
  <2>1. reply[next] \in Tools BY <1>10 DEF PersistEvent, PatchApplied, PendingInv
  <2>2. VerifyEvents' = VerifyEvents BY <1>10, <2>1, VerifyEventsStep DEF PersistEvent, PatchApplied
  <2> QED BY <1>10, <2>2 DEF PersistEvent, PatchApplied
<1>11. CASE PersistResults BY <1>11 DEF PersistResults, LoopHead, VerifyEvents
<1>12. CASE PersistVerifyCall BY <1>12 DEF PersistVerifyCall, VerifyEvents
<1>13. CASE VerifyRuns BY <1>13 DEF VerifyRuns, VerifyEvents
<1>14. CASE PersistVerifyEvent
  <2>1. Cardinality(VerifyEvents') = Cardinality(VerifyEvents) + 1
    BY <1>14, VerifyEventsStep DEF PersistVerifyEvent, Tools
  <2>2. Cardinality(VerifyEvents) \in Nat BY VerifyEventsFinite
  <2> QED BY <1>14, <2>1, <2>2 DEF PersistVerifyEvent
<1>15. CASE PersistEvidence BY <1>15 DEF PersistEvidence, CountVerification, VerifyEvents
<1>16. CASE PersistFinal BY <1>16 DEF PersistFinal, VerifyEvents
<1>17. CASE PersistFeedback BY <1>17 DEF PersistFeedback, LoopHead, AttemptsExhausted, VerifyEvents
<1>18. CASE GiveUp BY <1>18 DEF GiveUp, VerifyEvents
<1>19. CASE AwaitRaises BY <1>19 DEF AwaitRaises, VerifyEvents
<1>20. CASE Interrupt BY <1>20 DEF Interrupt, VerifyEvents
<1>21. CASE CommitFails BY <1>21 DEF CommitFails, VerifyEvents
<1>22. CASE FailRun BY <1>22 DEF FailRun, VerifyEvents
<1>23. CASE FailureIsLost BY <1>23 DEF FailureIsLost, VerifyEvents
<1>24. CASE Crash BY <1>24 DEF Crash, VerifyEvents
<1>25. CASE UNCHANGED vars BY <1>25 DEF vars, VerifyEvents
<1> QED BY <1>1, <1>2, <1>3, <1>4, <1>5, <1>6, <1>7, <1>8, <1>9, <1>10, <1>11, <1>12,
           <1>13, <1>14, <1>15, <1>16, <1>17, <1>18, <1>19, <1>20, <1>21, <1>22,
           <1>23, <1>24, <1>25 DEF Next, Progress, Turn, Verification

\* A patch without a later suite belongs to the current batch.
LEMMA PatchStep ==
  ASSUME IInv, [Next]_vars
  PROVE  PatchInv'
<1> USE LimitsAssumption DEF IInv, TypeOK, PatchInv, Covered, PendingInv, InBatch, Over, Stopped, InVerification, rows, locals
<1>1. CASE CreateRun BY <1>1 DEF CreateRun
<1>2. CASE BuildContext BY <1>2 DEF BuildContext
<1>3. CASE PersistSystem BY <1>3 DEF PersistSystem, Persist
<1>4. CASE PersistUser BY <1>4 DEF PersistUser, Persist, LoopHead
<1>5. CASE ModelReplies BY <1>5 DEF ModelReplies
<1>6. CASE PersistAssistant BY <1>6 DEF PersistAssistant, Persist
<1>7. CASE Complete BY <1>7 DEF Complete
<1>8. CASE StartCall BY <1>8 DEF StartCall, OpensAttempt
<1>9. CASE ToolRuns BY <1>9 DEF ToolRuns
<1>10. CASE PersistEvent
  <2> DEFINE row == [seq |-> toolSeq, tool |-> reply[next], verify |-> FALSE, error |-> toolError]
  <2>1. /\ events' = Append(events, row) /\ pc' \in {"call", "results"} /\ pc = "event"
        /\ UNCHANGED <<kind, attempted, reply>>
    BY <1>10 DEF PersistEvent, PatchApplied, RecordEvent
  <2>2. applied' <=> applied \/ (kind = "bug_fix" /\ reply[next] = "apply_patch" /\ ~toolError)
    BY <1>10 DEF PersistEvent, PatchApplied
  <2>3. /\ DOMAIN events' = 1 .. Len(events) + 1
        /\ DOMAIN events = 1 .. Len(events) /\ Len(events) \in Nat
        /\ \A i \in 1 .. Len(events) : events'[i] = events[i]
        /\ events'[Len(events) + 1] = row
    BY <2>1, AppendFacts
  <2>4. row.tool = reply[next] /\ (row.error <=> toolError) BY Zenon
  <2> HIDE DEF row
  <2>5. kind = "bug_fix" => \A i \in DOMAIN events' :
          events'[i].tool = "apply_patch" /\ ~events'[i].error => Covered(i)' \/ applied'
    <3> SUFFICES ASSUME kind = "bug_fix", NEW i \in DOMAIN events',
                        events'[i].tool = "apply_patch", ~events'[i].error
                 PROVE  Covered(i)' \/ applied'
      OBVIOUS
    <3>1. CASE i \in 1 .. Len(events) BY <2>1, <2>2, <2>3, <3>1
    <3>2. CASE i = Len(events) + 1 BY <2>2, <2>3, <2>4, <3>2
    <3> QED BY <2>3, <3>1, <3>2
  <2> QED BY <2>1, <2>2, <2>5
<1>11. CASE PersistResults BY <1>11 DEF PersistResults, Persist, LoopHead
<1>12. CASE PersistVerifyCall BY <1>12 DEF PersistVerifyCall, Persist
<1>13. CASE VerifyRuns BY <1>13 DEF VerifyRuns
<1>14. CASE PersistVerifyEvent
  <2> DEFINE row == [seq |-> toolSeq, tool |-> "run_pytest", verify |-> TRUE, error |-> toolError]
  <2>1. events' = Append(events, row) /\ pc' = "evidence"
    BY <1>14 DEF PersistVerifyEvent, RecordEvent
  <2>2. /\ DOMAIN events' = 1 .. Len(events) + 1
        /\ DOMAIN events = 1 .. Len(events) /\ Len(events) \in Nat
        /\ \A i \in 1 .. Len(events) : events'[i] = events[i]
        /\ events'[Len(events) + 1] = row
    BY <2>1, AppendFacts
  <2>3. row.tool = "run_pytest" /\ row.verify BY Zenon
  <2> HIDE DEF row
  <2>4. \A i \in 1 .. Len(events) : Covered(i)' BY <2>2, <2>3
  <2>5. events'[Len(events) + 1].tool # "apply_patch" BY <2>2, <2>3
  <2> QED BY <2>1, <2>2, <2>4, <2>5
<1>15. CASE PersistEvidence BY <1>15 DEF PersistEvidence, CountVerification, Persist
<1>16. CASE PersistFinal BY <1>16 DEF PersistFinal, Persist
<1>17. CASE PersistFeedback BY <1>17 DEF PersistFeedback, Persist, LoopHead
<1>18. CASE GiveUp BY <1>18 DEF GiveUp
<1>19. CASE AwaitRaises BY <1>19 DEF AwaitRaises
<1>20. CASE Interrupt BY <1>20 DEF Interrupt
<1>21. CASE CommitFails BY <1>21 DEF CommitFails
<1>22. CASE FailRun BY <1>22 DEF FailRun
<1>23. CASE FailureIsLost BY <1>23 DEF FailureIsLost
<1>24. CASE Crash BY <1>24 DEF Crash
<1>25. CASE UNCHANGED vars BY <1>25 DEF vars
<1> QED BY <1>1, <1>2, <1>3, <1>4, <1>5, <1>6, <1>7, <1>8, <1>9, <1>10, <1>11, <1>12,
           <1>13, <1>14, <1>15, <1>16, <1>17, <1>18, <1>19, <1>20, <1>21, <1>22,
           <1>23, <1>24, <1>25 DEF Next, Progress, Turn, Verification

\* A verdict rests on evidence of the tree as it is left.
LEMMA CompletedStep ==
  ASSUME IInv, [Next]_vars
  PROVE  CompletedRepairWasTested'
<1> USE LimitsAssumption DEF IInv, TypeOK, CompletedRepairWasTested, WasTested, StatusInv, Stopped, Awaits, Commits, rows, locals
<1>1. CASE CreateRun BY <1>1 DEF CreateRun
<1>2. CASE BuildContext BY <1>2 DEF BuildContext
<1>3. CASE PersistSystem BY <1>3 DEF PersistSystem
<1>4. CASE PersistUser BY <1>4 DEF PersistUser
<1>5. CASE ModelReplies BY <1>5 DEF ModelReplies
<1>6. CASE PersistAssistant BY <1>6 DEF PersistAssistant
<1>7. CASE Complete BY <1>7 DEF Complete
<1>8. CASE StartCall BY <1>8 DEF StartCall
<1>9. CASE ToolRuns BY <1>9 DEF ToolRuns, PatchRuns, PytestRuns
<1>10. CASE PersistEvent BY <1>10 DEF PersistEvent, PatchApplied
<1>11. CASE PersistResults BY <1>11 DEF PersistResults
<1>12. CASE PersistVerifyCall BY <1>12 DEF PersistVerifyCall
<1>13. CASE VerifyRuns BY <1>13 DEF VerifyRuns, PytestRuns
<1>14. CASE PersistVerifyEvent BY <1>14 DEF PersistVerifyEvent
<1>15. CASE PersistEvidence BY <1>15 DEF PersistEvidence, CountVerification
<1>16. CASE PersistFinal BY <1>16 DEF PersistFinal
<1>17. CASE PersistFeedback BY <1>17 DEF PersistFeedback
<1>18. CASE GiveUp BY <1>18 DEF GiveUp
<1>19. CASE AwaitRaises BY <1>19 DEF AwaitRaises
<1>20. CASE Interrupt BY <1>20 DEF Interrupt
<1>21. CASE CommitFails BY <1>21 DEF CommitFails
<1>22. CASE FailRun BY <1>22 DEF FailRun
<1>23. CASE FailureIsLost BY <1>23 DEF FailureIsLost
<1>24. CASE Crash BY <1>24 DEF Crash
<1>25. CASE UNCHANGED vars BY <1>25 DEF vars
<1> QED BY <1>1, <1>2, <1>3, <1>4, <1>5, <1>6, <1>7, <1>8, <1>9, <1>10, <1>11, <1>12,
           <1>13, <1>14, <1>15, <1>16, <1>17, <1>18, <1>19, <1>20, <1>21, <1>22,
           <1>23, <1>24, <1>25 DEF Next, Progress, Turn, Verification

--------------------------------------------------------------------------------

\* The invariant holds initially and every step keeps it.
THEOREM Inductive == Spec => []IInv
<1>1. Init => IInv
  <2> SUFFICES ASSUME Init PROVE IInv
    OBVIOUS
  <2> USE LimitsAssumption DEF Init
  <2>1. TypeOK
    <3>1. /\ text \in BOOLEAN /\ attempted \in BOOLEAN /\ applied \in BOOLEAN
          /\ toolError \in BOOLEAN
      BY Zenon
    <3>2. run \in [status : {"none", "running", "completed", "failed"},
                  attempts : Nat, verified : BOOLEAN]
      OBVIOUS
    <3>3. /\ pc \in Locations /\ kind \in Kinds /\ cause \in Causes /\ tree \in Nat
          /\ turn \in Nat /\ next \in Nat \ {0} /\ msgSeq \in Nat /\ toolSeq \in Nat
          /\ faults \in Nat
      BY DEF Locations, Causes
    <3>4. /\ transcript \in Seq(Message) /\ events \in Seq(Event) /\ reply \in Seq(Tools)
          /\ evidence \in SUBSET Execution
      OBVIOUS
    <3> QED BY <3>1, <3>2, <3>3, <3>4 DEF TypeOK
  <2>2. StatusInv /\ EvidenceInv /\ SequencesDense /\ CompletedRepairWasTested
    BY DEF StatusInv, EvidenceInv, SequencesDense, CompletedRepairWasTested
  <2>3. CounterInv BY DEF CounterInv, InVerification, Over, Stopped
  <2>4. PendingInv BY DEF PendingInv, InBatch, InVerification, Over, Stopped
  <2>5. VerifyEvents = {} /\ Cardinality({}) = 0 BY FS_EmptySet DEF VerifyEvents
  <2>6. BudgetInv BY <2>5 DEF BudgetInv, InBatch, InVerification
  <2>7. PatchInv BY DEF PatchInv, InBatch, Over, Stopped
  <2> QED BY <2>1, <2>2, <2>3, <2>4, <2>6, <2>7 DEF IInv
<1>2. IInv /\ [Next]_vars => IInv'
  <2> SUFFICES ASSUME IInv, [Next]_vars PROVE IInv'
    OBVIOUS
  <2>1. TypeOK' BY TypeStep DEF IInv
  <2>2. StatusInv' /\ EvidenceInv' /\ SequencesDense' /\ CounterInv'
    BY StatusStep, EvidenceStep, SequencesStep, CounterStep
  <2>3. PendingInv' /\ BudgetInv' /\ PatchInv' /\ CompletedRepairWasTested'
    BY PendingStep, BudgetStep, PatchStep, CompletedStep
  <2> QED BY <2>1, <2>2, <2>3 DEF IInv
<1> QED BY <1>1, <1>2, PTL DEF Spec

\* Type correctness of the whole state.
THEOREM TypeCorrect == Spec => []TypeOK
<1>1. IInv => TypeOK BY DEF IInv
<1> QED BY <1>1, Inductive, PTL

\* A completed bug-fix run, and any verified run, was tested by the runner itself
\* with the full suite, on the tree it leaves behind (_verify_repair).
THEOREM CompletedRepairIsTested == Spec => []CompletedRepairWasTested
<1>1. IInv => CompletedRepairWasTested BY DEF IInv
<1> QED BY <1>1, Inductive, PTL

\* The rows of a run are numbered without gaps or collisions (_execute_loop).
THEOREM SequencesAreDense == Spec => []SequencesDense
<1>1. IInv => SequencesDense BY DEF IInv
<1> QED BY <1>1, Inductive, PTL

\* Nothing is sent to the model or replayed with an unanswered tool call.
THEOREM CallsAreAnswered == Spec => []CallsAnswered
<1>1. IInv => CallsAnswered
  BY DEF IInv, PendingInv, StatusInv, CallsAnswered, Answered, InBatch, InVerification,
         Over, Stopped
<1> QED BY <1>1, Inductive, PTL

\* Neither the batches nor the runner's suites exceed max_repair_attempts.
THEOREM RepairsAreBounded == Spec => []RepairsBounded
<1>1. IInv => RepairsBounded BY DEF IInv, BudgetInv, RepairsBounded
<1> QED BY <1>1, Inductive, PTL

\* No applied patch escapes the suite before the model is asked again.
THEOREM PatchBatchesAreVerified == Spec => []EveryPatchBatchVerified
<1>1. IInv => EveryPatchBatchVerified
  BY DEF IInv, PatchInv, EveryPatchBatchVerified, Covered, InBatch, Over, Stopped
<1> QED BY <1>1, Inductive, PTL

\* A recorded outcome is never changed: where a run has one, its coroutine is over
\* and no action is enabled.
THEOREM OutcomeIsFinal == Spec => TerminalIsFinal
<1>1. IInv /\ [Next]_vars => [run.status \in {"completed", "failed"} => run' = run]_vars
  <2> SUFFICES ASSUME IInv, [Next]_vars, run.status \in {"completed", "failed"}
               PROVE  run' = run
    OBVIOUS
  <2>1. pc \in {"returned", "raised"} BY DEF IInv, StatusInv
  <2> QED BY <2>1 DEF Next, Progress, Turn, Verification, CreateRun, BuildContext,
        PersistSystem, PersistUser, ModelReplies, PersistAssistant, Complete, StartCall,
        ToolRuns, PersistEvent, PersistResults, PersistVerifyCall, VerifyRuns,
        PersistVerifyEvent, PersistEvidence, PersistFinal, PersistFeedback, GiveUp,
        AwaitRaises, Interrupt, Awaits, CommitFails, Commits, InPytest, FailRun,
        FailureIsLost, Crash, Stopped, vars, rows
<1> QED BY <1>1, Inductive, PTL DEF Spec, TerminalIsFinal

================================================================================
