--------------------------- MODULE PatchServiceProofs ---------------------------
(***************************************************************************)
(* Proofs about PatchService for patches of any length over any files and  *)
(* contents, with any number of failing file operations and of steps of    *)
(* other writers: whose contents a transaction may overwrite, that a       *)
(* transaction that does not go through costs nobody a file, and that it   *)
(* is all or nothing: it implements PatchContract.                         *)
(***************************************************************************)
EXTENDS PatchService, TLAPS

Changing == {"precheck", "check", "write", "undoCheck", "undoWrite"}
Undoing == {"undoCheck", "undoWrite", "rmdirs", "recover"}

\* What the change at hand and the attempted prefix have to do with each other.
IndexInv ==
  /\ pc = "lock" => i = 1
  /\ pc \in Changing \cup {"validate"} => i \in 1 .. Len(changes)
  /\ pc \in {"lock", "validate", "precheck"} => attempted = 0
  /\ pc = "check" => attempted = i - 1
  /\ pc = "write" => attempted = i
  /\ pc \in {"undoCheck", "undoWrite"} => i <= attempted
  /\ pc \in {"rmdirs", "recover"} => i = 0
  /\ pc \in InFlight => Distinct

\* The file at hand is as it was checked, or somebody wrote it since.
CheckedInv ==
  /\ pc = "write" => disk[Target(i)] = changes[i].old \/ Target(i) \in raced
  /\ pc = "undoWrite" => Ours(i) \/ Target(i) \in raced

\* Only attempted files are changed by the service, and what an attempted change
\* holds as old is what the file had at the start; where others did not write.
StartInv ==
  /\ start.disk \in [Files -> Content]
  /\ \A f \in Files : \/ disk[f] = start.disk[f] \/ f \in touched
                      \/ \E k \in 1 .. attempted : Target(k) = f
  /\ raced \subseteq touched
  /\ \A k \in 1 .. attempted : changes[k].old = start.disk[Target(k)] \/ Target(k) \in touched

Back(k) == disk[Target(k)] = changes[k].old \/ Target(k) \in touched

\* The rollback has dealt with the changes behind the one at hand.
UndoneInv ==
  /\ pc \in Undoing => \A k \in (i + 1) .. attempted : Back(k) \/ k \in failures
  /\ pc \notin Undoing => failures = {} \/ pc \in {"done", "crashed"}

\* What the reports mean.
ReportInv ==
  /\ pc # "done" => outcome = "none"
  /\ outcome \in {"rejected", "dry_run"} => attempted = 0
  /\ outcome = "restored" => \A k \in 1 .. attempted : Back(k)
  /\ outcome = "incomplete" => \A k \in 1 .. attempted : Target(k) \in recovery

IInv == /\ TypeOK /\ IndexInv /\ CheckedInv /\ OthersEditsSurvive
        /\ StartInv /\ UndoneInv /\ ReportInv

\* The changes are of their types, and none is about a foreign content.
LEMMA PatchFacts ==
  ASSUME TypeOK
  PROVE  /\ Len(changes) \in Nat /\ Len(changes) >= 1 /\ DOMAIN changes = 1 .. Len(changes)
         /\ \A k \in DOMAIN changes :
              /\ Target(k) \in Files
              /\ changes[k].old \in Content \ Foreign
              /\ changes[k].new \in Content \ Foreign
<1> DEFINE Change == [file : Files, old : (Contents \ Foreign) \cup {Absent},
                      new : (Contents \ Foreign) \cup {Absent}]
<1>1. changes \in Seq(Change) /\ changes # <<>>
  BY PatchAssumption DEF TypeOK
<1>2. Len(changes) \in Nat /\ Len(changes) >= 1 /\ DOMAIN changes = 1 .. Len(changes)
      /\ \A k \in DOMAIN changes : changes[k] \in Change
  <2> HIDE DEF Change
  <2>1. Len(changes) \in Nat /\ DOMAIN changes = 1 .. Len(changes)
        /\ \A k \in 1 .. Len(changes) : changes[k] \in Change
    BY <1>1, SMT
  <2>2. Len(changes) # 0
    BY <1>1, SMT
  <2> QED BY <2>1, <2>2, SMT
<1>3. Absent \notin Foreign
  BY PatchAssumption
<1> QED BY <1>2, <1>3 DEF Target, Content

\* What nobody changes, and the places.
LEMMA PlaceStep ==
  ASSUME TypeOK, Next
  PROVE  /\ UNCHANGED <<changes, dryRun>>
         /\ pc' \in InFlight \cup {"lock", "validate", "diff", "done", "crashed"}
         /\ outcome' \in Outcomes
<1>1. UNCHANGED <<changes, dryRun>>
  BY Zenon DEF Next, TakeLock, Validate, CancelledWaiting, Precheck, Check, Write, Diff, UndoCheck, UndoWrite,
         RemoveDirectories, Recover, Edit, Crash, Undo, NextUndo, Put, Finish, Stays, Raise, service, history
<1>2. pc' \in InFlight \cup {"lock", "validate", "diff", "done", "crashed"}
  BY SMT DEF TypeOK, InFlight, Next, TakeLock, Validate, CancelledWaiting, Precheck, Check, Write, Diff, UndoCheck, UndoWrite,
         RemoveDirectories, Recover, Edit, Crash, Undo, NextUndo, Put, Finish, Stays, Raise, service, history
<1>3. outcome' \in Outcomes
  BY SMT DEF TypeOK, Outcomes, Next, TakeLock, Validate, CancelledWaiting, Precheck, Check, Write, Diff, UndoCheck, UndoWrite,
         RemoveDirectories, Recover, Edit, Crash, Undo, NextUndo, Put, Finish, Stays, Raise, service, history
<1> QED BY <1>1, <1>2, <1>3

\* The next of n changes.
LEMMA NextIndex ==
  ASSUME NEW n \in Nat, NEW k \in 1 .. n, k # n
  PROVE  k + 1 \in 1 .. n /\ (k + 1) - 1 = k
  OBVIOUS

\* The number of a change, and what may follow it, are between the bounds of all.
LEMMA InRange ==
  ASSUME NEW n \in Nat, NEW k \in 1 .. n
  PROVE  k \in 0 .. n /\ k \in 0 .. n + 1 /\ k + 1 \in 0 .. n + 1
  OBVIOUS

\* The index of the change at hand and the attempted prefix.
LEMMA IndexStep ==
  ASSUME TypeOK, IndexInv, Next
  PROVE  IndexInv' /\ i' \in 0 .. Len(changes) + 1 /\ attempted' \in 0 .. Len(changes)
<1>0. /\ i \in 0 .. Len(changes) + 1 /\ attempted \in 0 .. Len(changes)
      /\ Len(changes) \in Nat /\ Len(changes) >= 1 /\ DOMAIN changes = 1 .. Len(changes)
      /\ UNCHANGED changes
  BY PatchFacts, PlaceStep DEF TypeOK
<1>a. (Distinct' <=> Distinct) /\ Len(changes') = Len(changes)
  BY <1>0 DEF Distinct, Target
<1> USE <1>0, <1>a DEF IndexInv, Changing, InFlight
<1>1. CASE TakeLock BY <1>1, SMT DEF TakeLock, Stays
<1>2. CASE Validate
  <2>1. /\ pc = "validate" /\ UNCHANGED attempted
        /\ \/ pc' = pc /\ i < Len(changes) /\ i' = i + 1
           \/ pc' = "done" /\ i' \in {1, i}
           \/ pc' = "precheck" /\ i' = 1 /\ Distinct
    BY <1>2, Zenon DEF Validate, Finish
  <2> QED BY <2>1, SMT
<1>3. CASE CancelledWaiting BY <1>3, SMT DEF CancelledWaiting, Finish, Stays
<1>4. CASE Precheck
  <2>1. pc = "precheck" /\ UNCHANGED attempted
    BY <1>4 DEF Precheck
  <2>2. CASE Undo
    BY <2>1, <2>2, SMT DEF Undo
  <2>3. CASE /\ i' = IF i = Len(changes) THEN 1 ELSE i + 1
             /\ pc' = IF i = Len(changes) THEN "check" ELSE "precheck"
    <3>1. CASE i = Len(changes)
      <4>1. i' = 1 /\ pc' = "check"
        BY <2>3, <3>1
      <4> QED BY <2>1, <4>1, SMT
    <3>2. CASE i # Len(changes)
      <4>1. i' = i + 1 /\ pc' = "precheck"
        BY <2>3, <3>2
      <4>2. i \in 1 .. Len(changes)
        BY <2>1, Zenon
      <4>3. i + 1 \in 1 .. Len(changes)
        BY <1>0, <3>2, <4>2, NextIndex, Zenon
      <4> QED BY <2>1, <4>1, <4>3, SMT
    <3> QED BY <3>1, <3>2
  <2> QED BY <1>4, <2>2, <2>3, Zenon DEF Precheck
<1>5. CASE Check BY <1>5, SMT DEF Check, Undo, Raise
<1>6. CASE Write
  <2>1. pc = "write" /\ UNCHANGED attempted
    BY <1>6 DEF Write
  <2>4. i \in 1 .. Len(changes) /\ attempted = i /\ Distinct
    BY <2>1, Zenon
  <2>2. CASE Undo
    BY <2>1, <2>2, SMT DEF Undo
  <2>3. CASE pc' = (IF i = Len(changes) THEN "diff" ELSE "check") /\ i' = i + 1
    <3>1. CASE i = Len(changes)
      <4>1. pc' = "diff"
        BY <2>3, <3>1
      <4>2. i' \in 0 .. Len(changes) + 1 /\ attempted' \in 0 .. Len(changes)
        BY <1>0, <2>1, <2>3, <2>4, InRange, Zenon
      <4>3. IndexInv'
        BY <4>1, SMT
      <4> QED BY <4>2, <4>3
    <3>2. CASE i # Len(changes)
      <4>1. pc' = "check"
        BY <2>3, <3>2
      <4>2. i + 1 \in 1 .. Len(changes) /\ attempted' = (i + 1) - 1
        BY <1>0, <2>1, <2>4, <3>2, NextIndex, Zenon
      <4>3. i' \in 1 .. Len(changes) /\ attempted' = i' - 1
        BY <2>3, <4>2, Zenon
      <4>4. i' \in 0 .. Len(changes) + 1 /\ attempted' \in 0 .. Len(changes)
        BY <1>0, <2>1, <2>4, <4>3, InRange, Zenon
      <4>5. IndexInv'
        BY <2>4, <4>1, <4>3, SMT
      <4> QED BY <4>4, <4>5
    <3> QED BY <3>1, <3>2
  <2> QED BY <1>6, <2>2, <2>3, Zenon DEF Write
<1>7. CASE Diff BY <1>7, SMT DEF Diff, Finish, Stays, Raise
<1>8. CASE UndoCheck BY <1>8, SMT DEF UndoCheck, NextUndo, Stays, Raise
<1>9. CASE UndoWrite BY <1>9, SMT DEF UndoWrite, NextUndo, Put, Raise
<1>10. CASE RemoveDirectories BY <1>10, SMT DEF RemoveDirectories, Finish
<1>11. CASE Recover BY <1>11, SMT DEF Recover, Finish, Stays, Raise
<1>12. CASE Edit BY <1>12, SMT DEF Edit, service
<1>13. CASE Crash BY <1>13, SMT DEF Crash, Stays
<1> QED BY <1>1, <1>2, <1>3, <1>4, <1>5, <1>6, <1>7, <1>8, <1>9, <1>10, <1>11, <1>12, <1>13 DEF Next

\* What a step does to the files: nothing, or it puts what the change at hand says,
\* or it is a step of somebody else.
Puts == /\ pc = "write" /\ Put(Target(i), changes[i].new)
        /\ UNCHANGED <<start, touched, raced>>
PutsBack == /\ pc = "undoWrite" /\ Put(Target(i), changes[i].old)
            /\ UNCHANGED <<start, touched, raced>>

\* Every step leaves the files alone, is an edit of others, writes or puts back.
LEMMA DiskStep ==
  ASSUME Next
  PROVE  UNCHANGED <<disk, start, touched, raced, lost>> \/ Puts \/ PutsBack \/ Edit
<1> USE DEF Puts, PutsBack, Stays, history
<1>1. CASE Write BY <1>1, Zenon DEF Write
<1>2. CASE UndoWrite BY <1>2, Zenon DEF UndoWrite
<1>3. CASE ~Write /\ ~UndoWrite /\ ~Edit
  BY <1>3, Zenon DEF Next, TakeLock, Validate, CancelledWaiting, Precheck, Check, Diff, UndoCheck,
     RemoveDirectories, Recover, Crash
<1> QED BY <1>1, <1>2, <1>3

\* Files, recovery directory and ghosts keep their types.
LEMMA DiskTypes ==
  ASSUME TypeOK, IndexInv, Next
  PROVE  /\ disk' \in [Files -> Content] /\ touched' \in SUBSET Files
         /\ raced' \in SUBSET Files /\ lost' \in SUBSET Files
<1>1. i \in 1 .. Len(changes) => Target(i) \in Files /\ changes[i].old \in Content
                               /\ changes[i].new \in Content
  BY PatchFacts
<1>2. pc \in {"write", "undoWrite"} => i \in 1 .. Len(changes)
  BY DEF IndexInv, Changing
<1>3. CASE Puts
  BY <1>1, <1>2, <1>3, SMT DEF Puts, Put, TypeOK
<1>4. CASE PutsBack
  BY <1>1, <1>2, <1>4, SMT DEF PutsBack, Put, TypeOK
<1>5. CASE Edit
  BY <1>1, <1>2, <1>5, PatchAssumption, SMT DEF Edit, TypeOK, Content
<1>6. CASE UNCHANGED <<disk, start, touched, raced, lost>>
  BY <1>6 DEF TypeOK
<1> QED BY <1>3, <1>4, <1>5, <1>6, DiskStep

\* Only the end of a rollback finds out which directories cannot be removed.
LEMMA StuckStep ==
  ASSUME Next
  PROVE  stuck' = stuck \/ (pc = "rmdirs" /\ RemoveDirectories /\ stuck' \subseteq created)
<1>1. CASE RemoveDirectories
  BY <1>1, Zenon DEF RemoveDirectories
<1>2. CASE ~RemoveDirectories
  BY <1>2, Zenon DEF Next, TakeLock, Validate, CancelledWaiting, Precheck, Check, Write, Diff, UndoCheck,
     UndoWrite, Recover, Edit, Crash, Stays, history
<1> QED BY <1>1, <1>2

\* Every step keeps the types.
LEMMA TypeStep ==
  ASSUME TypeOK, IndexInv, Next PROVE TypeOK'
<1>1. dirs' \in SUBSET Dirs /\ created' \in SUBSET Dirs
  <2>1. CASE Check
    <3>1. DirOf[Target(i)] \in Dirs \cup {NoDir}
      BY <2>1, PatchFacts, PatchAssumption, Zenon DEF Check, IndexInv, Changing
    <3> DEFINE d == DirOf[Target(i)]
    <3>3. /\ dirs' = dirs \/ (~Exists(d) /\ dirs' = dirs \cup {d})
          /\ created' = created \/ (~Exists(d) /\ created' = created \cup {d})
      BY <2>1, Zenon DEF Check
    <3> QED BY <3>1, <3>3 DEF Exists, TypeOK
  <2>2. CASE Edit
    <3>1. PICK f \in Files, c \in Foreign \cup {Absent} :
            dirs' = IF c = Absent \/ DirOf[f] = NoDir THEN dirs ELSE dirs \cup {DirOf[f]}
      BY <2>2 DEF Edit
    <3>2. DirOf[f] \in Dirs \cup {NoDir}
      BY PatchAssumption
    <3> QED BY <2>2, <3>1, <3>2 DEF Edit, service, TypeOK
  <2>3. CASE RemoveDirectories
    BY <2>3 DEF RemoveDirectories, TypeOK
  <2>4. CASE ~Check /\ ~Edit /\ ~RemoveDirectories
    <3>1. UNCHANGED <<dirs, created>>
      BY <2>4, Zenon DEF Next, TakeLock, Validate, CancelledWaiting, Precheck, Write, Diff, UndoCheck,
         UndoWrite, Recover, Crash, Stays
    <3> QED BY <3>1 DEF TypeOK
  <2> QED BY <2>1, <2>2, <2>3, <2>4
<1>2. faults' \in 0 .. MaxFaults
  BY PatchAssumption, SMT DEF Edit, TypeOK, Next, TakeLock, Validate, CancelledWaiting, Precheck, Check, Write, Diff, UndoCheck, UndoWrite,
         RemoveDirectories, Recover, Crash, Undo, NextUndo, Finish, Stays, Raise, history
<1>3. edits' \in 0 .. MaxEdits
  BY PatchAssumption, SMT DEF Edit, TypeOK, Next, TakeLock, Validate, CancelledWaiting, Precheck, Check, Write, Diff, UndoCheck, UndoWrite,
         RemoveDirectories, Recover, Crash, Undo, NextUndo, Finish, Stays, Raise, history, Write, UndoWrite
<1>4. failures' \in SUBSET (1 .. Len(changes))
  BY SMT DEF Edit, TypeOK, IndexInv, Changing, Next, TakeLock, Validate, CancelledWaiting, Precheck, Check, Write, Diff, UndoCheck, UndoWrite,
         RemoveDirectories, Recover, Crash, Undo, NextUndo, Finish, Stays, Raise, history, service
<1>5. recovery' \in SUBSET Files
  BY PatchFacts, SMT DEF Edit, TypeOK, Next, TakeLock, Validate, CancelledWaiting, Precheck, Check, Write, Diff, UndoCheck, UndoWrite,
         RemoveDirectories, Recover, Crash, Undo, NextUndo, Finish, Stays, Raise, history, service
<1>6. stuck' \in SUBSET Dirs
  BY StuckStep, Zenon DEF TypeOK
<1> QED BY <1>1, <1>2, <1>3, <1>4, <1>5, <1>6, PlaceStep, IndexStep, DiskTypes DEF TypeOK

\* Another writer's step, as far as the files are concerned.
LEMMA EditFacts ==
  ASSUME TypeOK, IndexInv, StartInv, Edit
  PROVE  /\ UNCHANGED service /\ lost' = lost
         /\ touched \subseteq touched' /\ raced \subseteq raced' /\ raced' \subseteq touched'
         /\ start'.disk \in [Files -> Content]
         /\ pc # "lock" => UNCHANGED start
         /\ pc = "lock" => start'.disk = disk'
         /\ \A f \in Files : disk'[f] # disk[f] /\ pc # "lock" => f \in touched'
         /\ \A f \in Files : disk'[f] # disk[f] /\ pc \in {"write", "undoWrite"} /\ f = Target(i)
              => f \in raced'
<1>1. PICK f \in Files, c \in Foreign \cup {Absent} :
        /\ disk' = [disk EXCEPT ![f] = c]
        /\ touched' = IF pc = "lock" THEN touched ELSE touched \cup {f}
        /\ start' = IF pc = "lock" THEN [disk |-> disk', dirs |-> dirs'] ELSE start
        /\ raced' = IF pc \in {"write", "undoWrite"} /\ f = Target(i) THEN raced \cup {f} ELSE raced
  BY Zenon DEF Edit
<1>2. UNCHANGED service /\ lost' = lost
  BY DEF Edit
<1>3. c \in Content /\ disk \in [Files -> Content]
  BY PatchAssumption DEF Content, TypeOK
<1>4. disk' \in [Files -> Content]
  BY <1>1, <1>3, SMT
<1>5. \A g \in Files : disk'[g] # disk[g] => g = f
  BY <1>1, <1>3, SMT
<1>6. /\ touched \subseteq touched' /\ raced \subseteq raced'
      /\ pc # "lock" => f \in touched'
      /\ pc \in {"write", "undoWrite"} /\ f = Target(i) => f \in raced'
  BY <1>1, Zenon
<1>7. raced' \subseteq touched'
  BY <1>1, SMT DEF StartInv
<1>8. /\ pc # "lock" => UNCHANGED start
      /\ pc = "lock" => start'.disk = disk'
  BY <1>1, SMT
<1>9. start'.disk \in [Files -> Content]
  BY <1>4, <1>8, Zenon DEF StartInv
<1> QED BY <1>2, <1>5, <1>6, <1>7, <1>8, <1>9, Zenon

\* The file at hand is checked before it is written.
LEMMA CheckedStep ==
  ASSUME TypeOK, IndexInv, StartInv, CheckedInv, Next PROVE CheckedInv'
<1>0. UNCHANGED changes
  BY PlaceStep
<1>1. CASE Edit
  <2>1. UNCHANGED <<pc, i>>
    BY <1>1 DEF Edit, service
  <2>2. ASSUME pc \in {"write", "undoWrite"}
        PROVE  /\ Target(i) \in Files /\ Target(i)' = Target(i)
               /\ disk'[Target(i)] = disk[Target(i)] \/ Target(i) \in raced'
    BY <1>0, <1>1, <2>1, <2>2, EditFacts, PatchFacts, Zenon DEF IndexInv, Changing, Target
  <2>3. raced \subseteq raced'
    BY <1>1, EditFacts
  <2> QED BY <1>0, <2>1, <2>2, <2>3, Zenon DEF CheckedInv, Ours
<1>2. CASE Check
  <2>1. pc' # "undoWrite" /\ (pc' = "write" => Matches(i) /\ i' = i) /\ disk' = disk
    BY <1>2, SMT DEF Check, Undo
  <2> QED BY <1>0, <2>1, Zenon DEF CheckedInv, Matches, Target
<1>3. CASE UndoCheck
  <2>1. pc' # "write" /\ (pc' = "undoWrite" => Ours(i) /\ i' = i) /\ disk' = disk
    BY <1>3, SMT DEF UndoCheck, NextUndo, Stays
  <2> QED BY <1>0, <2>1, Zenon DEF CheckedInv, Ours, Target
<1>4. CASE ~Edit /\ ~Check /\ ~UndoCheck
  <2>1. pc' \notin {"write", "undoWrite"}
    BY <1>4, SMT DEF Next, TakeLock, Validate, CancelledWaiting, Precheck, Write, Diff, UndoWrite,
       RemoveDirectories, Recover, Crash, Undo, NextUndo, Finish
  <2> QED BY <2>1, SMT DEF CheckedInv
<1> QED BY <1>1, <1>2, <1>3, <1>4

\* Only what was written after the check is overwritten.
LEMMA LostStep ==
  ASSUME TypeOK, IndexInv, StartInv, CheckedInv, OthersEditsSurvive, Next
  PROVE  OthersEditsSurvive'
<1>1. pc \in {"write", "undoWrite"} => i \in DOMAIN changes
  BY PatchFacts DEF IndexInv, Changing
<1>2. CASE Puts
  <2>1. disk[Target(i)] \in Foreign => Target(i) \in raced
    BY <1>1, <1>2, PatchFacts, Zenon DEF Puts, CheckedInv
  <2> QED BY <1>2, <2>1, Zenon DEF Puts, Put, OthersEditsSurvive
<1>3. CASE PutsBack
  <2>1. disk[Target(i)] \in Foreign => Target(i) \in raced
    BY <1>1, <1>3, PatchFacts, Zenon DEF PutsBack, CheckedInv, Ours
  <2> QED BY <1>3, <2>1, Zenon DEF PutsBack, Put, OthersEditsSurvive
<1>4. CASE Edit
  BY <1>4, EditFacts DEF OthersEditsSurvive
<1>5. CASE UNCHANGED <<disk, start, touched, raced, lost>>
  BY <1>5 DEF OthersEditsSurvive
<1> QED BY <1>2, <1>3, <1>4, <1>5, DiskStep

\* The attempted prefix only grows, by a change that has just been checked.
LEMMA AttemptStep ==
  ASSUME TypeOK, IndexInv, Next
  PROVE  /\ 1 .. attempted \subseteq DOMAIN changes /\ 1 .. attempted' \subseteq DOMAIN changes
         /\ 1 .. attempted \subseteq 1 .. attempted'
         /\ \/ attempted' = attempted
            \/ /\ pc = "check" /\ pc' = "write" /\ Matches(i) /\ disk' = disk
               /\ UNCHANGED <<start, touched, raced>>
               /\ i \in DOMAIN changes /\ 1 .. attempted' = (1 .. attempted) \cup {i}
               /\ \A k \in 1 .. attempted : Target(k) # Target(i)
<1>1. /\ attempted \in 0 .. Len(changes) /\ attempted' \in 0 .. Len(changes)
      /\ Len(changes) \in Nat /\ DOMAIN changes = 1 .. Len(changes)
  BY PatchFacts, IndexStep DEF TypeOK
<1>2. CASE attempted' = attempted
  BY <1>1, <1>2
<1>3. CASE Check /\ attempted' # attempted
  <2>1. /\ pc = "check" /\ pc' = "write" /\ Matches(i) /\ disk' = disk
        /\ UNCHANGED <<start, touched, raced>> /\ attempted' = i
    BY <1>3, Zenon DEF Check, Undo, history
  <2>2. i \in 1 .. Len(changes) /\ attempted = i - 1 /\ Distinct
    BY <2>1, SMT DEF IndexInv, Changing, InFlight
  <2>3. 1 .. attempted' = (1 .. attempted) \cup {i} /\ \A k \in 1 .. attempted : k # i
    BY <2>1, <2>2
  <2>4. \A k \in 1 .. attempted : Target(k) # Target(i)
    BY <1>1, <2>2, <2>3 DEF Distinct
  <2> QED BY <1>1, <2>1, <2>2, <2>3, <2>4
<1>4. CASE ~Check
  BY <1>2, <1>4, Zenon DEF Next, TakeLock, Validate, CancelledWaiting, Precheck, Write, Diff,
     UndoCheck, UndoWrite, RemoveDirectories, Recover, Edit, Crash, service
<1> QED BY <1>2, <1>3, <1>4

\* Who is changed, and from what.
LEMMA StartStep ==
  ASSUME TypeOK, IndexInv, StartInv, Next PROVE StartInv'
<1>1. UNCHANGED changes /\ \A k \in DOMAIN changes : Target(k)' = Target(k)
  BY PlaceStep DEF Target
<1>2. pc \in {"write", "undoWrite"} => i \in 1 .. attempted
  BY SMT DEF IndexInv, Changing, TypeOK
<1>3. CASE UNCHANGED <<disk, start, touched, raced, lost>>
  <2>1. \A k \in 1 .. attempted' : \/ changes[k].old = start.disk[Target(k)]
                                   \/ Target(k) \in touched
    <3>1. CASE attempted' = attempted
      BY <3>1, Zenon DEF StartInv
    <3>2. CASE attempted' # attempted
      <4>1. /\ Matches(i) /\ i \in DOMAIN changes /\ 1 .. attempted' = (1 .. attempted) \cup {i}
            /\ \A k \in 1 .. attempted : Target(k) # Target(i)
        BY <3>2, AttemptStep, Zenon
      <4>2. changes[i].old = start.disk[Target(i)] \/ Target(i) \in touched
        BY <4>1, PatchFacts, Zenon DEF StartInv, Matches
      <4> QED BY <4>1, <4>2, Zenon DEF StartInv
    <3> QED BY <3>1, <3>2
  <2> QED BY <1>1, <1>3, <2>1, AttemptStep, Zenon DEF StartInv
<1>4. CASE Puts \/ PutsBack
  <2>1. /\ UNCHANGED <<start, touched, raced>> /\ attempted' = attempted
        /\ i \in 1 .. attempted /\ \A f \in Files : disk'[f] # disk[f] => f = Target(i)
    <3>1. disk \in [Files -> Content] /\ pc \in {"write", "undoWrite"}
      BY <1>4 DEF TypeOK, Puts, PutsBack
    <3>2. UNCHANGED <<start, touched, raced>> /\ \A f \in Files : disk'[f] # disk[f] => f = Target(i)
      BY <1>4, <3>1, Zenon DEF Puts, PutsBack, Put
    <3>3. attempted' = attempted
      BY <3>1, AttemptStep, SMT
    <3> QED BY <1>2, <3>1, <3>2, <3>3
  <2> QED BY <1>1, <2>1, AttemptStep, Zenon DEF StartInv
<1>5. CASE Edit
  <2>1. UNCHANGED <<pc, attempted>>
    BY <1>5 DEF Edit, service
  <2>2. CASE pc = "lock"
    <3>1. attempted' = 0 /\ start'.disk = disk'
      BY <1>5, <2>1, <2>2, EditFacts, SMT DEF IndexInv
    <3> QED BY <1>5, <3>1, EditFacts DEF StartInv
  <2>3. CASE pc # "lock"
    BY <1>1, <1>5, <2>1, <2>3, EditFacts, AttemptStep, Zenon DEF StartInv
  <2> QED BY <2>2, <2>3
<1> QED BY <1>3, <1>4, <1>5, DiskStep

\* A change that is undone stays so.
LEMMA BackStep ==
  ASSUME TypeOK, IndexInv, StartInv, Next, NEW k \in 1 .. attempted, Back(k),
         pc \in Undoing, PutsBack => k # i
  PROVE  Back(k)'
<1>1. UNCHANGED changes /\ Target(k)' = Target(k) /\ k \in DOMAIN changes /\ Target(k) \in Files
  BY PlaceStep, AttemptStep, PatchFacts DEF Target
<1>2. CASE UNCHANGED <<disk, start, touched, raced, lost>>
  BY <1>1, <1>2, Zenon DEF Back
<1>3. CASE Puts
  BY <1>3, SMT DEF Puts, Undoing
<1>4. CASE PutsBack
  <2>1. pc = "undoWrite" /\ Distinct /\ i \in DOMAIN changes
    BY <1>4, PatchFacts, SMT DEF PutsBack, IndexInv, InFlight, Changing
  <2>2. Target(k) # Target(i)
    BY <1>1, <1>4, <2>1, Zenon DEF Distinct
  <2>3. disk'[Target(k)] = disk[Target(k)] /\ touched' = touched
    BY <1>1, <1>4, <2>2, Zenon DEF PutsBack, Put, TypeOK
  <2> QED BY <1>1, <2>3, Zenon DEF Back
<1>5. CASE Edit
  <2>1. pc # "lock"
    BY SMT DEF Undoing
  <2> QED BY <1>1, <1>5, <2>1, EditFacts, Zenon DEF Back
<1> QED BY <1>2, <1>3, <1>4, <1>5, DiskStep

\* The rollback goes through the attempted changes, last one first.
LEMMA UndoneStep ==
  ASSUME TypeOK, IndexInv, StartInv, UndoneInv, Next PROVE UndoneInv'
<1>0. /\ i \in Nat /\ attempted \in Nat /\ i' \in Nat
      /\ pc \in {"undoCheck", "undoWrite"} => i \in 1 .. attempted
  BY IndexStep, SMT DEF TypeOK, IndexInv, Changing
<1>1. pc \in Undoing => attempted' = attempted
  BY AttemptStep, SMT DEF Undoing
<1>2. ASSUME pc \in Undoing
      PROVE  \A k \in (i + 1) .. attempted : Back(k)' \/ k \in failures
  <2> TAKE k \in (i + 1) .. attempted
  <2>1. i >= 0
    BY SMT DEF TypeOK
  <2>2. k \in 1 .. attempted /\ k # i
    BY <1>0, <2>1, SMT
  <2> QED BY <1>2, <2>2, BackStep DEF UndoneInv
<1>3. CASE UndoCheck
  <2>1. pc = "undoCheck"
    BY <1>3 DEF UndoCheck
  <2>2. pc \in Undoing
    BY <2>1 DEF Undoing
  <2>3. CASE pc' = "undoWrite" /\ UNCHANGED <<i, failures>>
    BY <1>1, <1>2, <2>1, <2>2, <2>3, SMT DEF UndoneInv, Undoing
  <2>4. CASE failures' = failures \cup {i} /\ NextUndo
    <3>1. pc' \in Undoing /\ i' = i - 1
      BY <2>4, SMT DEF NextUndo, Undoing
    <3>2. (i' + 1) .. attempted' = {i} \cup ((i + 1) .. attempted)
      BY <1>0, <1>1, <2>1, <2>2, <3>1, SMT
    <3> QED BY <1>2, <2>1, <2>2, <2>4, <3>1, <3>2, Zenon DEF UndoneInv
  <2> QED BY <1>3, <2>3, <2>4, Zenon DEF UndoCheck
<1>4. CASE UndoWrite
  <2>1. pc = "undoWrite" /\ NextUndo
    BY <1>4 DEF UndoWrite
  <2>2. pc \in Undoing /\ pc' \in Undoing /\ i' = i - 1
    BY <2>1, SMT DEF NextUndo, Undoing
  <2>3. (i' + 1) .. attempted' = {i} \cup ((i + 1) .. attempted)
    BY <1>0, <1>1, <2>1, <2>2, SMT
  <2>4. CASE Put(Target(i), changes[i].old) /\ UNCHANGED failures
    <3>1. ASSUME NEW j \in 1 .. attempted, j = i PROVE Back(j)'
      <4>1. j \in DOMAIN changes /\ UNCHANGED changes /\ Target(j)' = Target(j)
        BY AttemptStep, PlaceStep DEF Target
      <4>2. changes[j].old = disk'[Target(j)]
        BY <2>4, <3>1, <4>1, PatchFacts, Zenon DEF Put, TypeOK
      <4> QED BY <4>1, <4>2, Zenon DEF Back
    <3>2. ASSUME NEW k \in (i + 1) .. attempted PROVE Back(k)' \/ k \in failures'
      <4>1. k \in 1 .. attempted /\ k # i
        BY <1>0, <2>1, <3>2, SMT
      <4> QED BY <2>2, <2>4, <3>2, <4>1, BackStep, Zenon DEF UndoneInv
    <3>3. i \in 1 .. attempted
      BY <1>0, <2>1
    <3> QED BY <2>2, <2>3, <3>1, <3>2, <3>3, Zenon DEF UndoneInv
  <2>5. CASE failures' = failures \cup {i} /\ UNCHANGED <<disk, lost>>
    <3>1. ASSUME NEW k \in (i + 1) .. attempted PROVE Back(k)' \/ k \in failures'
      <4>1. k \in 1 .. attempted /\ k # i
        BY <1>0, <2>1, <3>1, SMT
      <4> QED BY <2>2, <2>5, <3>1, <4>1, BackStep, Zenon DEF UndoneInv
    <3> QED BY <2>2, <2>3, <2>5, <3>1, Zenon DEF UndoneInv
  <2> QED BY <1>4, <2>4, <2>5, Zenon DEF UndoWrite
<1>5. CASE Edit \/ RemoveDirectories
  <2>1. /\ UNCHANGED <<i, failures>>
        /\ pc' = pc \/ (pc = "rmdirs" /\ pc' \in {"recover", "done"})
    BY <1>5, SMT DEF Edit, service, RemoveDirectories, Finish
  <2>2. CASE pc \in Undoing
    BY <1>1, <1>2, <2>1, <2>2, SMT DEF UndoneInv, Undoing
  <2>3. CASE pc \notin Undoing
    BY <2>1, <2>3, SMT DEF UndoneInv, Undoing
  <2> QED BY <2>2, <2>3
<1>6. CASE Recover \/ Crash
  BY <1>6, SMT DEF Recover, Crash, Finish, UndoneInv, Undoing
<1>7. CASE TakeLock \/ Validate \/ CancelledWaiting \/ Diff
  <2>1. pc \in {"lock", "validate", "diff"} /\ failures' = failures
        /\ pc' \in {"lock", "validate", "precheck", "done"}
    BY <1>7, SMT DEF TakeLock, Validate, CancelledWaiting, Diff, Finish
  <2> QED BY <2>1, SMT DEF UndoneInv, Undoing
<1>8. CASE Precheck \/ Check \/ Write
  <2>1. pc \in {"precheck", "check", "write"} /\ failures' = failures
        /\ (pc' \in Undoing => i' = attempted')
    BY <1>8, SMT DEF Precheck, Check, Write, Undo, Undoing
  <2>2. failures' = {}
    BY <2>1, SMT DEF UndoneInv, Undoing
  <2>3. pc' \in Undoing => (i' + 1) .. attempted' = {}
    BY <1>0, <2>1, SMT
  <2> QED BY <2>2, <2>3 DEF UndoneInv
<1> QED BY <1>3, <1>4, <1>5, <1>6, <1>7, <1>8 DEF Next

\* Every report is true when it is made; nothing happens after it.
LEMMA ReportStep ==
  ASSUME TypeOK, IndexInv, StartInv, UndoneInv, ReportInv, Next PROVE ReportInv'
<1>0. pc # "done" /\ outcome = "none"
  BY SMT DEF ReportInv, InFlight, Next, TakeLock, Validate, CancelledWaiting, Precheck, Check, Write,
     Diff, UndoCheck, UndoWrite, RemoveDirectories, Recover, Edit, Crash
<1>1. CASE Validate
  <2>1. attempted' = 0 /\ outcome' \in {"none", "rejected", "dry_run"}
        /\ (pc' # "done" => outcome' = "none")
    BY <1>0, <1>1, SMT DEF Validate, Finish, IndexInv
  <2> QED BY <2>1, SMT DEF ReportInv
<1>2. CASE CancelledWaiting \/ Diff
  <2>1. pc' = "done" /\ outcome' \in {"applied", "error", "cancelled"}
    BY <1>2, SMT DEF CancelledWaiting, Diff, Finish
  <2> QED BY <2>1, SMT DEF ReportInv
<1>3. CASE RemoveDirectories
  <2>1. CASE pc' = "recover" /\ outcome' = "none"
    BY <2>1, SMT DEF ReportInv
  <2>2. CASE pc' = "done" /\ outcome' = "restored" /\ failures = {}
    <3>1. pc = "rmdirs" /\ i = 0 /\ attempted' = attempted /\ pc \in Undoing /\ ~PutsBack
      BY <1>3, SMT DEF RemoveDirectories, IndexInv, Undoing, PutsBack
    <3>2. \A k \in 1 .. attempted : Back(k)
      BY <2>2, <3>1, SMT DEF UndoneInv
    <3>3. \A k \in 1 .. attempted' : Back(k)'
      BY <3>1, <3>2, BackStep
    <3> QED BY <2>2, <3>3, SMT DEF ReportInv
  <2> QED BY <1>0, <1>3, <2>1, <2>2, Zenon DEF RemoveDirectories, Finish
<1>4. CASE Recover
  <2>1. /\ pc' = "done" /\ UNCHANGED <<attempted, changes>>
        /\ \/ outcome' = "incomplete" /\ recovery' = {Target(k) : k \in 1 .. attempted}
           \/ outcome' = "unsaved"
    BY <1>4, Zenon DEF Recover, Finish
  <2>2. outcome' = "incomplete" => \A k \in 1 .. attempted' : Target(k)' \in recovery'
    BY <2>1, SMT DEF Target
  <2> QED BY <2>1, <2>2, SMT DEF ReportInv
<1>5. CASE ~Validate /\ ~CancelledWaiting /\ ~Diff /\ ~RemoveDirectories /\ ~Recover
  <2>1. outcome' = "none"
    BY <1>0, <1>5, Zenon DEF Next, TakeLock, Precheck, Check, Write, UndoCheck, UndoWrite, Edit, Crash,
       Undo, service
  <2> QED BY <2>1, SMT DEF ReportInv
<1> QED BY <1>1, <1>2, <1>3, <1>4, <1>5

\* A transaction starts in the invariant, on any files and with any patch.
LEMMA InitInv == Init => IInv
<1> SUFFICES ASSUME Init PROVE IInv
  OBVIOUS
<1>1. /\ Absent \notin Foreign /\ Foreign \subseteq Contents
      /\ \A p \in Patches : p # <<>> /\ Len(p) \in Nat
  BY PatchAssumption
<1>2. disk \in [Files -> Content]
  BY DEF Init
<1>3. TypeOK
  BY <1>1, <1>2, PatchAssumption, SMT DEF Init, TypeOK, Outcomes, InFlight
<1>4. IndexInv
  BY SMT DEF Init, IndexInv, Changing, InFlight
<1>5. CheckedInv /\ OthersEditsSurvive /\ UndoneInv /\ ReportInv
  BY SMT DEF Init, CheckedInv, OthersEditsSurvive, UndoneInv, Undoing, ReportInv
<1>6. StartInv
  BY <1>2, SMT DEF Init, StartInv
<1> QED BY <1>3, <1>4, <1>5, <1>6 DEF IInv

\* IInv is an inductive invariant, for any patches, files, faults and other writers.
THEOREM Inductive == IInv /\ [Next]_vars => IInv'
<1> SUFFICES ASSUME IInv, [Next]_vars PROVE IInv'
  OBVIOUS
<1>1. CASE Next
  BY <1>1, TypeStep, IndexStep, CheckedStep, LostStep, StartStep, UndoneStep, ReportStep DEF IInv
<1>2. CASE UNCHANGED vars
  <2> USE <1>2 DEF vars, service, history
  <2>1. TypeOK' /\ OthersEditsSurvive'
    BY DEF IInv, TypeOK, OthersEditsSurvive
  <2>2. IndexInv'
    BY DEF IInv, IndexInv, Distinct, Target
  <2>3. CheckedInv'
    BY DEF IInv, CheckedInv, Ours, Target
  <2>4. StartInv'
    BY DEF IInv, StartInv, Target
  <2>5. UndoneInv'
    BY DEF IInv, UndoneInv, Back, Target
  <2>6. ReportInv'
    BY DEF IInv, ReportInv, Back, Target
  <2> QED BY <2>1, <2>2, <2>3, <2>4, <2>5, <2>6 DEF IInv
<1> QED BY <1>1, <1>2

\* Type correctness of the transaction.
THEOREM TypeCorrect == Spec => []TypeOK
<1>1. IInv => TypeOK
  BY DEF IInv
<1> QED BY InitInv, Inductive, <1>1, PTL DEF Spec

\* Whatever others do at any time and whatever fails, the service overwrites only what
\* came between the check of a file and the replacement that follows it.
THEOREM EditsSurvive == Spec => []OthersEditsSurvive
<1>1. IInv => OthersEditsSurvive
  BY DEF IInv
<1> QED BY InitInv, Inductive, <1>1, PTL DEF Spec

\* A patch of any length that does not go through costs nobody a file.
THEOREM OriginalsAreRecoverable == Spec => []OriginalsRecoverable
<1>1. ASSUME IInv PROVE OriginalsRecoverable
  <2> SUFFICES ASSUME outcome \in {"rejected", "dry_run", "restored", "incomplete"}, NEW f \in Files
               PROVE  disk[f] = start.disk[f] \/ f \in touched \/ f \in recovery
    BY DEF OriginalsRecoverable
  <2> USE <1>1 DEF IInv
  <2>1. CASE disk[f] = start.disk[f] \/ f \in touched
    BY <2>1
  <2>2. CASE \E k \in 1 .. attempted : Target(k) = f
    <3>1. PICK k \in 1 .. attempted : Target(k) = f
      BY <2>2
    <3>2. CASE outcome \in {"rejected", "dry_run"}
      BY <3>1, <3>2, SMT DEF ReportInv
    <3>3. CASE outcome = "restored"
      BY <3>1, <3>3, Zenon DEF ReportInv, Back, StartInv
    <3>4. CASE outcome = "incomplete"
      BY <3>1, <3>4, Zenon DEF ReportInv
    <3> QED BY <3>2, <3>3, <3>4
  <2> QED BY <2>1, <2>2 DEF StartInv
<1> QED BY InitInv, Inductive, <1>1, PTL DEF Spec

--------------------------------------------------------------------------------
(* PatchService implements PatchContract, for patches of any length over any files  *)
(* and directories, with any number of failing file operations and of steps of     *)
(* other writers.                                                                  *)

Forth(k) == disk[Target(k)] = changes[k].new \/ Target(k) \in touched

\* The commit has written the changes before the one at hand.
DoneInv ==
  /\ pc \in {"check", "write"} => \A k \in 1 .. i - 1 : Forth(k)
  /\ pc = "diff" => \A k \in DOMAIN changes : Forth(k)

\* A file lies in a directory that exists.
PlacedInv == \A f \in Files : disk[f] # Absent => Exists(DirOf[f])

\* A directory is made for a file that the patch creates.
CreatedInv ==
  /\ pc \in {"lock", "validate", "precheck"} => created = {}
  /\ \A d \in created : \E k \in 1 .. attempted :
       DirOf[Target(k)] = d /\ changes[k].old = Absent

\* A made directory that is still there at the end of a rollback is in use or could
\* not be removed; before, none was tried to.
LeftInv ==
  /\ pc = "recover" => \A d \in created \cap dirs :
       d \in stuck \/ \E f \in Files : DirOf[f] = d /\ (disk[f] # Absent \/ f \in touched)
  /\ pc \notin {"recover", "done", "crashed"} => stuck = {}

RInv == IInv /\ DoneInv /\ PlacedInv /\ CreatedInv /\ LeftInv

\* What the commit has written stays, or somebody else wrote it.
LEMMA ForthStep ==
  ASSUME TypeOK, IndexInv, StartInv, Next, NEW k \in DOMAIN changes, Forth(k),
         pc \in {"check", "write", "diff"}, Puts => k # i
  PROVE  Forth(k)'
<1>1. UNCHANGED changes /\ Target(k)' = Target(k) /\ Target(k) \in Files
  BY PlaceStep, PatchFacts DEF Target
<1>2. CASE UNCHANGED <<disk, start, touched, raced, lost>>
  BY <1>1, <1>2, Zenon DEF Forth
<1>3. CASE Puts
  <2>1. Distinct /\ i \in DOMAIN changes
    BY <1>3, PatchFacts, SMT DEF Puts, IndexInv, InFlight, Changing
  <2>2. Target(k) # Target(i)
    BY <1>3, <2>1, Zenon DEF Distinct
  <2>3. disk'[Target(k)] = disk[Target(k)] /\ touched' = touched
    BY <1>1, <1>3, <2>2, Zenon DEF Puts, Put, TypeOK
  <2> QED BY <1>1, <2>3, Zenon DEF Forth
<1>4. CASE PutsBack
  BY <1>4, SMT DEF PutsBack
<1>5. CASE Edit
  <2>1. pc # "lock"
    BY SMT
  <2> QED BY <1>1, <1>5, <2>1, EditFacts, Zenon DEF Forth
<1> QED BY <1>2, <1>3, <1>4, <1>5, DiskStep

\* The first n of the numbers up to n.
LEMMA Prefixes ==
  ASSUME NEW n \in Nat, NEW k \in 1 .. n
  PROVE  /\ 1 .. (k + 1) - 1 = (1 .. k - 1) \cup {k} /\ 1 .. k - 1 \subseteq 1 .. n
         /\ k \notin 1 .. k - 1 /\ (k = n => 1 .. n = (1 .. k - 1) \cup {k})
         /\ 1 .. 1 - 1 = {}
  OBVIOUS

\* The commit goes through the changes, first one first.
LEMMA DoneStep ==
  ASSUME TypeOK, IndexInv, StartInv, DoneInv, Next PROVE DoneInv'
<1>0. /\ Len(changes) \in Nat /\ DOMAIN changes = 1 .. Len(changes) /\ UNCHANGED changes
      /\ DOMAIN changes' = DOMAIN changes
      /\ pc \in {"precheck", "check", "write"} => i \in 1 .. Len(changes)
  BY PatchFacts, PlaceStep, SMT DEF IndexInv, Changing
<1>1. CASE Write
  <2>1. pc = "write" /\ i \in 1 .. Len(changes) /\ i \in DOMAIN changes /\ Target(i) \in Files
    BY <1>0, <1>1, PatchFacts, Zenon DEF Write
  <2>2. CASE Undo
    <3>1. pc' \notin {"check", "write", "diff"}
      BY <2>2, SMT DEF Undo
    <3> QED BY <3>1, SMT DEF DoneInv
  <2>3. CASE /\ Put(Target(i), changes[i].new) /\ i' = i + 1
             /\ pc' = IF i = Len(changes) THEN "diff" ELSE "check"
    <3>1. ASSUME NEW k \in 1 .. i - 1 PROVE Forth(k)'
      <4>1. k \in DOMAIN changes /\ k # i
        BY <1>0, <2>1, <3>1, Prefixes, Zenon
      <4>2. Forth(k)
        BY <2>1, <3>1, Zenon DEF DoneInv
      <4> QED BY <2>1, <4>1, <4>2, ForthStep
    <3>2. ASSUME NEW k \in DOMAIN changes, k = i PROVE Forth(k)'
      <4>1. Target(k)' = Target(k) /\ disk'[Target(k)] = changes[k].new
        BY <1>0, <2>1, <2>3, <3>2, Zenon DEF Put, TypeOK, Target
      <4> QED BY <1>0, <4>1, Zenon DEF Forth
    <3>3. CASE i = Len(changes)
      <4>1. pc' = "diff" /\ DOMAIN changes' = (1 .. i - 1) \cup {i}
        BY <1>0, <2>1, <2>3, <3>3, Prefixes, Zenon
      <4>2. \A k \in DOMAIN changes' : Forth(k)'
        BY <2>1, <3>1, <3>2, <4>1, Zenon
      <4> QED BY <4>1, <4>2, SMT DEF DoneInv
    <3>4. CASE i # Len(changes)
      <4>1. pc' = "check" /\ 1 .. i' - 1 = (1 .. i - 1) \cup {i}
        BY <1>0, <2>1, <2>3, <3>4, Prefixes, Zenon
      <4>2. \A k \in 1 .. i' - 1 : Forth(k)'
        BY <2>1, <3>1, <3>2, <4>1, Zenon
      <4> QED BY <4>1, <4>2, SMT DEF DoneInv
    <3> QED BY <3>3, <3>4
  <2> QED BY <1>1, <2>2, <2>3, Zenon DEF Write
<1>2. CASE Precheck
  <2>1. \/ pc' = "check" /\ i' = 1
        \/ pc' \notin {"check", "write", "diff"}
    BY <1>2, SMT DEF Precheck, Undo
  <2>2. 1 .. 1 - 1 = {}
    OBVIOUS
  <2> QED BY <2>1, <2>2, SMT DEF DoneInv
<1>3. CASE Check \/ Edit
  <2>1. \/ pc' \in {pc, "write"} /\ pc \in {"check", "write"} /\ i' = i
        \/ pc' = "diff" /\ pc = "diff"
        \/ pc' \notin {"check", "write", "diff"}
    BY <1>3, SMT DEF Check, Undo, Edit, service
  <2>2. ~Puts \/ Edit
    BY <1>3, SMT DEF Check, Puts
  <2>3. CASE pc' \in {"check", "write"} /\ pc \in {"check", "write"} /\ i' = i
    <3>1. ASSUME NEW k \in 1 .. i - 1 PROVE Forth(k)'
      <4>1. k \in DOMAIN changes /\ k # i
        BY <1>0, <2>3, <3>1, Prefixes, Zenon
      <4>2. Forth(k)
        BY <2>3, <3>1, Zenon DEF DoneInv
      <4> QED BY <2>3, <4>1, <4>2, ForthStep
    <3> QED BY <2>3, <3>1, SMT DEF DoneInv
  <2>4. CASE pc' = "diff" /\ pc = "diff"
    <3>1. ASSUME NEW k \in DOMAIN changes PROVE Forth(k)'
      <4>1. Forth(k) /\ ~Puts
        BY <2>4, <3>1, SMT DEF DoneInv, Puts
      <4> QED BY <2>4, <4>1, ForthStep
    <3> QED BY <1>0, <2>4, <3>1, SMT DEF DoneInv
  <2>5. CASE pc' \notin {"check", "write", "diff"}
    BY <2>5, SMT DEF DoneInv
  <2> QED BY <2>1, <2>3, <2>4, <2>5, Zenon
<1>4. CASE ~Write /\ ~Precheck /\ ~Check /\ ~Edit
  <2>1. pc' \notin {"check", "write", "diff"}
    BY <1>4, SMT DEF Next, TakeLock, Validate, CancelledWaiting, Diff, UndoCheck, UndoWrite,
       RemoveDirectories, Recover, Crash, NextUndo, Finish
  <2> QED BY <2>1, SMT DEF DoneInv
<1> QED BY <1>1, <1>2, <1>3, <1>4

\* Nothing is written where there is no directory, and none in use is removed.
LEMMA PlacedStep ==
  ASSUME TypeOK, IndexInv, PlacedInv, Next PROVE PlacedInv'
<1>0. disk \in [Files -> Content]
  BY DEF TypeOK
<1>1. CASE Write \/ UndoWrite
  <2>1. /\ dirs' = dirs
        /\ \/ disk' = disk
           \/ \E c : (c # Absent => Exists(DirOf[Target(i)])) /\ disk' = [disk EXCEPT ![Target(i)] = c]
    BY <1>1, Zenon DEF Write, UndoWrite, Put
  <2>2. CASE disk' = disk
    BY <2>1, <2>2 DEF PlacedInv, Exists
  <2>3. CASE \E c : (c # Absent => Exists(DirOf[Target(i)])) /\ disk' = [disk EXCEPT ![Target(i)] = c]
    <3>1. PICK c : (c # Absent => Exists(DirOf[Target(i)])) /\ disk' = [disk EXCEPT ![Target(i)] = c]
      BY <2>3
    <3>2. ASSUME NEW f \in Files, disk'[f] # Absent PROVE Exists(DirOf[f])
      BY <1>0, <3>1, <3>2, Zenon DEF PlacedInv
    <3> QED BY <2>1, <3>2, Zenon DEF PlacedInv, Exists
  <2> QED BY <2>1, <2>2, <2>3
<1>2. CASE Edit
  <2>1. PICK f \in Files, c \in Foreign \cup {Absent} :
          /\ disk' = [disk EXCEPT ![f] = c]
          /\ dirs' = IF c = Absent \/ DirOf[f] = NoDir THEN dirs ELSE dirs \cup {DirOf[f]}
    BY <1>2, Zenon DEF Edit
  <2>2. \A d \in dirs : d \in dirs'
    BY <2>1, Zenon
  <2>3. c # Absent => DirOf[f] = NoDir \/ DirOf[f] \in dirs'
    BY <2>1, Zenon
  <2> QED BY <1>0, <2>1, <2>2, <2>3, Zenon DEF PlacedInv, Exists
<1>3. CASE RemoveDirectories
  BY <1>3, Zenon DEF RemoveDirectories, PlacedInv, Exists
<1>4. CASE Check
  <2>1. disk' = disk /\ dirs \subseteq dirs'
    BY <1>4, Zenon DEF Check
  <2> QED BY <2>1, Zenon DEF PlacedInv, Exists
<1>5. CASE ~Write /\ ~UndoWrite /\ ~Edit /\ ~RemoveDirectories /\ ~Check
  <2>1. UNCHANGED <<disk, dirs>>
    BY <1>5, Zenon DEF Next, TakeLock, Validate, CancelledWaiting, Precheck, Diff, UndoCheck,
       Recover, Crash, Stays
  <2> QED BY <2>1, Zenon DEF PlacedInv, Exists
<1> QED BY <1>1, <1>2, <1>3, <1>4, <1>5

\* A directory is made when it is missing, so the file at hand is missing too.
LEMMA CreatedStep ==
  ASSUME TypeOK, IndexInv, PlacedInv, CreatedInv, Next PROVE CreatedInv'
<1>0. UNCHANGED changes
  BY PlaceStep
<1>1. CASE Check /\ created' # created
  <2>1. /\ pc = "check" /\ pc' = "write" /\ Matches(i) /\ ~Exists(DirOf[Target(i)])
        /\ created' = created \cup {DirOf[Target(i)]} /\ attempted' = i
    BY <1>1, Zenon DEF Check
  <2>2. i \in DOMAIN changes /\ Target(i) \in Files /\ i \in 1 .. attempted'
        /\ 1 .. attempted \subseteq 1 .. attempted'
    BY <2>1, PatchFacts, AttemptStep, SMT DEF IndexInv, Changing
  <2>3. changes[i].old = Absent
    BY <2>1, <2>2, Zenon DEF Matches, PlacedInv
  <2>4. \A d \in created' : \E k \in 1 .. attempted' :
          DirOf[Target(k)] = d /\ changes[k].old = Absent
    BY <2>1, <2>2, <2>3, Zenon DEF CreatedInv
  <2> QED BY <1>0, <2>1, <2>4, SMT DEF CreatedInv, Target
<1>2. CASE created' = created
  <2>1. pc' \in {"lock", "validate", "precheck"} => pc \in {"lock", "validate", "precheck"}
    BY SMT DEF Next, TakeLock, Validate, CancelledWaiting, Precheck, Check, Write, Diff, UndoCheck,
       UndoWrite, RemoveDirectories, Recover, Edit, Crash, Undo, NextUndo, Finish, service
  <2>2. \A d \in created' : \E k \in 1 .. attempted' :
          DirOf[Target(k)] = d /\ changes[k].old = Absent
    BY <1>2, AttemptStep, Zenon DEF CreatedInv
  <2> QED BY <1>0, <1>2, <2>1, <2>2, Zenon DEF CreatedInv, Target
<1>3. CASE ~Check
  <2>1. created' = created
    BY <1>3, Zenon DEF Next, TakeLock, Validate, CancelledWaiting, Precheck, Write, Diff, UndoCheck,
       UndoWrite, RemoveDirectories, Recover, Edit, Crash, service
  <2> QED BY <1>2, <2>1
<1> QED BY <1>1, <1>2, <1>3

\* What rmdir could remove and left is in use, and stays in use or is somebody else's.
LEMMA LeftStep ==
  ASSUME TypeOK, IndexInv, StartInv, LeftInv, Next PROVE LeftInv'
<1>1. CASE RemoveDirectories
  <2>1. /\ UNCHANGED <<created, disk>>
        /\ dirs' = dirs \ ({d \in created : \A f \in Files : DirOf[f] = d => disk[f] = Absent} \ stuck')
    BY <1>1 DEF RemoveDirectories
  <2>2. \A d \in created' \cap dirs' :
          d \in stuck' \/ \E f \in Files : DirOf[f] = d /\ disk'[f] # Absent
    BY <2>1, Zenon
  <2>3. pc' \in {"recover", "done", "crashed"}
    BY <1>1, SMT DEF RemoveDirectories, Finish
  <2> QED BY <2>2, <2>3, Zenon DEF LeftInv
<1>2. CASE Edit
  <2>1. PICK f \in Files, c \in Foreign \cup {Absent} :
          /\ dirs' = IF c = Absent \/ DirOf[f] = NoDir THEN dirs ELSE dirs \cup {DirOf[f]}
          /\ touched' = IF pc = "lock" THEN touched ELSE touched \cup {f}
    BY <1>2, Zenon DEF Edit
  <2>2. UNCHANGED <<pc, created, stuck>>
    BY <1>2 DEF Edit, service
  <2>3. ASSUME pc = "recover", NEW d \in created \cap dirs'
        PROVE  d \in stuck \/ \E g \in Files : DirOf[g] = d /\ (disk'[g] # Absent \/ g \in touched')
    <3>1. pc # "lock"
      BY <2>3
    <3>2. CASE d \in dirs
      BY <1>2, <2>3, <3>1, <3>2, EditFacts, Zenon DEF LeftInv
    <3>3. CASE d \notin dirs
      <4>1. d = DirOf[f] /\ f \in touched'
        BY <2>1, <2>3, <3>1, <3>3, Zenon
      <4> QED BY <4>1
    <3> QED BY <3>2, <3>3
  <2> QED BY <2>2, <2>3, Zenon DEF LeftInv
<1>3. CASE ~RemoveDirectories /\ ~Edit
  <2>1. pc' # "recover" /\ (pc' \notin {"done", "crashed"} => pc \notin {"recover", "done", "crashed"})
    BY <1>3, SMT DEF Next, TakeLock, Validate, CancelledWaiting, Precheck, Check, Write, Diff, UndoCheck,
       UndoWrite, Recover, Crash, Undo, NextUndo, Finish
  <2>2. stuck' = stuck
    BY <1>3, StuckStep
  <2> QED BY <2>1, <2>2, Zenon DEF LeftInv
<1> QED BY <1>1, <1>2, <1>3

\* RInv holds at the start.
LEMMA InitRInv == Init => RInv
<1> SUFFICES ASSUME Init PROVE RInv
  OBVIOUS
<1>1. IInv
  BY InitInv
<1>2. PlacedInv
  BY Zenon DEF Init, PlacedInv
<1>3. DoneInv /\ CreatedInv /\ LeftInv
  BY SMT DEF Init, DoneInv, CreatedInv, LeftInv
<1> QED BY <1>1, <1>2, <1>3 DEF RInv

\* RInv is an inductive invariant too.
LEMMA StepRInv == RInv /\ [Next]_vars => RInv'
<1> SUFFICES ASSUME RInv, [Next]_vars PROVE RInv'
  OBVIOUS
<1>0. IInv'
  BY Inductive DEF RInv
<1>1. CASE Next
  BY <1>0, <1>1, DoneStep, PlacedStep, CreatedStep, LeftStep DEF RInv, IInv
<1>2. CASE UNCHANGED vars
  <2> USE <1>2 DEF vars, service, history
  <2>1. DoneInv' /\ CreatedInv'
    BY DEF RInv, DoneInv, Forth, CreatedInv, Target
  <2>2. PlacedInv' /\ LeftInv'
    BY DEF RInv, PlacedInv, LeftInv, Exists
  <2> QED BY <1>0, <2>1, <2>2 DEF RInv
<1> QED BY <1>1, <1>2

--------------------------------------------------------------------------------
(* What PatchContract sees of a state. *)

Seen ==
  /\ Undone \in [Files -> Content]
  /\ \A f \in Files : ~Pending(f) => Undone[f] = disk[f]
  /\ \A k \in DOMAIN changes : Pending(Target(k)) => Undone[Target(k)] = changes[k].old

\* A pending file is the target of one change, whose old content it is shown with.
LEMMA SeenUndone == TypeOK /\ IndexInv => Seen
<1> SUFFICES ASSUME TypeOK, IndexInv PROVE Seen
  OBVIOUS
<1>1. ASSUME NEW f \in Files, Pending(f)
      PROVE  Distinct /\ \E k \in DOMAIN changes : Target(k) = f
  <2>1. pc \in InFlight
    BY <1>1, SMT DEF Pending, InFlight
  <2>2. pc \in {"write", "undoWrite"} => i \in DOMAIN changes
    BY PatchFacts, SMT DEF IndexInv, Changing
  <2>3. 1 .. attempted \subseteq DOMAIN changes
    BY PatchFacts, SMT DEF TypeOK
  <2> QED BY <1>1, <2>1, <2>2, <2>3, Zenon DEF Pending, IndexInv
<1>2. ASSUME NEW f \in Files, Pending(f), NEW k \in DOMAIN changes, Target(k) = f
      PROVE  Undone[f] = changes[k].old
  <2>1. (CHOOSE j \in DOMAIN changes : Target(j) = f) = k
    BY <1>1, <1>2, Zenon DEF Distinct
  <2> QED BY <1>2, <2>1, Zenon DEF Undone
<1>3. ASSUME NEW f \in Files, ~Pending(f) PROVE Undone[f] = disk[f]
  BY <1>3, Zenon DEF Undone
<1>4. ASSUME NEW f \in Files PROVE Undone[f] \in Content
  BY <1>1, <1>2, <1>3, <1>4, PatchFacts DEF TypeOK
<1>5. Undone \in [Files -> Content]
  <2>1. DOMAIN Undone = Files /\ Undone = [f \in Files |-> Undone[f]]
    BY DEF Undone
  <2> QED BY <1>4, <2>1, Zenon
<1> QED BY <1>2, <1>3, <1>5, PatchFacts DEF Seen

Staged ==
  /\ pc = "lock" => Stage = "waiting"
  /\ pc \in InFlight \cup {"validate"} => Stage = "open"
  /\ pc = "diff" => Stage = "committed"
  /\ pc = "done" => Stage = "closed"
  /\ pc = "crashed" => Stage = "crashed"
  /\ pc \in InFlight => Litter = {}
  /\ pc \notin InFlight => Litter = {d \in created \cap dirs :
       \A f \in Files : DirOf[f] = d => disk[f] = Absent /\ f \notin touched}

\* The stages of the contract, and what may be left behind at each.
LEMMA StagedAll == Staged
<1>1. pc = "lock" => Stage = "waiting"
  BY SMT DEF Stage, InFlight
<1>2. pc \in InFlight \cup {"validate"} => Stage = "open"
  BY SMT DEF Stage, InFlight
<1>3. pc = "diff" => Stage = "committed"
  BY SMT DEF Stage, InFlight
<1>4. pc = "done" => Stage = "closed"
  BY SMT DEF Stage, InFlight
<1>5. pc = "crashed" => Stage = "crashed"
  BY SMT DEF Stage, InFlight
<1> QED BY <1>1, <1>2, <1>3, <1>4, <1>5, Zenon DEF Staged, Litter

\* Both hold before and after a step.
LEMMA SeenStep == RInv /\ RInv' => Seen /\ Seen' /\ Staged /\ Staged'
<1>1. RInv => TypeOK /\ IndexInv
  BY DEF RInv, IInv
<1> QED BY <1>1, SeenUndone, StagedAll, PTL

\* A file is shown the same if nothing about it changed, or only its content while
\* it is pending.
LEMMA SameShown ==
  ASSUME TypeOK, IndexInv, Seen, Seen', UNCHANGED changes, NEW f \in Files,
         Pending(f)' <=> Pending(f), disk'[f] = disk[f]
  PROVE  Undone'[f] = Undone[f]
<1>1. CASE Pending(f)
  <2>1. \E k \in DOMAIN changes : Target(k) = f
    <3>1. pc \in {"write", "undoWrite"} => i \in DOMAIN changes
      BY PatchFacts, SMT DEF IndexInv, Changing
    <3>2. 1 .. attempted \subseteq DOMAIN changes
      BY PatchFacts, SMT DEF TypeOK
    <3> QED BY <1>1, <3>1, <3>2, Zenon DEF Pending
  <2>2. PICK k \in DOMAIN changes : Target(k) = f
    BY <2>1
  <2>3. Target(k)' = Target(k)
    BY DEF Target
  <2>4. Undone[f] = changes[k].old
    BY <1>1, <2>2, Zenon DEF Seen
  <2>5. Undone'[f] = changes[k].old
    <3>1. \A j \in DOMAIN changes' : Pending(Target(j))' => Undone'[Target(j)'] = changes'[j].old
      BY Zenon DEF Seen
    <3> QED BY <1>1, <2>2, <2>3, <3>1
  <2> QED BY <2>4, <2>5
<1>2. CASE ~Pending(f)
  BY <1>2, Zenon DEF Seen
<1> QED BY <1>1, <1>2

\* A step of the service between two places of _commit.
Inside == Next /\ ~Edit /\ pc \in InFlight /\ pc' \in InFlight

\* What it leaves alone.
LEMMA InsideFacts ==
  ASSUME RInv, Inside, pc # "rmdirs"
  PROVE  /\ UNCHANGED <<touched, recovery, outcome, changes, stuck>> /\ raced \subseteq touched
         /\ pc \in Changing /\ i \in DOMAIN changes /\ Target(i) \in Files
         /\ pc' \in {"write", "undoWrite"} => i' = i
<1>0. TypeOK /\ IndexInv /\ StartInv
  BY DEF RInv, IInv
<1>1. pc \in Changing
  BY SMT DEF Inside, InFlight, Changing, Next, TakeLock, Validate, CancelledWaiting, Precheck, Check, Write,
     Diff, UndoCheck, UndoWrite, RemoveDirectories, Recover, Crash, Finish
<1>2. i \in DOMAIN changes /\ Target(i) \in Files
  BY <1>0, <1>1, PatchFacts DEF IndexInv
<1>3. UNCHANGED <<touched, recovery, outcome>> /\ (pc' \in {"write", "undoWrite"} => i' = i)
  BY <1>1, SMT DEF Inside, InFlight, Changing, Next, TakeLock, Validate, CancelledWaiting, Precheck, Check, Write,
     Diff, UndoCheck, UndoWrite, RemoveDirectories, Recover, Crash, Finish, Undo, NextUndo, Stays, history
<1>4. UNCHANGED <<changes, stuck>>
  BY <1>0, PlaceStep, StuckStep DEF Inside
<1> QED BY <1>0, <1>1, <1>2, <1>3, <1>4 DEF StartInv

\* It changes nothing about other files than the one at hand.
LEMMA OtherFiles ==
  ASSUME RInv, RInv', Inside, pc # "rmdirs", NEW f \in Files, f # Target(i)
  PROVE  Undone'[f] = Undone[f]
<1>0. /\ TypeOK /\ IndexInv /\ Next /\ ~Edit /\ Seen /\ Seen' /\ UNCHANGED changes
      /\ pc' \in {"write", "undoWrite"} => i' = i
  BY SeenStep, InsideFacts, Zenon DEF RInv, IInv, Inside
<1>1. disk'[f] = disk[f]
  <2>1. disk \in [Files -> Content]
    BY <1>0 DEF TypeOK
  <2> QED BY <1>0, <2>1, DiskStep, Zenon DEF Puts, PutsBack, Put
<1>2. (\E k \in 1 .. attempted' : Target(k) = f /\ disk[f] = changes[k].new)
      <=> (\E k \in 1 .. attempted : Target(k) = f /\ disk[f] = changes[k].new)
  BY <1>0, AttemptStep, Zenon
<1>3. Pending(f) <=> \E k \in 1 .. attempted : Target(k) = f /\ disk[f] = changes[k].new
  BY Zenon DEF Pending, Inside
<1>4. Pending(f)' <=> \E k \in 1 .. attempted' : Target(k) = f /\ disk[f] = changes[k].new
  <2>1. pc' \in {"write", "undoWrite"} => f # Target(i)'
    BY <1>0 DEF Target
  <2>2. \A k : Target(k)' = Target(k)
    BY <1>0 DEF Target
  <2> QED BY <1>0, <1>1, <2>1, <2>2, Zenon DEF Pending, Inside
<1> QED BY <1>0, <1>1, <1>2, <1>3, <1>4, SameShown, Zenon

\* The file at hand is shown with what the change replaces or with what it holds.
LEMMA AtHand ==
  ASSUME RInv, RInv', Inside, pc # "rmdirs"
  PROVE  LET f == Target(i) IN
         /\ Undone[f] = disk[f] \/ Undone[f] = changes[i].old
         /\ Undone'[f] = disk'[f] \/ Undone'[f] = changes[i].old
         /\ pc \in {"write", "undoWrite"} => Undone[f] = changes[i].old
         /\ i \in 1 .. attempted' /\ disk'[f] = changes[i].new => Undone'[f] = changes[i].old
<1> DEFINE f == Target(i)
<1>0. /\ Seen /\ Seen' /\ UNCHANGED changes /\ i \in DOMAIN changes /\ f \in Files
      /\ pc \in InFlight /\ pc' \in InFlight
  BY SeenStep, InsideFacts DEF Inside
<1>1. /\ ~Pending(f) => Undone[f] = disk[f]
      /\ Pending(f) => Undone[f] = changes[i].old
  BY <1>0, Zenon DEF Seen
<1>2. ASSUME NEW k \in DOMAIN changes, NEW g \in Files, g = Target(k)
      PROVE  /\ ~Pending(g)' => Undone'[g] = disk'[g]
             /\ Pending(g)' => Undone'[g] = changes[k].old
             /\ k \in 1 .. attempted' /\ disk'[g] = changes[k].new => Pending(g)'
  <2>1. Target(k)' = g
    BY <1>0, <1>2 DEF Target
  <2>2. ~Pending(g)' => Undone'[g] = disk'[g]
    BY <1>0, Zenon DEF Seen
  <2>3. \A j \in DOMAIN changes' : Pending(Target(j))' => Undone'[Target(j)'] = changes'[j].old
    BY <1>0, Zenon DEF Seen
  <2>4. Pending(g)' => Undone'[g] = changes[k].old
    BY <1>0, <2>1, <2>3
  <2>5. k \in 1 .. attempted' /\ disk'[g] = changes[k].new => Pending(g)'
    BY <1>0, <2>1 DEF Pending
  <2> QED BY <2>2, <2>4, <2>5
<1>3. pc \in {"write", "undoWrite"} => Pending(f)
  BY Zenon DEF Pending
<1> QED BY <1>0, <1>1, <1>2, <1>3, Zenon

\* It shows the file at hand as before, unless somebody else wrote it.
LEMMA FileAtHand ==
  ASSUME RInv, RInv', Inside, pc # "rmdirs"
  PROVE  Undone'[Target(i)] = Undone[Target(i)] \/ Target(i) \in touched
<1> DEFINE f == Target(i)
<1>0. /\ TypeOK /\ IndexInv /\ Next /\ ~Edit /\ Seen /\ Seen' /\ UNCHANGED changes
      /\ i \in DOMAIN changes /\ f \in Files /\ raced \subseteq touched
      /\ pc \in InFlight /\ pc' \in InFlight /\ disk \in [Files -> Content]
  BY SeenStep, InsideFacts DEF RInv, IInv, Inside, TypeOK
<1>1. ASSUME UNCHANGED <<disk, attempted>>, pc \notin {"write", "undoWrite"},
             pc' \notin {"write", "undoWrite"}
      PROVE  Undone'[f] = Undone[f]
  <2>1. ASSUME NEW g \in Files PROVE Pending(g)' <=> Pending(g)
    <3>1. \A k : Target(k)' = Target(k)
      BY <1>0 DEF Target
    <3> QED BY <1>0, <1>1, <3>1, Zenon DEF Pending
  <2>2. ASSUME NEW g \in Files PROVE Undone'[g] = Undone[g]
    BY <1>0, <1>1, <2>1, SameShown, Zenon
  <2> QED BY <1>0, <2>2
<1>2. CASE Precheck
  <2>1. pc = "precheck" /\ UNCHANGED <<disk, attempted>> /\ attempted = 0
    BY <1>0, <1>2, SMT DEF Precheck, Stays, IndexInv
  <2>2. pc' \notin {"write", "undoWrite"}
    BY <1>2, SMT DEF Precheck, Undo
  <2> QED BY <1>1, <2>1, <2>2, SMT
<1>3. CASE Check
  <2>1. CASE Matches(i) /\ disk' = disk
    <3>1. disk[f] = changes[i].old /\ disk'[f] = changes[i].old
      BY <2>1 DEF Matches
    <3> QED BY <3>1, AtHand, InsideFacts, Zenon
  <2>2. CASE disk' = disk /\ attempted' = attempted /\ Undo
    <3>1. pc = "check" /\ pc' \notin {"write", "undoWrite"}
      BY <1>3, <2>2, SMT DEF Undo, Check
    <3> QED BY <1>1, <2>2, <3>1, SMT
  <2> QED BY <1>3, <2>1, <2>2, Zenon DEF Check
<1>4. CASE Write
  <2>1. /\ pc = "write" /\ i \in 1 .. attempted /\ attempted' = attempted
    BY <1>0, <1>4, SMT DEF Write, IndexInv, Changing
  <2>2. Undone[f] = changes[i].old
    BY <1>0, <2>1, AtHand, Zenon
  <2>3. CASE disk' = [disk EXCEPT ![f] = changes[i].new]
    <3>1. disk'[f] = changes[i].new
      BY <1>0, <2>3
    <3> QED BY <2>1, <2>2, <3>1, AtHand, Zenon
  <2>4. CASE disk' = disk
    <3>1. disk[f] = changes[i].old \/ f \in touched
      BY <1>0, <2>1, Zenon DEF RInv, IInv, CheckedInv
    <3> QED BY <2>2, <2>4, <3>1, AtHand, Zenon
  <2> QED BY <1>4, <2>3, <2>4, Zenon DEF Write, Put
<1>5. CASE UndoCheck
  <2>1. /\ pc = "undoCheck" /\ i \in 1 .. attempted /\ UNCHANGED <<disk, attempted>>
    BY <1>0, <1>5, SMT DEF UndoCheck, Stays, IndexInv, Changing
  <2>2. CASE Ours(i)
    <3>1. CASE disk[f] = changes[i].old
      BY <2>1, <3>1, AtHand, Zenon
    <3>2. CASE disk[f] = changes[i].new
      <4>1. Pending(f)
        BY <1>0, <2>1, <3>2, Zenon DEF Pending
      <4>2. Undone[f] = changes[i].old
        BY <1>0, <4>1, Zenon DEF Seen
      <4> QED BY <2>1, <3>2, <4>2, AtHand, Zenon
    <3> QED BY <2>2, <3>1, <3>2, Zenon DEF Ours
  <2>3. CASE NextUndo
    <3>1. pc' \notin {"write", "undoWrite"}
      BY <2>3, SMT DEF NextUndo
    <3> QED BY <1>1, <2>1, <3>1, SMT
  <2> QED BY <1>5, <2>2, <2>3, Zenon DEF UndoCheck
<1>6. CASE UndoWrite
  <2>1. /\ pc = "undoWrite" /\ i \in 1 .. attempted /\ attempted' = attempted
    BY <1>0, <1>6, SMT DEF UndoWrite, IndexInv, Changing
  <2>2. Undone[f] = changes[i].old
    BY <1>0, <2>1, AtHand, Zenon
  <2>3. CASE disk' = [disk EXCEPT ![f] = changes[i].old]
    <3>1. disk'[f] = changes[i].old
      BY <1>0, <2>3
    <3> QED BY <2>2, <3>1, AtHand, Zenon
  <2>4. CASE disk' = disk
    <3>1. Ours(i) \/ f \in touched
      BY <1>0, <2>1, Zenon DEF RInv, IInv, CheckedInv
    <3> QED BY <2>1, <2>2, <2>4, <3>1, AtHand, Zenon DEF Ours
  <2> QED BY <1>6, <2>3, <2>4, Zenon DEF UndoWrite, Put
<1>7. Precheck \/ Check \/ Write \/ UndoCheck \/ UndoWrite
  <2>1. pc \in Changing
    BY InsideFacts
  <2> QED BY <1>0, <2>1, SMT DEF Changing, InFlight, Next, TakeLock, Validate, CancelledWaiting, Diff,
         RemoveDirectories, Recover, Crash
<1> QED BY <1>2, <1>3, <1>4, <1>5, <1>6, <1>7

--------------------------------------------------------------------------------
(* Every step is one of the contract's, or none. *)

Shown == <<Undone, Stage, touched, recovery, Litter, stuck, outcome, changes>>

\* When the tree of the contract shows some of the changes.
LEMMA ShowsSome ==
  ASSUME NEW ks \in SUBSET DOMAIN changes,
         \A f \in Files :
           \/ /\ f \in touched
              /\ \/ Undone'[f] = Undone[f]
                 \/ \E k \in DOMAIN changes : /\ Target(k) = f
                                              /\ Undone'[f] \in {changes[k].old, changes[k].new}
           \/ \E k \in ks : /\ Target(k) = f
                            /\ changes[k].old = Undone[f] /\ Undone'[f] = changes[k].new
           \/ /\ Undone'[f] = Undone[f]
              /\ \A k \in ks : Target(k) = f => changes[k].old # Undone[f]
  PROVE  Contract!Shows(ks)
<1> SUFFICES ASSUME NEW f \in Files
             PROVE  LET found == {changes[k].new : k \in {k \in ks \cap Contract!Changed(f) :
                                                            changes[k].old = Undone[f]}}
                        meant == IF found = {} THEN {Undone[f]} ELSE found
                        other == UNION {{changes[k].old, changes[k].new} : k \in Contract!Changed(f)}
                    IN  Undone'[f] \in IF f \in touched THEN {Undone[f]} \cup other ELSE meant
  BY Zenon DEF Contract!Shows
<1> DEFINE found == {changes[k].new : k \in {k \in ks \cap Contract!Changed(f) :
                                               changes[k].old = Undone[f]}}
           other == UNION {{changes[k].old, changes[k].new} : k \in Contract!Changed(f)}
<1>1. \A k : k \in Contract!Changed(f) <=> k \in DOMAIN changes /\ Target(k) = f
  BY DEF Contract!Changed, Target
<1>2. CASE f \in touched
  BY <1>1, <1>2
<1>3. CASE f \notin touched /\ \E k \in ks : /\ Target(k) = f /\ changes[k].old = Undone[f]
                                             /\ Undone'[f] = changes[k].new
  BY <1>1, <1>3
<1>4. CASE /\ f \notin touched /\ Undone'[f] = Undone[f]
           /\ \A k \in ks : Target(k) = f => changes[k].old # Undone[f]
  <2>1. found = {}
    BY <1>1, <1>4
  <2> QED BY <1>4, <2>1
<1> QED BY <1>2, <1>3, <1>4, Zenon

\* A step of _commit that does not end it shows nothing, or an edit that has survived,
\* or directories that cannot be removed.
LEMMA InsideMaps == RInv /\ RInv' /\ Inside => [Contract!Next]_Shown
<1> SUFFICES ASSUME RInv, RInv', Inside PROVE [Contract!Next]_Shown
  OBVIOUS
<1>0. /\ Seen /\ Seen' /\ Stage = "open" /\ Stage' = "open" /\ Litter = {} /\ Litter' = {}
  BY SeenStep, Zenon DEF Inside, Staged
<1>1. CASE pc = "rmdirs"
  <2>1. RemoveDirectories /\ pc' = "recover"
    BY <1>1, SMT DEF Inside, InFlight, Next, TakeLock, Validate, CancelledWaiting, Precheck, Check, Write,
       Diff, UndoCheck, UndoWrite, RemoveDirectories, Recover, Crash, Finish
  <2>2. UNCHANGED <<touched, recovery, outcome, changes, disk, attempted>>
    BY <2>1, Zenon DEF RemoveDirectories, Finish, history
  <2>3. ASSUME NEW f \in Files PROVE Undone'[f] = Undone[f]
    <3>1. \A k : Target(k)' = Target(k)
      BY <2>2 DEF Target
    <3>2. pc # "write" /\ pc # "undoWrite" /\ pc' # "write" /\ pc' # "undoWrite"
      BY <1>1, <2>1
    <3>3. Pending(f)' <=> Pending(f)
      BY <2>2, <3>1, <3>2, Zenon DEF Pending, Inside
    <3> QED BY <1>0, <2>2, <3>3, SameShown, Zenon DEF RInv, IInv
  <2>4. Undone' = Undone
    BY <2>3 DEF Undone
  <2>5. stuck \subseteq stuck'
    BY <1>1, SMT DEF RInv, LeftInv
  <2> QED BY <1>0, <2>2, <2>4, <2>5, Zenon DEF Contract!Next, Contract!Stick
<1>2. CASE pc # "rmdirs"
  <2>1. /\ UNCHANGED <<touched, recovery, outcome, changes, stuck>> /\ Target(i) \in Files
        /\ Undone'[Target(i)] \in Content
    BY <1>0, <1>2, InsideFacts, SeenStep, SMT DEF Seen
  <2> DEFINE f == Target(i)  c == Undone'[Target(i)]
  <2>2. \A g \in Files \ {f} : Undone'[g] = Undone[g]
    BY <1>2, OtherFiles
  <2>3. Undone' = [Undone EXCEPT ![f] = c]
    <3>1. Undone = [g \in Files |-> Undone[g]] /\ Undone' = [g \in Files |-> Undone'[g]]
      BY DEF Undone
    <3> QED BY <2>1, <2>2, <3>1
  <2>4. CASE Undone'[f] = Undone[f]
    <3>1. Undone' = Undone
      <4>1. \A g \in Files : Undone'[g] = Undone[g]
        BY <2>2, <2>4, Zenon
      <4> QED BY <4>1 DEF Undone
    <3> QED BY <1>0, <2>1, <3>1, Zenon DEF Shown
  <2>5. CASE f \in touched
    <3>1. touched' = touched \cup {f}
      BY <2>1, <2>5
    <3>2. Contract!Edit
      BY <1>0, <2>1, <2>3, <3>1 DEF Contract!Edit, Contract!Content, Content
    <3> QED BY <2>1, <3>2, Zenon DEF Contract!Next
  <2> QED BY <1>2, <2>4, <2>5, FileAtHand
<1> QED BY <1>1, <1>2

\* An edit of another writer is one for the contract.
LEMMA EditMaps == RInv /\ RInv' /\ Edit => Contract!Next
<1> SUFFICES ASSUME RInv, RInv', Edit PROVE Contract!Next
  OBVIOUS
<1>0. /\ Seen /\ Seen' /\ Staged /\ Staged' /\ TypeOK /\ IndexInv
      /\ UNCHANGED <<pc, i, attempted, changes, recovery, outcome, stuck>>
  BY SeenStep, Zenon DEF RInv, IInv, Edit, service
<1>1. PICK f \in Files, c \in Foreign \cup {Absent} :
        /\ disk' = [disk EXCEPT ![f] = c]
        /\ touched' = IF pc = "lock" THEN touched ELSE touched \cup {f}
  BY Zenon DEF Edit
<1>2. \A g \in Files \ {f} : Undone'[g] = Undone[g]
  <2> TAKE g \in Files \ {f}
  <2>1. disk'[g] = disk[g]
    BY <1>0, <1>1, SMT DEF TypeOK
  <2>2. \A k : Target(k)' = Target(k) /\ Target(i)' = Target(i)
    BY <1>0 DEF Target
  <2>3. Pending(g)' <=> Pending(g)
    BY <1>0, <2>1, <2>2, Zenon DEF Pending
  <2> QED BY <1>0, <2>1, <2>3, SameShown
<1>3. Undone' = [Undone EXCEPT ![f] = Undone'[f]] /\ Undone'[f] \in Content
  <2>1. Undone = [g \in Files |-> Undone[g]] /\ Undone' = [g \in Files |-> Undone'[g]]
    BY DEF Undone
  <2>2. Undone'[f] \in Content
    BY <1>0, SMT DEF Seen
  <2> QED BY <1>2, <2>1, <2>2
<1>4. /\ pc = "lock" <=> Stage = "waiting"
      /\ Stage \in {"waiting", "open", "committed"} /\ Stage' = Stage
  <2>1. pc \in InFlight \cup {"lock", "validate", "diff"}
    BY <1>0, SMT DEF TypeOK, Edit
  <2> QED BY <1>0, <2>1, SMT DEF Staged
<1>5. touched' = IF Stage = "waiting" THEN touched ELSE touched \cup {f}
  BY <1>1, <1>4
<1>6. Contract!Edit
  BY <1>0, <1>3, <1>4, <1>5 DEF Contract!Edit, Contract!Content, Content
<1> QED BY <1>0, <1>6, Zenon DEF Contract!Next

Quiet == pc \notin InFlight => \A f \in Files : Undone[f] = disk[f]

\* Outside of _commit the files are shown as they are.
LEMMA QuietAll == TypeOK /\ IndexInv => Quiet
<1> SUFFICES ASSUME TypeOK, IndexInv, pc \notin InFlight, NEW f \in Files PROVE Undone[f] = disk[f]
  BY DEF Quiet
<1>1. ~Pending(f)
  BY SMT DEF Pending, InFlight
<1> QED BY <1>1, SeenUndone, Zenon DEF Seen

\* Both hold before and after a step.
LEMMA QuietStep == RInv /\ RInv' => Quiet /\ Quiet'
<1>1. RInv => TypeOK /\ IndexInv
  BY DEF RInv, IInv
<1> QED BY <1>1, QuietAll, PTL

\* A file that _commit has changed and not put back holds an attempted change.
LEMMA InFlightFile ==
  ASSUME TypeOK, IndexInv, Seen, pc \in InFlight, NEW f \in Files
  PROVE  \/ Undone[f] = disk[f]
         \/ \E k \in 1 .. attempted :
              k \in DOMAIN changes /\ Target(k) = f /\ Undone[f] = changes[k].old
              /\ (disk[f] = changes[k].new \/ (pc \in {"write", "undoWrite"} /\ k = i))
<1>1. CASE ~Pending(f)
  BY <1>1, Zenon DEF Seen
<1>2. CASE Pending(f)
  <2>1. pc \in {"write", "undoWrite"} => i \in 1 .. attempted
    BY SMT DEF TypeOK, IndexInv, Changing
  <2>2. PICK k \in 1 .. attempted :
          Target(k) = f /\ (disk[f] = changes[k].new \/ (pc \in {"write", "undoWrite"} /\ k = i))
    BY <1>2, <2>1, Zenon DEF Pending
  <2>3. k \in DOMAIN changes
    BY PatchFacts, SMT DEF TypeOK
  <2> QED BY <1>2, <2>2, <2>3, Zenon DEF Seen
<1> QED BY <1>1, <1>2

\* Taking the lock opens the transaction.
LEMMA TakeLockMaps == RInv /\ RInv' /\ TakeLock => Contract!Next
<1> SUFFICES ASSUME RInv, RInv', TakeLock PROVE Contract!Next
  OBVIOUS
<1>1. /\ pc = "lock" /\ pc' = "validate" /\ pc \notin InFlight /\ pc' \notin InFlight
      /\ UNCHANGED <<disk, created, changes, recovery, outcome, touched, stuck>>
  BY SMT DEF TakeLock, Stays, history, InFlight
<1>2. /\ created = {} /\ Stage = "waiting" /\ Stage' = "open"
  BY <1>1, SeenStep, SMT DEF RInv, CreatedInv, Staged
<1>3. Litter = {} /\ Litter' = {}
  BY <1>1, <1>2 DEF Litter
<1>4. Undone' = Undone
  BY <1>1, QuietStep DEF Quiet, Undone
<1> QED BY <1>1, <1>2, <1>3, <1>4, Zenon DEF Contract!Next, Contract!Open

\* What is refused before anything was written leaves everything as it is.
LEMMA EarlyRefusal ==
  ASSUME RInv, RInv', pc \in {"lock", "validate"}, pc' = "done",
         UNCHANGED <<disk, created, changes, recovery, touched, stuck>>,
         outcome' \in {"rejected", "dry_run", "cancelled"}
  PROVE  Contract!Next
<1>1. pc \notin InFlight /\ pc' \notin InFlight
  BY SMT DEF InFlight
<1>2. created = {} /\ Stage \in {"waiting", "open"} /\ Stage' = "closed"
  BY SeenStep, SMT DEF RInv, CreatedInv, Staged
<1>3. Litter' = {}
  BY <1>1, <1>2 DEF Litter
<1>4. \A f \in Files : Undone'[f] = Undone[f]
  BY <1>1, QuietStep DEF Quiet
<1>5. Contract!Shows({})
  BY <1>4, ShowsSome
<1>6. outcome' \in {"rejected", "dry_run", "restored", "cancelled"} /\ outcome' # "restored"
  BY SMT
<1> QED BY <1>2, <1>3, <1>5, <1>6, Zenon DEF Contract!Next, Contract!Refuse

\* Validation is inside the transaction; it may refuse.
LEMMA ValidateMaps == RInv /\ RInv' /\ Validate => [Contract!Next]_Shown
<1> SUFFICES ASSUME RInv, RInv', Validate PROVE [Contract!Next]_Shown
  OBVIOUS
<1>1. /\ pc = "validate" /\ pc \notin InFlight
      /\ UNCHANGED <<disk, created, changes, recovery, touched, attempted, stuck>>
  BY SMT DEF Validate, Stays, history, InFlight
<1>2. CASE pc' = "done" /\ outcome' \in {"dry_run", "rejected"}
  BY <1>1, <1>2, EarlyRefusal, SMT
<1>3. CASE pc' \in {"validate", "precheck"} /\ outcome' = outcome
  <2>1. created = {} /\ attempted = 0 /\ Seen' /\ Stage = "open" /\ Stage' = "open"
        /\ Quiet /\ Quiet'
    BY <1>1, <1>3, SeenStep, QuietStep, SMT DEF RInv, IInv, IndexInv, CreatedInv, Staged, InFlight
  <2>2. Litter = {} /\ Litter' = {}
    BY <1>1, <2>1 DEF Litter
  <2>3. \A f \in Files : ~Pending(f)'
    BY <1>1, <1>3, <2>1, SMT DEF Pending
  <2>4. Undone' = Undone
    <3>1. \A f \in Files : Undone'[f] = Undone[f]
      BY <1>1, <2>1, <2>3, Zenon DEF Seen, Quiet
    <3> QED BY <3>1 DEF Undone
  <2> QED BY <1>1, <1>3, <2>1, <2>2, <2>4, Zenon DEF Shown
<1>4. \/ pc' = "done" /\ outcome' \in {"dry_run", "rejected"}
      \/ pc' \in {"validate", "precheck"} /\ outcome' = outcome
  BY SMT DEF Validate, Finish
<1> QED BY <1>2, <1>3, <1>4

\* Cancelled while waiting.
LEMMA CancelledMaps == RInv /\ RInv' /\ CancelledWaiting => Contract!Next
<1> SUFFICES ASSUME RInv, RInv', CancelledWaiting PROVE Contract!Next
  OBVIOUS
<1>1. /\ pc \in {"lock", "validate"} /\ pc' = "done" /\ outcome' = "cancelled"
      /\ UNCHANGED <<disk, created, changes, recovery, touched, stuck>>
  BY SMT DEF CancelledWaiting, Finish, Stays, history
<1> QED BY <1>1, EarlyRefusal, SMT

\* The answer after the commit.
LEMMA DiffMaps == RInv /\ RInv' /\ Diff => Contract!Next
<1> SUFFICES ASSUME RInv, RInv', Diff PROVE Contract!Next
  OBVIOUS
<1>1. /\ pc = "diff" /\ pc' = "done" /\ pc \notin InFlight /\ pc' \notin InFlight
      /\ UNCHANGED <<disk, changes, recovery, touched, stuck>>
      /\ outcome' \in {"applied", "error", "cancelled"}
  BY SMT DEF Diff, Finish, Stays, history, InFlight
<1>2. Stage = "committed" /\ Stage' = "closed"
  BY <1>1, SeenStep, SMT DEF Staged
<1>3. Undone' = Undone
  BY <1>1, QuietStep DEF Quiet, Undone
<1> QED BY <1>1, <1>2, <1>3, Zenon DEF Contract!Next, Contract!Return

\* With the last change written, all of them take effect, and every directory that
\* was made is used.
LEMMA CommitMaps == RInv /\ RInv' /\ Write /\ Next /\ pc' = "diff" => Contract!Next
<1> SUFFICES ASSUME RInv, RInv', Write, Next, pc' = "diff" PROVE Contract!Next
  OBVIOUS
<1>0. /\ TypeOK /\ IndexInv /\ Seen /\ Staged /\ Staged' /\ Quiet' /\ Distinct
      /\ pc = "write" /\ pc \in InFlight /\ pc' \notin InFlight
  <2>1. pc = "write" /\ pc \in InFlight /\ pc' \notin InFlight
    BY SMT DEF Write, InFlight
  <2> QED BY <2>1, SeenStep, QuietStep, Zenon DEF RInv, IInv, IndexInv
<1>1. /\ disk' = [disk EXCEPT ![Target(i)] = changes[i].new] /\ i = Len(changes)
      /\ UNCHANGED <<attempted, created, changes, recovery, outcome, touched, stuck>>
  BY SMT DEF Write, Put, Undo
<1>2. /\ 1 .. attempted = DOMAIN changes /\ i \in DOMAIN changes
      /\ \A k \in DOMAIN changes : k = i \/ k \in 1 .. i - 1
  BY <1>0, <1>1, PatchFacts, SMT DEF IndexInv, Changing
<1>3. disk \in [Files -> Content] /\ \A f \in Files : Undone'[f] = disk'[f]
  BY <1>0 DEF TypeOK, Quiet
<1>4. ASSUME NEW k \in DOMAIN changes
      PROVE  LET f == Target(k) IN
             \/ changes[k].old = Undone[f] /\ Undone'[f] = changes[k].new
             \/ f \in touched /\ Undone'[f] = Undone[f]
  <2> DEFINE f == Target(k)
  <2>1. f \in Files
    BY <1>0, PatchFacts
  <2>2. CASE k = i
    <3>1. Pending(f)
      BY <1>0, <2>2 DEF Pending
    <3>2. disk'[f] = changes[k].new
      BY <1>1, <1>3, <2>1, <2>2
    <3> QED BY <1>0, <1>3, <2>1, <3>1, <3>2, Zenon DEF Seen
  <2>3. CASE k # i
    <3>1. disk'[f] = disk[f]
      <4>1. f # Target(i)
        BY <1>0, <1>2, <2>3, Zenon DEF Distinct
      <4> QED BY <1>1, <1>3, <2>1, <4>1
    <3>2. Forth(k)
      BY <1>0, <1>2, <2>3, Zenon DEF RInv, DoneInv
    <3>3. CASE disk[f] = changes[k].new
      <4>1. Pending(f)
        BY <1>0, <1>2, <3>3, Zenon DEF Pending
      <4> QED BY <1>0, <1>3, <2>1, <3>1, <3>3, <4>1, Zenon DEF Seen
    <3>4. CASE disk[f] # changes[k].new
      <4>1. ~Pending(f)
        <5>1. f # Target(i)
          BY <1>0, <1>2, <2>3, Zenon DEF Distinct
        <5>2. \A j \in 1 .. attempted : Target(j) = f => j = k
          BY <1>0, <1>2, Zenon DEF Distinct
        <5> QED BY <3>4, <5>1, <5>2, Zenon DEF Pending
      <4> QED BY <1>0, <1>3, <2>1, <3>1, <3>2, <3>4, <4>1, Zenon DEF Seen, Forth
    <3> QED BY <3>3, <3>4
  <2> QED BY <2>2, <2>3
<1>5. ASSUME NEW f \in Files, \A k \in DOMAIN changes : Target(k) # f
      PROVE  Undone'[f] = Undone[f]
  <2>1. ~Pending(f)
    BY <1>2, <1>5, Zenon DEF Pending
  <2>2. disk'[f] = disk[f]
    BY <1>1, <1>2, <1>3, <1>5
  <2> QED BY <1>0, <1>3, <2>1, <2>2, Zenon DEF Seen
<1>6. Contract!Shows(DOMAIN changes)
  <2>1. \A f \in Files :
          \/ \E k \in DOMAIN changes : Target(k) = f
          \/ \A k \in DOMAIN changes : Target(k) # f
    OBVIOUS
  <2> QED BY <1>4, <1>5, <2>1, ShowsSome, ZenonT(30)
<1>7. Litter' = {}
  <2>1. ASSUME NEW d \in created'
        PROVE  \E f \in Files : DirOf[f] = d /\ (disk'[f] # Absent \/ f \in touched')
    <3>1. PICK k \in 1 .. attempted : DirOf[Target(k)] = d /\ changes[k].old = Absent
      BY <1>1, <2>1, Zenon DEF RInv, CreatedInv
    <3>2. k \in DOMAIN changes /\ changes[k].new # Absent /\ Target(k) \in Files
      BY <1>0, <1>2, <3>1, PatchFacts, ChangeAssumption, Zenon DEF TypeOK
    <3>3. Forth(k)'
      BY <1>1, <3>2 DEF RInv, DoneInv
    <3> QED BY <1>1, <3>1, <3>2, <3>3, Zenon DEF Forth, Target
  <2> QED BY <1>0, <2>1, Zenon DEF Staged
<1>8. Stage = "open" /\ Stage' = "committed" /\ Litter = {}
  BY <1>0, SMT DEF Staged
<1> QED BY <1>1, <1>6, <1>7, <1>8, Zenon DEF Contract!Next, Contract!Commit

\* A complete rollback refuses the patch; what it made and nobody uses is removed,
\* or could not be.
LEMMA RestoredMaps == RInv /\ RInv' /\ RemoveDirectories /\ pc' = "done" => Contract!Next
<1> SUFFICES ASSUME RInv, RInv', RemoveDirectories, pc' = "done" PROVE Contract!Next
  OBVIOUS
<1>0. /\ TypeOK /\ IndexInv /\ Seen /\ Staged /\ Staged' /\ Quiet'
      /\ pc = "rmdirs" /\ pc \in InFlight /\ pc' \notin InFlight
  <2>1. pc = "rmdirs" /\ pc \in InFlight /\ pc' \notin InFlight
    BY SMT DEF RemoveDirectories, InFlight
  <2> QED BY <2>1, SeenStep, QuietStep, Zenon DEF RInv, IInv
<1>1. /\ UNCHANGED <<disk, attempted, created, changes, recovery, touched>> /\ outcome' = "restored"
      /\ dirs' = dirs \ ({d \in created : \A f \in Files : DirOf[f] = d => disk[f] = Absent} \ stuck')
      /\ stuck = {}
  <2>1. /\ UNCHANGED <<disk, attempted, created, changes, recovery, touched>>
        /\ dirs' = dirs \ ({d \in created : \A f \in Files : DirOf[f] = d => disk[f] = Absent} \ stuck')
    BY Zenon DEF RemoveDirectories
  <2>2. outcome' = "restored"
    BY SMT DEF RemoveDirectories, Finish
  <2>3. stuck = {}
    BY <1>0, SMT DEF RInv, LeftInv
  <2> QED BY <2>1, <2>2, <2>3
<1>2. \A f \in Files : Undone'[f] = disk[f]
  BY <1>0, <1>1 DEF Quiet
<1>3. \A k \in 1 .. attempted : disk[Target(k)] = changes[k].old \/ Target(k) \in touched
  <2>1. \A k \in 1 .. attempted' : Back(k)'
    BY <1>1, SMT DEF RInv, IInv, ReportInv
  <2> QED BY <1>1, <2>1, Zenon DEF Back, Target
<1>4. ASSUME NEW f \in Files
      PROVE  \/ Undone'[f] = Undone[f]
             \/ f \in touched /\ \E k \in DOMAIN changes :
                  Target(k) = f /\ Undone'[f] \in {changes[k].old, changes[k].new}
  <2>1. CASE Undone[f] = disk[f]
    BY <1>2, <2>1
  <2>2. CASE \E k \in 1 .. attempted :
               k \in DOMAIN changes /\ Target(k) = f /\ Undone[f] = changes[k].old
               /\ (disk[f] = changes[k].new \/ (pc \in {"write", "undoWrite"} /\ k = i))
    BY <1>0, <1>2, <1>3, <2>2
  <2> QED BY <1>0, <2>1, <2>2, InFlightFile
<1>5. Contract!Shows({})
  BY <1>4, ShowsSome
<1>6. stuck \subseteq stuck' /\ Litter' \subseteq stuck'
  <2>1. \A d \in created' \cap dirs' :
          d \in stuck' \/ \E f \in Files : DirOf[f] = d /\ disk'[f] # Absent
    BY <1>1, Zenon
  <2>2. stuck \subseteq stuck'
    BY <1>1
  <2> QED BY <1>0, <2>1, <2>2, Zenon DEF Staged
<1>7. Stage \in {"waiting", "open"} /\ Stage' = "closed"
  BY <1>0, SMT DEF Staged
<1>8. Contract!Refuse
  BY <1>1, <1>5, <1>6, <1>7, Zenon DEF Contract!Refuse
<1> QED BY <1>1, <1>8, Zenon DEF Contract!Next

\* An incomplete rollback says so: what still shows the patch has its original saved.
LEMMA RecoverMaps == RInv /\ RInv' /\ Recover => Contract!Next
<1> SUFFICES ASSUME RInv, RInv', Recover PROVE Contract!Next
  OBVIOUS
<1>0. /\ TypeOK /\ IndexInv /\ Seen /\ Staged /\ Staged' /\ Quiet'
      /\ pc = "recover" /\ pc \in InFlight /\ pc' = "done" /\ pc' \notin InFlight
  <2>1. pc = "recover" /\ pc \in InFlight /\ pc' = "done" /\ pc' \notin InFlight
    BY SMT DEF Recover, Finish, InFlight
  <2> QED BY <2>1, SeenStep, QuietStep, Zenon DEF RInv, IInv
<1>1. /\ UNCHANGED <<disk, dirs, attempted, created, changes, touched, stuck>>
      /\ \/ outcome' = "incomplete" /\ recovery' = {Target(k) : k \in 1 .. attempted}
         \/ outcome' = "unsaved" /\ recovery' = {}
  BY Zenon DEF Recover, Finish, Stays, history
<1> DEFINE ks == {k \in 1 .. attempted : disk[Target(k)] = changes[k].new}
<1>2. 1 .. attempted \subseteq DOMAIN changes /\ \A f \in Files : Undone'[f] = disk[f]
  BY <1>0, <1>1, PatchFacts, SMT DEF TypeOK, Quiet
<1>3. ASSUME NEW f \in Files
      PROVE  \/ \E k \in ks : /\ Target(k) = f
                              /\ changes[k].old = Undone[f] /\ Undone'[f] = changes[k].new
             \/ /\ Undone'[f] = Undone[f]
                /\ \A k \in ks : Target(k) = f => changes[k].old # Undone[f]
  <2>1. CASE ~Pending(f)
    <3>1. \A k \in ks : Target(k) # f
      BY <1>0, <2>1, Zenon DEF Pending
    <3> QED BY <1>0, <1>2, <2>1, <3>1, Zenon DEF Seen
  <2>2. CASE Pending(f)
    <3>1. PICK k \in 1 .. attempted : Target(k) = f /\ disk[f] = changes[k].new
      BY <1>0, <2>2 DEF Pending
    <3>2. Undone[f] = changes[k].old
      BY <1>0, <1>2, <2>2, <3>1, Zenon DEF Seen
    <3> QED BY <1>2, <3>1, <3>2
  <2> QED BY <2>1, <2>2
<1>4. ks \in SUBSET DOMAIN changes
  BY <1>2
<1>5. Contract!Shows(ks)
  <2> HIDE DEF ks
  <2> QED BY <1>3, <1>4, ShowsSome
<1>6. outcome' = "incomplete" => \A k \in ks : changes[k].file \in recovery'
  BY <1>1 DEF Target
<1>7. Litter' \subseteq stuck
  <2>1. \A d \in created' \cap dirs' :
          d \in stuck \/ \E f \in Files : DirOf[f] = d /\ (disk'[f] # Absent \/ f \in touched')
    BY <1>0, <1>1 DEF RInv, LeftInv
  <2> QED BY <1>0, <2>1, Zenon DEF Staged
<1>8. Stage = "open" /\ Stage' = "closed"
  BY <1>0, SMT DEF Staged
<1>9. Contract!Incomplete
  <2> HIDE DEF ks
  <2> QED BY <1>1, <1>4, <1>5, <1>6, <1>7, <1>8, Zenon DEF Contract!Incomplete
<1> QED BY <1>1, <1>9, Zenon DEF Contract!Next

\* After a crash every file is as it was or as the patch makes it.
LEMMA CrashMaps == RInv /\ RInv' /\ Crash => Contract!Next
<1> SUFFICES ASSUME RInv, RInv', Crash PROVE Contract!Next
  OBVIOUS
<1>0. /\ TypeOK /\ IndexInv /\ StartInv /\ CheckedInv /\ Seen /\ Staged /\ Staged' /\ Quiet /\ Quiet'
      /\ pc \in InFlight \cup {"validate", "diff"} /\ pc' = "crashed" /\ pc' \notin InFlight
  <2>1. pc \in InFlight \cup {"validate", "diff"} /\ pc' = "crashed" /\ pc' \notin InFlight
    BY SMT DEF Crash, InFlight
  <2> QED BY <2>1, SeenStep, QuietStep, Zenon DEF RInv, IInv
<1>1. UNCHANGED <<disk, changes, recovery, outcome, touched, stuck>>
  BY Zenon DEF Crash, Stays, history
<1>2. \A f \in Files : Undone'[f] = disk[f]
  BY <1>0, <1>1 DEF Quiet
<1>3. ASSUME NEW f \in Files \ touched
      PROVE  \/ Undone'[f] = Undone[f]
             \/ \E k \in DOMAIN changes : Target(k) = f /\ Undone'[f] = changes[k].new
  <2>1. CASE Undone[f] = disk[f]
    BY <1>2, <2>1
  <2>2. CASE \E k \in 1 .. attempted :
               k \in DOMAIN changes /\ Target(k) = f /\ Undone[f] = changes[k].old
               /\ (disk[f] = changes[k].new \/ (pc \in {"write", "undoWrite"} /\ k = i))
    <3>1. PICK k \in 1 .. attempted :
            k \in DOMAIN changes /\ Target(k) = f /\ Undone[f] = changes[k].old
            /\ (disk[f] = changes[k].new \/ (pc \in {"write", "undoWrite"} /\ k = i))
      BY <2>2
    <3>2. CASE disk[f] = changes[k].new
      BY <1>2, <3>1, <3>2
    <3>3. CASE pc \in {"write", "undoWrite"} /\ k = i
      <4>1. f \notin raced
        BY <1>0, <1>3, Zenon DEF StartInv
      <4>2. disk[f] \in {changes[k].old, changes[k].new}
        BY <1>0, <3>1, <3>3, <4>1, SMT DEF CheckedInv, Ours
      <4> QED BY <1>2, <3>1, <4>2
    <3> QED BY <3>1, <3>2, <3>3
  <2>3. CASE pc \notin InFlight
    BY <1>0, <1>2, <2>3, Zenon DEF Quiet
  <2> QED BY <1>0, <2>1, <2>2, <2>3, InFlightFile
<1>4. \A f \in Files \ touched :
        Undone'[f] = Undone[f] \/ \E k \in DOMAIN changes \cap Contract!Changed(f) :
                                     Undone'[f] = changes[k].new
  BY <1>3, Zenon DEF Contract!Changed, Target
<1>5. Stage \in {"open", "committed"} /\ Stage' = "crashed"
  BY <1>0, SMT DEF Staged
<1>6. DOMAIN changes \in SUBSET DOMAIN changes
  OBVIOUS
<1> QED BY <1>1, <1>4, <1>5, <1>6, Zenon DEF Contract!Next, Contract!Crash

\* Any step.
LEMMA StepMaps == RInv /\ RInv' /\ [Next]_vars => [Contract!Next]_Shown
<1> SUFFICES ASSUME RInv, RInv', [Next]_vars PROVE [Contract!Next]_Shown
  OBVIOUS
<1>1. CASE Inside
  BY <1>1, InsideMaps
<1>2. CASE Edit
  BY <1>2, EditMaps
<1>3. CASE Next /\ ~Edit /\ ~Inside
  <2>1. \/ TakeLock \/ Validate \/ CancelledWaiting \/ Diff \/ Recover \/ Crash
        \/ Write /\ pc' = "diff"
        \/ RemoveDirectories /\ pc' = "done"
    <3>1. ASSUME Precheck \/ Check \/ UndoCheck \/ UndoWrite PROVE Inside
      BY <1>3, <3>1, SMT DEF Inside, InFlight, Precheck, Check, UndoCheck, UndoWrite, Undo, NextUndo
    <3>2. ASSUME Write PROVE Inside \/ pc' = "diff"
      BY <1>3, <3>2, SMT DEF Inside, InFlight, Write, Undo
    <3>3. ASSUME RemoveDirectories PROVE Inside \/ pc' = "done"
      BY <1>3, <3>3, SMT DEF Inside, InFlight, RemoveDirectories, Finish
    <3> QED BY <1>3, <3>1, <3>2, <3>3, Zenon DEF Next
  <2> QED BY <1>3, <2>1, TakeLockMaps, ValidateMaps, CancelledMaps, DiffMaps, RecoverMaps, CrashMaps,
             CommitMaps, RestoredMaps, Zenon
<1>4. CASE UNCHANGED vars
  <2>1. UNCHANGED <<pc, changes, i, attempted, disk, dirs, created, recovery, outcome, touched, stuck>>
    BY <1>4 DEF vars, service, history
  <2>2. UNCHANGED <<Stage, Litter>>
    BY <2>1 DEF Stage, Litter
  <2>3. UNCHANGED Undone
    <3>1. \A k : Target(k)' = Target(k) /\ Target(i)' = Target(i)
      BY <2>1 DEF Target
    <3>2. ASSUME NEW f \in Files PROVE Pending(f)' <=> Pending(f)
      BY <2>1, <3>1, Zenon DEF Pending
    <3>3. \A f \in Files : Undone'[f] = Undone[f]
      BY <2>1, <3>2, SeenStep, SameShown, Zenon DEF RInv, IInv
    <3> QED BY <3>3 DEF Undone
  <2> QED BY <2>1, <2>2, <2>3, Zenon DEF Shown
<1> QED BY <1>1, <1>2, <1>3, <1>4

\* A transaction starts as one that waits.
LEMMA InitMaps == Init => Contract!Init
<1> SUFFICES ASSUME Init PROVE Contract!Init
  OBVIOUS
<1>1. Seen
  BY InitInv, SeenUndone DEF IInv
<1>2. Stage = "waiting" /\ Litter = {}
  BY StagedAll, SMT DEF Init, Staged, InFlight
<1> QED BY <1>1, <1>2, Zenon DEF Init, Contract!Init, Contract!Content, Content, Seen

\* All or nothing, for patches of any length and over any files: the transaction of
\* patch_service.py implements PatchContract, whatever fails in it or in its rollback,
\* whatever other writers do, and wherever the process crashes.
THEOREM ImplementsTheContract == Spec => ImplementsContract
<1>1. Spec => []RInv
  BY InitRInv, StepRInv, PTL DEF Spec
<1> QED BY <1>1, InitMaps, StepMaps, PTL DEF Spec, ImplementsContract, Contract!Spec, Shown
================================================================================
