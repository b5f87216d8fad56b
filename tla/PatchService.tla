------------------------------ MODULE PatchService -----------------------------
(***************************************************************************)
(* One patch transaction of patch_service.py: PatchService.execute and     *)
(* _commit, with the faults it handles (a file operation that raises, a    *)
(* cancelled caller), those it does not survive (a crash) and the other    *)
(* writers of the working tree (an editor, a test process), which no lock  *)
(* of the service keeps out.                                               *)
(*                                                                         *)
(* A content stands for the bytes of a regular file; Absent is no file; a  *)
(* foreign content is anything the patch did not put there, a symbolic     *)
(* link or a hard link included, which _target and _read refuse.  A patch  *)
(* is a sequence of changes [file, old, new]: its hunks apply to the old   *)
(* content and to no other, and give the new one (patches.py).             *)
(***************************************************************************)
EXTENDS Naturals, Sequences, FiniteSets

CONSTANTS
  Files, Contents, Absent,
  Foreign,     \* contents that only other writers produce
  Dirs,        \* directories the patch may have to create
  NoDir,       \* stands for a parent that always exists
  DirOf,       \* the parent directory of each file
  Patches,     \* the patches a caller may send
  RecoveryFails, \* may saving the originals of an incomplete rollback fail too?
  SameEdits,   \* may other writers produce what the patch itself expects or writes?
  MaxFaults,   \* bound: file operations that raise
  MaxEdits     \* bound: steps of other writers

ASSUME PatchAssumption ==
  /\ Absent \notin Contents
  /\ Foreign \subseteq Contents
  /\ NoDir \notin Dirs
  /\ DirOf \in [Files -> Dirs \cup {NoDir}]
  /\ Patches \subseteq Seq([file : Files, old : (Contents \ Foreign) \cup {Absent},
                            new : (Contents \ Foreign) \cup {Absent}])
  /\ \A p \in Patches : p # <<>>
  /\ RecoveryFails \in BOOLEAN /\ SameEdits \in BOOLEAN
  /\ MaxFaults \in Nat /\ MaxEdits \in Nat

\* A file patch names an old or a new file (FilePatch, parse_unified_diff).
ASSUME ChangeAssumption ==
  \A p \in Patches : \A k \in DOMAIN p : p[k].old # Absent \/ p[k].new # Absent

VARIABLES
  pc,         \* where execute is
  dryRun,     \* the argument dry_run
  changes,    \* the patch, and after validation the prepared changes
  i,          \* index of the change at hand
  attempted,  \* how many changes _commit has attempted (a prefix of changes)
  disk,       \* the content of every file
  dirs,       \* the directories that exist
  created,    \* created_directories
  failures,   \* changes whose rollback failed
  recovery,   \* files whose original is saved in the recovery directory
  outcome,    \* what the caller gets
  faults, edits,
  start,      \* history: disk and directories when the lock was taken
  touched,    \* history: files written by others since then
  raced,      \* history: files written by others between a check and its write
  lost,       \* history: files whose foreign content the service overwrote
  stuck       \* history: created directories whose rmdir raised

service == <<pc, dryRun, changes, i, attempted, created, failures, recovery, outcome>>
history == <<start, touched, raced, lost, stuck>>
vars == <<service, disk, dirs, faults, edits, history>>

InFlight == {"precheck", "check", "write", "undoCheck", "undoWrite", "rmdirs", "recover"}
Outcomes == {"none", "rejected", "dry_run", "applied", "restored", "incomplete",
             "error", "unsaved", "cancelled"}

Content == Contents \cup {Absent}
Target(k) == changes[k].file
Exists(d) == d = NoDir \/ d \in dirs

\* _metadata_paths, _target, _read and apply_hunks for every change, and the
\* tests that the targets are distinct files.
Distinct == \A j, k \in DOMAIN changes : j # k => Target(j) # Target(k)
Matches(k) == disk[Target(k)] = changes[k].old

Init ==
  /\ pc = "lock"
  /\ dryRun \in BOOLEAN
  /\ changes \in Patches
  /\ disk \in [Files -> Content \ Foreign]
  /\ dirs \in SUBSET Dirs
  /\ \A f \in Files : disk[f] # Absent => Exists(DirOf[f])
  /\ i = 1 /\ attempted = 0 /\ created = {} /\ failures = {} /\ recovery = {}
  /\ outcome = "none"
  /\ faults = 0 /\ edits = 0
  /\ start = [disk |-> disk, dirs |-> dirs]
  /\ touched = {} /\ raced = {} /\ lost = {} /\ stuck = {}

Finish(result) == pc' = "done" /\ outcome' = result
Stays == UNCHANGED <<disk, dirs, edits, history>>

\* A file operation raises.
Raise == faults < MaxFaults /\ faults' = faults + 1

--------------------------------------------------------------------------------
(* execute: under the repository lock, validate, then commit. *)

TakeLock ==
  /\ pc = "lock"
  /\ pc' = "validate"
  /\ UNCHANGED <<dryRun, changes, i, attempted, created, failures, recovery, outcome, faults>>
  /\ Stays

\* Read and patch one target after the other; only then compare their paths.
Validate ==
  /\ pc = "validate"
  /\ \/ /\ Matches(i) /\ i < Len(changes)
        /\ i' = i + 1 /\ UNCHANGED <<pc, outcome, faults>>
     \/ /\ Matches(i) /\ i = Len(changes) /\ Distinct
        /\ \/ dryRun /\ Finish("dry_run")
           \/ ~dryRun /\ pc' = "precheck" /\ outcome' = outcome
        /\ i' = 1 /\ faults' = faults
     \/ /\ \/ ~Matches(i) /\ faults' = faults
           \/ i = Len(changes) /\ ~Distinct /\ faults' = faults
           \/ Raise
        /\ Finish("rejected") /\ i' = i
  /\ UNCHANGED <<dryRun, changes, attempted, created, failures, recovery>> /\ Stays

\* The caller is cancelled while it waits for the lock.
CancelledWaiting ==
  /\ pc = "lock"
  /\ Finish("cancelled")
  /\ UNCHANGED <<dryRun, changes, i, attempted, created, failures, recovery, faults>> /\ Stays

\* Faulty variant: the change that raised is taken to have had no effect.
UndoPrevious ==
  /\ i' = IF attempted' = 0 THEN 0 ELSE attempted' - 1
  /\ pc' = IF attempted' <= 1 THEN "rmdirs" ELSE "undoCheck"
  /\ UNCHANGED <<dryRun, changes, failures, recovery, outcome>>

\* The except branch of _commit: undo what was attempted, last change first.
Undo ==
  /\ i' = attempted'
  /\ pc' = IF attempted' = 0 THEN "rmdirs" ELSE "undoCheck"
  /\ UNCHANGED <<dryRun, changes, failures, recovery, outcome>>

\* First pass of _commit: has any target changed since it was validated?
Precheck ==
  /\ pc = "precheck"
  /\ \/ /\ Matches(i)
        /\ i' = IF i = Len(changes) THEN 1 ELSE i + 1
        /\ pc' = IF i = Len(changes) THEN "check" ELSE "precheck"
        /\ UNCHANGED <<dryRun, changes, attempted, created, failures, recovery, outcome, faults>>
     \/ /\ \/ ~Matches(i) /\ faults' = faults
           \/ Raise
        /\ UNCHANGED <<attempted, created>>
        /\ Undo
  /\ Stays

\* Faulty variant: the second pass trusts the first.
CheckOnce ==
  /\ pc = "check"
  /\ LET d == DirOf[Target(i)] IN
     /\ dirs' = IF Exists(d) THEN dirs ELSE dirs \cup {d}
     /\ created' = IF Exists(d) THEN created ELSE created \cup {d}
     /\ attempted' = i
     /\ pc' = "write"
  /\ UNCHANGED <<dryRun, changes, i, failures, recovery, outcome, faults, disk, edits, history>>

\* Second pass: check the target again, and make its parent directories.
Check ==
  /\ pc = "check"
  /\ LET d == DirOf[Target(i)] IN
     \/ /\ Matches(i)
        /\ dirs' = IF Exists(d) THEN dirs ELSE dirs \cup {d}
        /\ created' = IF Exists(d) THEN created ELSE created \cup {d}
        /\ attempted' = i
        /\ pc' = "write"
        /\ UNCHANGED <<dryRun, changes, i, failures, recovery, outcome, faults>>
     \/ /\ \/ ~Matches(i) /\ faults' = faults
           \/ Raise
        /\ UNCHANGED <<attempted, created, dirs>>
        /\ Undo
  /\ UNCHANGED <<disk, edits, history>>

Put(f, c) ==
  /\ disk' = [disk EXCEPT ![f] = c]
  /\ lost' = IF disk[f] \in Foreign THEN lost \cup {f} ELSE lost

\* unlink, or _replace: a temporary file that takes the target's place at once.
\* It may raise before it had its effect, or be interrupted after it; without its
\* directory, or without the file to unlink, it can only raise.
Write ==
  /\ pc = "write"
  /\ LET f == Target(i)  c == changes[i].new
         possible == Exists(DirOf[f]) /\ (c = Absent => disk[f] # Absent)
     IN
     \/ /\ possible /\ Put(f, c)
        /\ pc' = IF i = Len(changes) THEN "diff" ELSE "check"
        /\ i' = i + 1
        /\ UNCHANGED <<dryRun, changes, attempted, created, failures, recovery, outcome, faults>>
     \/ /\ \/ possible /\ Raise /\ Put(f, c)
           \/ possible /\ Raise /\ UNCHANGED <<disk, lost>>
           \/ ~possible /\ UNCHANGED <<disk, lost, faults>>
        /\ UNCHANGED <<attempted, created>>
        /\ Undo
  /\ UNCHANGED <<dirs, edits, start, touched, raced, stuck>>

\* After the commit, `git diff` is awaited, still under the lock.  Its GitError is
\* reported inside a successful result; any other OSError of starting git is
\* taken for a failure of the patch; and the caller may be cancelled.
Diff ==
  /\ pc = "diff"
  /\ \/ Finish("applied") /\ faults' = faults
     \/ Finish("error") /\ Raise
     \/ Finish("cancelled") /\ faults' = faults
  /\ UNCHANGED <<dryRun, changes, i, attempted, created, failures, recovery>> /\ Stays

--------------------------------------------------------------------------------
(* _commit, the except branch. *)

NextUndo ==
  /\ i' = i - 1
  /\ pc' = IF i = 1 THEN "rmdirs" ELSE "undoCheck"

\* A target that is neither as it was nor as the patch made it is left alone.
Ours(k) == disk[Target(k)] \in {changes[k].old, changes[k].new}

UndoCheck ==
  /\ pc = "undoCheck"
  /\ \/ /\ Ours(i)
        /\ pc' = "undoWrite"
        /\ UNCHANGED <<i, failures, faults>>
     \/ /\ \/ ~Ours(i) /\ faults' = faults
           \/ Raise
        /\ failures' = failures \cup {i}
        /\ NextUndo
  /\ UNCHANGED <<dryRun, changes, attempted, created, recovery, outcome>> /\ Stays

\* Faulty variant: a file the patch created is not removed again.
UndoModifications ==
  /\ pc = "undoWrite"
  /\ IF changes[i].old # Absent THEN Put(Target(i), changes[i].old) ELSE UNCHANGED <<disk, lost>>
  /\ NextUndo
  /\ UNCHANGED <<dryRun, changes, attempted, created, recovery, outcome, dirs, edits,
                 start, touched, raced, stuck, failures, faults>>

UndoWrite ==
  /\ pc = "undoWrite"
  /\ LET f == Target(i)  c == changes[i].old
         possible == c # Absent => Exists(DirOf[f])
     IN
     \/ possible /\ Put(f, c) /\ UNCHANGED <<failures, faults>>
     \/ /\ \/ possible /\ Raise
           \/ ~possible /\ faults' = faults
        /\ failures' = failures \cup {i} /\ UNCHANGED <<disk, lost>>
  /\ NextUndo
  /\ UNCHANGED <<dryRun, changes, attempted, created, recovery, outcome, dirs, edits,
                 start, touched, raced, stuck>>

\* rmdir of the created directories.  One that is not empty stays; so does one whose
\* rmdir raises, a temporary file that _replace could not unlink being in it or for
\* another reason: the OSError is suppressed, and the report is the same.
RemoveDirectories ==
  /\ pc = "rmdirs"
  /\ LET emptied == {d \in created : \A f \in Files : DirOf[f] = d => disk[f] = Absent} IN
     /\ \/ stuck' = {} /\ faults' = faults
        \/ stuck' \in SUBSET emptied /\ Raise
     /\ dirs' = dirs \ (emptied \ stuck')
  /\ \/ failures = {} /\ Finish("restored")
     \/ failures # {} /\ pc' = "recover" /\ outcome' = outcome
  /\ UNCHANGED <<dryRun, changes, i, attempted, created, failures, recovery, disk,
                 edits, start, touched, raced, lost>>

\* Faulty variant: the change at hand when the failure came is not saved.
RecoverPrevious ==
  /\ pc = "recover"
  /\ recovery' = {Target(k) : k \in 1 .. attempted - 1}
  /\ Finish("incomplete")
  /\ UNCHANGED <<dryRun, changes, i, attempted, created, failures, faults>> /\ Stays

\* Save every original that was attempted, and the manifest.  An OSError here is
\* all the caller gets.
Recover ==
  /\ pc = "recover"
  /\ \/ /\ recovery' = {Target(k) : k \in 1 .. attempted}
        /\ Finish("incomplete") /\ faults' = faults
     \/ /\ RecoveryFails /\ recovery' = {} /\ Finish("unsaved") /\ Raise
  /\ UNCHANGED <<dryRun, changes, i, attempted, created, failures>> /\ Stays

--------------------------------------------------------------------------------
(* The environment. *)

\* Another writer replaces, creates or deletes a file (and makes its directory).
Edit ==
  /\ pc # "done" /\ pc # "crashed" /\ edits < MaxEdits
  /\ edits' = edits + 1
  /\ \E f \in Files, c \in Foreign \cup {Absent} :
       /\ c # disk[f]
       /\ SameEdits \/ \A k \in DOMAIN changes : Target(k) = f =>
                          c \notin {changes[k].old, changes[k].new}
       /\ disk' = [disk EXCEPT ![f] = c]
       /\ dirs' = IF c = Absent \/ DirOf[f] = NoDir THEN dirs ELSE dirs \cup {DirOf[f]}
       /\ touched' = IF pc = "lock" THEN touched ELSE touched \cup {f}
       /\ start' = IF pc = "lock" THEN [disk |-> disk', dirs |-> dirs'] ELSE start
       /\ raced' = IF pc \in {"write", "undoWrite"} /\ f = Target(i) THEN raced \cup {f}
                   ELSE raced
  /\ UNCHANGED <<service, faults, lost, stuck>>

Crash ==
  /\ pc \in InFlight \cup {"validate", "diff"}
  /\ pc' = "crashed"
  /\ UNCHANGED <<dryRun, changes, i, attempted, created, failures, recovery, outcome,
                 faults>> /\ Stays

Next == \/ TakeLock \/ Validate \/ CancelledWaiting \/ Precheck \/ Check \/ Write \/ Diff
        \/ UndoCheck \/ UndoWrite \/ RemoveDirectories \/ Recover
        \/ Edit \/ Crash

Spec == Init /\ [][Next]_vars

--------------------------------------------------------------------------------
(* Properties. *)

TypeOK ==
  /\ pc \in InFlight \cup {"lock", "validate", "diff", "done", "crashed"}
  /\ dryRun \in BOOLEAN
  /\ changes \in Patches
  /\ i \in 0 .. Len(changes) + 1 /\ attempted \in 0 .. Len(changes)
  /\ disk \in [Files -> Content] /\ dirs \in SUBSET Dirs
  /\ created \in SUBSET Dirs
  /\ failures \in SUBSET (1 .. Len(changes)) /\ recovery \in SUBSET Files
  /\ outcome \in Outcomes
  /\ faults \in 0 .. MaxFaults /\ edits \in 0 .. MaxEdits
  /\ touched \in SUBSET Files /\ raced \in SUBSET Files /\ lost \in SUBSET Files
  /\ stuck \in SUBSET Dirs

\* What somebody else wrote during the transaction is overwritten only if it came
\* between the check of that very file and the replacement that follows it.
OthersEditsSurvive == lost \subseteq raced

\* A transaction that reports that it did not go through, whatever failed in it or in
\* its rollback, costs nobody a file: each is as it was when the lock was taken, or as
\* another writer made it, or its original is in the recovery directory.
OriginalsRecoverable ==
  outcome \in {"rejected", "dry_run", "restored", "incomplete"} =>
    \A f \in Files : disk[f] = start.disk[f] \/ f \in touched \/ f \in recovery

\* What patches.py:8 says of a PatchError, "A rejected patch or recoverable
\* application failure": a patch that is reported failed, and has changed a file, is not
\* on disk in full.
ErrorMeansNotApplied ==
  outcome \in {"rejected", "restored", "error"} /\ disk # start.disk =>
    \E k \in DOMAIN changes : disk[Target(k)] # changes[k].new

--------------------------------------------------------------------------------
(* The transaction implements PatchContract: while it is in flight, a target it *)
(* has already changed counts as not changed yet, and what another writer does  *)
(* to a file between its check and its write counts once it has survived.       *)

Pending(f) ==
  \/ pc \in {"write", "undoWrite"} /\ f = Target(i)
  \/ pc \in InFlight /\ \E k \in 1 .. attempted : Target(k) = f /\ disk[f] = changes[k].new
Undone == [f \in Files |->
  IF Pending(f) THEN changes[CHOOSE k \in DOMAIN changes : Target(k) = f].old ELSE disk[f]]

Stage == CASE pc = "lock" -> "waiting"
           [] pc \in InFlight \cup {"validate"} -> "open"
           [] pc = "diff" -> "committed"
           [] pc = "crashed" -> "crashed"
           [] OTHER -> "closed"

\* A directory is only left behind at the end, and by nobody else.
Litter == IF pc \in InFlight THEN {}
          ELSE {d \in created \cap dirs :
                  \A f \in Files : DirOf[f] = d => disk[f] = Absent /\ f \notin touched}

Contract == INSTANCE PatchContract
              WITH tree <- Undone, stage <- Stage, saved <- recovery, litter <- Litter,
                   report <- outcome, patch <- changes

\* All or nothing, for a caller of the service and whatever fails in between: a
\* patch that is reported applied shows in every target, one that is reported
\* rejected or restored in none, and an incomplete rollback leaves the originals of
\* what it could not undo.  No directory is left behind but by a crash, or because its
\* removal was tried and refused.
ImplementsContract == Contract!Spec
================================================================================
