----------------------------- MODULE PatchContract -----------------------------
(***************************************************************************)
(* What a patch transaction promises its caller: all of its changes take   *)
(* effect at one moment or none does, and the report says which; the two   *)
(* exceptions are a rollback that could not be completed, which leaves the *)
(* originals in the recovery directory, and a crash of the process, after  *)
(* which any part of the changes may be found (the service keeps no        *)
(* journal).  Of a file that others write during the transaction it is     *)
(* only promised that it is left alone, patched or put back; of a          *)
(* directory it made for nothing, that its removal was tried.              *)
(***************************************************************************)
EXTENDS Naturals, Sequences

CONSTANTS Files, Contents, Absent

VARIABLES tree,    \* the working tree as the transaction presents it
          stage,   \* waiting, open, committed, closed or crashed
          touched, \* files written by others since it was opened
          saved,   \* files whose original is in the recovery directory
          litter,  \* directories it made, left empty and shares with nobody
          stuck,   \* those the file system has refused to remove
          report,  \* what the caller is told
          patch    \* the changes [file, old, new] that were asked for

Content == Contents \cup {Absent}

Changed(f) == {k \in DOMAIN patch : patch[k].file = f}

\* The tree now shows those changes of ks that still find what they replace.
Shows(ks) == \A f \in Files :
  LET found == {patch[k].new : k \in {k \in ks \cap Changed(f) : patch[k].old = tree[f]}}
      meant == IF found = {} THEN {tree[f]} ELSE found
      other == UNION {{patch[k].old, patch[k].new} : k \in Changed(f)}
  IN tree'[f] \in IF f \in touched THEN {tree[f]} \cup other ELSE meant

Init == /\ stage = "waiting" /\ touched = {} /\ saved = {} /\ litter = {} /\ stuck = {}
        /\ report = "none"
        /\ tree \in [Files -> Content]

Open == /\ stage = "waiting" /\ stage' = "open"
        /\ UNCHANGED <<tree, touched, saved, litter, stuck, report>>

Commit == /\ stage = "open" /\ stage' = "committed"
          /\ Shows(DOMAIN patch)
          /\ UNCHANGED <<touched, saved, litter, stuck, report>>

\* The answer after the commit may also be an error: the changes stay.
Return == /\ stage = "committed" /\ stage' = "closed"
          /\ report' \in {"applied", "error", "cancelled"}
          /\ UNCHANGED <<tree, touched, saved, stuck>>

Refuse == /\ stage \in {"waiting", "open"} /\ stage' = "closed"
          /\ report' \in {"rejected", "dry_run", "restored", "cancelled"}
          /\ Shows({})
          /\ IF report' = "restored" THEN stuck \subseteq stuck' /\ litter' \subseteq stuck'
                                     ELSE stuck' = stuck /\ litter' = {}
          /\ UNCHANGED <<touched, saved>>

\* The file system refuses to remove directories; nobody is told.
Stick == /\ stage = "open" /\ stuck \subseteq stuck'
         /\ UNCHANGED <<tree, stage, touched, saved, litter, report>>

Incomplete ==
  /\ stage = "open" /\ stage' = "closed"
  /\ \E ks \in SUBSET DOMAIN patch :
       /\ Shows(ks)
       /\ \/ report' = "incomplete" /\ \A k \in ks : patch[k].file \in saved'
          \/ report' = "unsaved" /\ saved' = {}
  /\ litter' \subseteq stuck /\ UNCHANGED <<touched, stuck>>

\* An edit of another writer may be the last thing that happened.
Crash ==
  /\ stage \in {"open", "committed"} /\ stage' = "crashed"
  /\ \E ks \in SUBSET DOMAIN patch :
       \A f \in Files \ touched : tree'[f] = tree[f] \/ \E k \in ks \cap Changed(f) : tree'[f] = patch[k].new
  /\ UNCHANGED <<touched, saved, stuck, report>>

\* Another writer changes a file.
Edit ==
  /\ stage \in {"waiting", "open", "committed"}
  /\ \E f \in Files, c \in Content :
       /\ tree' = [tree EXCEPT ![f] = c]
       /\ touched' = IF stage = "waiting" THEN touched ELSE touched \cup {f}
  /\ UNCHANGED <<stage, saved, stuck, report>>

Next == /\ Open \/ Commit \/ Return \/ Refuse \/ Stick \/ Incomplete \/ Crash \/ Edit
        /\ patch' = patch

Spec == Init /\ [][Next]_<<tree, stage, touched, saved, litter, stuck, report, patch>>
================================================================================
