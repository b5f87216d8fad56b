----------------------------- MODULE MCUnifiedDiff -----------------------------
(* UnifiedDiff for TLC: the names of the files may be exchanged.                *)
EXTENDS UnifiedDiff, TLC

Renamings == Permutations(Paths)
================================================================================
