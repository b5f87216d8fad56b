---------------------------- MODULE MCPatchService -----------------------------
(* Two files, one of them in a directory that may be missing, and every patch   *)
(* of one or two changes over two contents.                                     *)
EXTENDS PatchService, TLC

CONSTANTS f1, f2, dir, ca, cb, cx

MCDirOf == (f1 :> NoDir) @@ (f2 :> dir)
Ours2 == {ca, cb, Absent}
Changes == {c \in [file : {f1, f2}, old : Ours2, new : Ours2] : c.old # c.new}
MCPatches == {<<c>> : c \in Changes} \cup (Changes \X Changes)
================================================================================
