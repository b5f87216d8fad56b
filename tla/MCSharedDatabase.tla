---------------------------- MODULE MCSharedDatabase ---------------------------
(* Two indexers of one repository and one of another.                          *)
EXTENDS SharedDatabase, TLC

CONSTANTS i1, i2, i3

MCIndexers == {i1, i2, i3}
MCRepositoryOf == (i1 :> "one") @@ (i2 :> "one") @@ (i3 :> "other")
================================================================================
