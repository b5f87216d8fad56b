-------------------------- MODULE MCRepositoryIndex --------------------------
(* Small instances of RepositoryIndex. *)
EXTENDS RepositoryIndex, TLC

MCFiles == 1..2
\* Two texts that share a chunk when they are cut into single lines.
MCTexts == {<<"a">>, <<"a", "b">>}
\* A tree in which everything can be read; the edit makes the others.
MCTrees == [MCFiles -> [kind : {"text"}, text : MCTexts]]
MCSettings ==
  {[embeddings |-> TRUE, key |-> "small", size |-> 2],
   [embeddings |-> TRUE, key |-> "large", size |-> 1],
   [embeddings |-> FALSE, key |-> "small", size |-> 1]}
===============================================================================
