---------------------------- MODULE MCIngestion ----------------------------
EXTENDS Ingestion

Tree(python, unsupported, unknown) ==
  [python |-> python, java |-> 0, unsupported |-> unsupported, unknown |-> unknown,
   ignored |-> 1, unreadable |-> 1]

MCTrees == {Tree(0, 0, 0)}

Archive(chunks, sizes) ==
  [chunks |-> chunks, zip |-> TRUE, readable |-> TRUE, tree |-> Tree(1, 1, 1),
   members |-> [i \in DOMAIN sizes |-> [size |-> sizes[i], escapes |-> FALSE]]]

(* At each limit and one past it, an archive that is none, one with a      *)
(* member that leaves the directory, one that cannot be read.              *)
MCArchives ==
  {Archive(2, <<1, 1>>), Archive(3, <<1>>), Archive(1, <<2, 1>>), Archive(1, <<0, 1, 1>>),
   [Archive(1, <<1>>) EXCEPT !.zip = FALSE],
   [Archive(1, <<1>>) EXCEPT !.readable = FALSE],
   [Archive(1, <<1, 1>>) EXCEPT !.members[2].escapes = TRUE]}
=============================================================================
