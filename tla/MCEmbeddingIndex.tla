--------------------------- MODULE MCEmbeddingIndex ---------------------------
(* EmbeddingIndex for TLC: two repositories, a build of the first, one of  *)
(* either, and a search.  The texts are in one order, or in the other with *)
(* one of them repeated.                                                   *)
EXTENDS EmbeddingIndex

CONSTANTS t1, t2, a, b, b1, b2, s1

MCTexts == {t1, t2}
MCRepositories == {a, b}
MCBuilds == {b1, b2}
MCSearches == {s1}

Input(r, texts) == [repo |-> r, texts |-> texts]

MCInputs ==
  [c \in {b1, b2, s1} |->
     CASE c = b1 -> {Input(a, <<t2, t1, t2>>)}
       [] c = b2 -> {Input(a, <<t1, t2>>), Input(b, <<t1, t2>>), Input(a, <<t2, t1, t2>>)}
       [] c = s1 -> {Input(a, <<t2>>)}]
==============================================================================
