---------------------------- MODULE MCKnowledge ----------------------------
EXTENDS Knowledge

Def(up, name, own) == [kind |-> "def", up |-> up, name |-> name, own |-> own]
Class(up, name, bases, own) ==
  [kind |-> "class", up |-> up, name |-> name, bases |-> bases, own |-> own]
Block(up) == [kind |-> "block", up |-> up]
Call(up, on, name) ==
  [kind |-> "call", up |-> up, on |-> on, name |-> name, dynamic |-> FALSE]
Import(up, module, as) == [kind |-> "import", up |-> up, module |-> module, as |-> as]

(* Python: plain functions; namesakes; methods of two classes, one of them *)
(* named as its class; a definition under an if; nested ones; dynamic      *)
(* calls.  Each calls f, bare or through the other file's module.          *)
Python(m) ==
  {<<Import(0, m, None), Def(0, "f", 1), Def(0, "g", 8), Call(3, m, "f"), Call(3, None, "f")>>,
   <<Import(0, m, "f"), Def(0, "g", 10), Call(2, None, "f"), Call(0, None, "g")>>,
   <<Def(0, "g", 1), Call(1, m, "f"), Import(1, m, None), Call(1, None, "g")>>,
   <<Def(0, "f", 1), Call(1, None, "h"), Def(0, "f", 5), Call(3, None, "h"), Def(0, "h", 1)>>,
   <<Class(0, "A", {}, 2), Def(1, "f", 1), Call(2, m, "g"),
     Class(0, "B", {"A"}, 8), Def(4, "f", 5), Call(5, "self", "A")>>,
   <<Class(0, "A", {}, 1), Class(1, "A", {}, 1), Def(2, "f", 1), Call(1, None, "f")>>,
   <<Block(0), Def(1, "f", 1), Call(2, None, "g"), Def(0, "g", 1), Call(1, None, "f"),
     Def(0, "f", 1)>>,
   <<Def(0, "g", 1), Def(1, "f", 1), Call(2, None, "g"), Block(1), Def(4, "h", 1),
     Call(5, m, "g"), [Call(1, None, "f") EXCEPT !.dynamic = TRUE]>>}

(* Java: overloads, a constructor, a nested type, a local class and a call *)
(* in an initialiser.                                                      *)
Java(m) ==
  {<<Import(0, m, None), Class(0, "A", {}, 1), Def(2, "f", 1), Call(3, None, "g"),
     Def(2, "f", 10), Call(5, m, "f"), Def(2, "g", 1)>>,
   <<Class(0, "A", {}, 1), Def(1, "A", 1), Block(1), Call(3, m, "f"), Class(1, "B", {"A"}, 1),
     Def(5, "g", 1), Call(6, m, "g")>>,
   <<Class(0, "C", {"A"}, 1), Def(1, "f", 5), Class(2, "L", {}, 1), Def(3, "h", 1),
     Call(4, "A", "g")>>}

(* A text whose nodes stand on the given lines; its second line is empty   *)
(* and its last one white space.                                           *)
Lines(language, stem, nodes, line) ==
  [language |-> language, stem |-> stem, empty |-> {2}, length |-> Len(nodes) + 3,
   blank |-> {2, Len(nodes) + 3},
   nodes |-> [n \in DOMAIN nodes |-> nodes[n] @@ [line |-> line[n]]]]

(* A node a line, but for the empty one.                                   *)
Source(language, stem, nodes) ==
  Lines(language, stem, nodes, [n \in DOMAIN nodes |-> IF n = 1 THEN 1 ELSE n + 1])
Twice ==
  <<Source("python", "x", <<Def(0, "f", 1)>>),
    Lines("python", "y", <<Def(0, "g", 1), Call(1, "x", "f"), Call(1, "x", "f")>>, <<1, 3, 3>>)>>

(* Two files of one language, with two stems or one; three that import     *)
(* each other in a ring or in two.                                         *)
Ring(a, b, c) ==
  <<Source("python", "x", <<Import(0, a, None), Def(0, "f", 8)>>),
    Source("python", "y", <<Import(0, b, None), Def(0, "g", 10), Call(2, "x", "f")>>),
    Source("python", "z", <<Import(0, c, None), Def(0, "h", 1), Call(2, None, "g")>>)>>

(* Two entities of one name, in files the caller has nothing to do with.   *)
Namesakes ==
  <<Source("python", "x", <<Class(0, "A", {}, 1), Def(1, "f", 1)>>),
    Source("python", "y", <<Def(0, "f", 1)>>),
    Source("python", "z", <<Def(0, "g", 1), Call(1, "o", "f")>>)>>

MCRepositories ==
  {<<Source("python", "x", s), Source("python", y, t)>> :
     s \in Python("y"), t \in Python("x"), y \in {"x", "y"}}
  \union {<<Source("java", "A", s), Source("java", "C", t)>> : s \in Java("C"), t \in Java("A")}
  \union {Ring(a, b, c) : a \in {"y", "z"}, b \in {"x", "z"}, c \in {"x", "y"}}
  \union {Namesakes, Twice}

Cite(file, start, end) == [file |-> file, start |-> start, end |-> end]

(* 0 is a file that was not analysed, 9 one that does not exist.  Cited    *)
(* are an empty line, lines past the end, in the wrong order, and none.    *)
MCReplies ==
  {[usable |-> FALSE, fields |-> {}, evidence |-> <<>>]}
  \union {[usable |-> TRUE, fields |-> {"purpose"}, evidence |-> e] : e \in
    {<<>>, <<Cite(None, 0, None), Cite(9, 1, 1)>>, <<Cite(0, 1, 1), Cite(1, 11, 12)>>,
     <<Cite(1, 2, 2), Cite(1, 2, 3), Cite(Outside, 1, 1)>>,
     <<Cite(1, 2, 1), Cite(1, -1, 1)>>, <<Cite(2, 1, 1), Cite(1, 1, NaN)>>}}
=============================================================================
