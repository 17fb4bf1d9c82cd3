---------------------------- MODULE SourceFacts ----------------------------
(***************************************************************************)
(* What the two parsers take from a source file.  A source is a language   *)
(* and its syntax tree, numbered in the order of the text: each node has   *)
(* its number's place under `up` (0 is the file itself) and one of the     *)
(* kinds                                                                   *)
(*   class   [name, bases, own]     a Python class, any Java type          *)
(*   def     [name, own]            a Python def, a Java method            *)
(*   block   []                     if, try, with; a Java initialiser      *)
(*   call    [on, name, dynamic]    on.name(...), or name(...) with None   *)
(*   import  [module, as]           the module's last component            *)
(* where `own` is the node's own cyclomatic complexity.  A node begins on  *)
(* its `line`, several perhaps on one; of the `length` lines some are      *)
(* `blank`, white space only, and of these some `empty`.                   *)
(***************************************************************************)
EXTENDS Integers, FiniteSets, SequencesExt

CONSTANT None

Nodes(t) == DOMAIN t.nodes

(* A syntax tree: a node stands in a definition or a block before it.      *)
IsSource(t) ==
  /\ t.language \in {"python", "java"}
  /\ Len(t.nodes) \in Nat /\ Nodes(t) = 1 .. Len(t.nodes)
  /\ \A n \in Nodes(t) :
       /\ t.nodes[n].kind \in {"class", "def", "block", "call", "import"}
       /\ t.nodes[n].up \in 0 .. n - 1
       /\ t.nodes[n].up # 0 => t.nodes[t.nodes[n].up].kind \in {"class", "def", "block"}
  /\ t.length \in Nat /\ t.empty \subseteq t.blank
  /\ \A n \in Nodes(t) :
       /\ t.nodes[n].line \in (1 .. t.length) \ t.blank
       /\ \A m \in 1 .. n : t.nodes[m].line <= t.nodes[n].line

OfKind(t, kinds) == {n \in Nodes(t) : t.nodes[n].kind \in kinds}
Defs(t) == OfKind(t, {"def", "class"})

Above(t, n) ==
  LET chain[m \in 0 .. Len(t.nodes)] ==
        IF m = 0 THEN {} ELSE {m} \union chain[t.nodes[m].up]
  IN chain[t.nodes[n].up]

(* The definition a node is written in, 0 outside any.                     *)
Enclosing(t, n) == Max((Above(t, n) \intersect Defs(t)) \union {0})

(* _iter_entities looks only into the bodies of definitions, _iter_members *)
(* only into those of types.                                               *)
Entities(t) ==
  LET path == IF t.language = "python" THEN Defs(t) ELSE OfKind(t, {"class"})
  IN {n \in Defs(t) : Above(t, n) \subseteq path}

Qualified(t, n) ==
  LET name[m \in 0 .. Len(t.nodes)] ==
        IF m = 0 THEN <<>> ELSE Append(name[t.nodes[m].up], t.nodes[m].name)
  IN name[n]

LocalNames(t) == {t.nodes[n].name : n \in Entities(t)}

(* Fault: the walk goes on into the definitions nested in this one.        *)
OwnCallsNested(t, n) ==
  {c \in OfKind(t, {"call"}) : n \in Above(t, c) \union {0}}

(* _collect_calls stops at a nested definition, so that what is called in  *)
(* one no entity stands for is called by nobody; a Java method has every   *)
(* invocation of its body, the local classes' too, and neither a type nor  *)
(* the file has any.                                                       *)
OwnCalls(t, n) ==
  {c \in OfKind(t, {"call"}) :
     IF t.language = "python" THEN Enclosing(t, c) = n
     ELSE n \in OfKind(t, {"def"}) /\ n \in Above(t, c)}

Resolved(t, c) == ~t.nodes[c].dynamic /\ t.nodes[c].name \in LocalNames(t)

Imports(t) ==
  {i \in OfKind(t, {"import"}) : Enclosing(t, i) \in Entities(t) \union {0}}

(* radon's blocks: the functions and classes outside any definition, and   *)
(* the methods of those classes; a later block takes the place of one with *)
(* the same class and name, and classes come after functions.              *)
RadonBlock(t, class, name) ==
  LET blocks == {d \in Defs(t) :
        /\ t.nodes[d].name = name
        /\ LET c == Enclosing(t, d) IN
           IF class = <<>> THEN c = 0
           ELSE /\ t.nodes[d].kind = "def" /\ c # 0 /\ t.nodes[c].kind = "class"
                /\ Enclosing(t, c) = 0 /\ <<t.nodes[c].name>> = class}
      classes == {d \in blocks : t.nodes[d].kind = "class"}
  IN IF blocks = {} THEN 0 ELSE Max(IF classes # {} THEN classes ELSE blocks)

(* Python: the block of the entity's parent and name, else the one of that *)
(* name outside classes, else 1.  Java: counted, a type's being the worst  *)
(* of its methods.                                                         *)
Complexity(t, n) ==
  LET own(m) == t.nodes[m].own
      name == t.nodes[n].name
      mine == RadonBlock(t, Front(Qualified(t, n)), name)
      other == RadonBlock(t, <<>>, name)
  IN IF t.language = "python"
     THEN IF mine # 0 THEN own(mine) ELSE IF other # 0 THEN own(other) ELSE 1
     ELSE IF t.nodes[n].kind = "def" THEN own(n)
     ELSE Max({own(m) : m \in {d \in Entities(t) \intersect OfKind(t, {"def"}) :
                  Front(Qualified(t, d)) = Qualified(t, n)}} \union {1})

(* The order of the entities in the parsed file: Java's types come first.  *)
Before(t, a, b) ==
  IF t.language = "java" /\ t.nodes[a].kind # t.nodes[b].kind
  THEN t.nodes[a].kind = "class" ELSE a < b
=============================================================================
