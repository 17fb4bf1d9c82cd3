----------------------------- MODULE Knowledge -----------------------------
(***************************************************************************)
(* What is known of one repository and what is answered from it: its files *)
(* are parsed, in any order, and stored; then the graph, the impact of a   *)
(* change, the summary and the explanation of an entity are asked for,     *)
(* while the repository may be deleted and its files lost with the disk.   *)
(* The stages of the analysis and its failures are the pipeline's          *)
(* (AnalysisPipeline); here the data is followed.                          *)
(***************************************************************************)
EXTENDS KnowledgeGraph

CONSTANTS Repositories,  \* sequences of sources, in the order of their paths
          Replies,       \* what the model may write of an entity
          NaN,           \* a line number that is none
          Outside        \* a path that leads out of the work directory

(* Files in the order of their paths, each with a stem.                    *)
ASSUME RepositoriesAssumption ==
  \A r \in Repositories :
    /\ Len(r) \in Nat /\ DOMAIN r = 1 .. Len(r)
    /\ \A f \in DOMAIN r : IsSource(r[f]) /\ r[f].stem # None

(* A reply's evidence is a list; a line it gives is a number or is not.    *)
ASSUME RepliesAssumption ==
  \A reply \in Replies :
    /\ reply.evidence \in Seq(ToSet(reply.evidence))
    /\ \A i \in DOMAIN reply.evidence :
         {reply.evidence[i].start, reply.evidence[i].end} \subseteq Int \union {None, NaN}

ASSUME NoneAssumption == None \notin (Nat \X Nat) \union Nat /\ Outside \notin Nat

VARIABLES repo,
          parsed,   \* the files whose parse is done
          rows,     \* what store_parse_results wrote, None before
          stored,   \* whether they are there: "present", or "gone" once deleted
          disk,     \* whether the repository's directory is
          asked,    \* the explanation under way: of which entity, and whether
                    \* its source was read
          answer    \* the last answer given

vars == <<repo, parsed, rows, stored, disk, asked, answer>>

Init ==
  /\ repo \in Repositories
  /\ parsed = {} /\ rows = None /\ asked = None /\ answer = None
  /\ stored = "present" /\ disk = TRUE

(* ---- the analysis ------------------------------------------------------ *)
ParseFile(f) ==
  /\ rows = None /\ f \notin parsed
  /\ parsed' = parsed \union {f}
  /\ UNCHANGED <<repo, rows, stored, disk, asked, answer>>

StoreFacts ==
  /\ rows = None /\ parsed = DOMAIN repo
  /\ rows' = StoreParseResults(repo)
  /\ UNCHANGED <<repo, parsed, stored, disk, asked, answer>>

Answerable == rows # None /\ stored = "present" /\ asked = None

(* ---- GET /graph, /entities/{id}/impact, /summary ------------------------ *)
AskGraph ==
  /\ Answerable
  /\ \E order \in Orders(repo, rows) :
       answer' = [kind |-> "graph", value |-> BuildGraph(rows, order)]
  /\ UNCHANGED <<repo, parsed, rows, stored, disk, asked>>

AskImpact ==
  /\ Answerable
  /\ \E e \in DOMAIN rows.entities :
       answer' = [kind |-> "impact", of |-> e, value |-> CalculateImpact(rows, e)]
  /\ UNCHANGED <<repo, parsed, rows, stored, disk, asked>>

AskSummary ==
  /\ Answerable
  /\ \E order \in Orders(repo, rows) :
       answer' = [kind |-> "summary", value |-> GenerateSummary(rows, order)]
  /\ UNCHANGED <<repo, parsed, rows, stored, disk, asked>>

(* ---- GET /entities/{id}/explanation ------------------------------------ *)
Line(e) == repo[e[1]].nodes[e[2]].line

(* A definition ends with the last node that stands in it.                 *)
EndOf(e) ==
  LET t == repo[e[1]]
  IN Max({t.nodes[m].line : m \in {k \in Nodes(t) : k = e[2] \/ e[2] \in Above(t, k)}})

(* The root of an uploaded archive, unlike a clone's, is found by listing  *)
(* its directory, which raises when it is gone; a clone's explanation goes *)
(* on without the source.                                                  *)
AskExplanation ==
  /\ Answerable
  /\ \/ /\ \E e \in DOMAIN rows.entities : asked' = [of |-> e, source |-> disk]
        /\ answer' = None
     \/ ~disk /\ answer' = [kind |-> "error"] /\ UNCHANGED asked
  /\ UNCHANGED <<repo, parsed, rows, stored, disk>>

(* The text fields the model left out are filled from the static facts; an *)
(* evidence item whose lines are no numbers raises, and then all fields    *)
(* are static while the items before it stay.                              *)
RaisesAt(reply) ==
  {i \in DOMAIN reply.evidence : NaN \in {reply.evidence[i].start, reply.evidence[i].end}}

ExplanationFields(reply) ==
  IF ~reply.usable \/ RaisesAt(reply) # {} THEN {} ELSE reply.fields

Cited(e, reply) ==
  LET item(c) == [file  |-> IF c.file = None THEN e[1] ELSE c.file,
                  start |-> IF c.start \in {None, 0} THEN Line(e) ELSE c.start,
                  end   |-> IF c.end \in {None, 0} THEN EndOf(e) ELSE c.end]
      taken == IF ~reply.usable THEN <<>>
               ELSE IF RaisesAt(reply) = {} THEN reply.evidence
               ELSE SubSeq(reply.evidence, 1, Min(RaisesAt(reply)) - 1)
  IN [i \in DOMAIN taken |-> item(taken[i])]

(* _extract_evidence_from_snippet: of the first six lines those that are   *)
(* not blank, one by one; none when the source could not be read.          *)
Declared(a) ==
  LET told == {l \in Line(a.of) .. EndOf(a.of) : l <= Line(a.of) + 5} \ repo[a.of[1]].blank
      lines == Sorted(told, LAMBDA k, l : k < l)
  IN IF a.source
     THEN [i \in DOMAIN lines |-> [file |-> a.of[1], start |-> lines[i], end |-> lines[i]]]
     ELSE <<>>

(* 0 is a file of the directory that was not analysed, of one line.  A     *)
(* path that leads out of the directory is looked up like any other.       *)
OnDisk(f) == f = Outside \/ (disk /\ f \in DOMAIN repo \union {0})
FileExists(f) == OnDisk(f) \/ (stored = "present" /\ f \in DOMAIN repo)

Text(f) == IF f \in DOMAIN repo THEN repo[f] ELSE [length |-> 1, empty |-> {}]

(* Something stands there, unless it is a single empty line.               *)
Readable(c) ==
  LET t == Text(c.file)
      lines == {l \in 1 .. t.length : c.start <= l /\ l <= c.end}
  IN OnDisk(c.file) /\ lines # {} /\ \A l \in t.empty : lines # {l}

(* Fault: the model's own text is preferred to the file's.                 *)
ItemAsClaimed(c) == [file |-> c.file, start |-> c.start, end |-> c.end, code |-> "claimed"]

(* The code is what stands at those lines, or the model's own when nothing *)
(* does.                                                                   *)
Item(c) ==
  [file |-> c.file, start |-> c.start, end |-> c.end,
   code |-> IF Readable(c) THEN "source" ELSE "claimed"]

(* Fault: only the files are looked at.                                    *)
ValidateByFile(items) ==
  LET kept == Sorted({i \in DOMAIN items : FileExists(items[i].file)}, LAMBDA a, b : a < b)
  IN [i \in DOMAIN kept |-> Item(items[kept[i]])]

(* validate_evidence_items                                                 *)
ValidateEvidence(items) ==
  LET kept == Sorted({i \in DOMAIN items :
                        /\ FileExists(items[i].file)
                        /\ items[i].start > 0 /\ items[i].start <= items[i].end},
                     LAMBDA a, b : a < b)
  IN [i \in DOMAIN kept |-> Item(items[kept[i]])]

(* Fault: the source's own lines are cited only when no answer is usable.   *)
EvidenceOfModel(a, reply) ==
  IF reply.usable THEN Cited(a.of, reply) ELSE Declared(a)

Evidence(a, reply) ==
  IF Cited(a.of, reply) # <<>> THEN Cited(a.of, reply) ELSE Declared(a)

ReceiveExplanation ==
  /\ asked # None
  /\ \E reply \in Replies :
       answer' = [kind |-> "explanation", of |-> asked.of, model |-> reply,
                  after |-> [stored |-> stored, disk |-> disk],
                  value |-> [fields   |-> ExplanationFields(reply),
                             evidence |-> ValidateEvidence(Evidence(asked, reply))]]
  /\ asked' = None
  /\ UNCHANGED <<repo, parsed, rows, stored, disk>>

(* The validator looks for the root of the archive once more.              *)
ExplanationRaises ==
  /\ asked # None /\ ~disk
  /\ answer' = [kind |-> "error"] /\ asked' = None
  /\ UNCHANGED <<repo, parsed, rows, stored, disk>>

(* ---- DELETE: the rows are committed away, then the files go. ------------ *)
DeleteRows ==
  /\ rows # None /\ stored = "present"
  /\ stored' = "gone"
  /\ UNCHANGED <<repo, parsed, rows, disk, asked, answer>>

DeleteFiles ==
  /\ stored = "gone" /\ disk
  /\ disk' = FALSE
  /\ UNCHANGED <<repo, parsed, rows, stored, asked, answer>>

(* A restart loses a directory that is on no volume, and what was asked.   *)
LoseFiles ==
  /\ rows # None /\ disk
  /\ disk' = FALSE /\ asked' = None /\ answer' = None
  /\ UNCHANGED <<repo, parsed, rows, stored>>

Next ==
  \/ \E f \in DOMAIN repo : ParseFile(f)
  \/ StoreFacts
  \/ AskGraph
  \/ AskImpact
  \/ AskSummary
  \/ AskExplanation
  \/ ReceiveExplanation
  \/ ExplanationRaises
  \/ DeleteRows
  \/ DeleteFiles
  \/ LoseFiles

Spec == Init /\ [][Next]_vars

-----------------------------------------------------------------------------
References == DOMAIN rows.entities \union {None}

(* Every reference between rows resolves to an entity of the repository.   *)
TypeOK ==
  /\ repo \in Repositories /\ parsed \subseteq DOMAIN repo
  /\ stored \in {"present", "gone"} /\ disk \in BOOLEAN
  /\ asked = None \/ asked.of \in DOMAIN rows.entities
  /\ answer = None \/ answer.kind \in {"graph", "impact", "summary", "explanation", "error"}
  /\ rows # None =>
       /\ parsed = DOMAIN repo
       /\ \A e \in DOMAIN rows.entities : rows.entities[e].parent \in References
       /\ \A c \in rows.calls : {c.caller, c.callee} \subseteq References
       /\ \A b \in rows.bases : b.entity \in DOMAIN rows.entities /\ b.parent \in References

Answered(kind) == answer # None /\ answer.kind = kind

DistinctStems == \A f, g \in DOMAIN repo : repo[f].stem = repo[g].stem => f = g
DistinctNames ==
  \A f \in DOMAIN repo : Cardinality(Entities(repo[f])) = Cardinality(LocalNames(repo[f]))

(***************************************************************************)
(* Every call of a file is stored once, under the definition it is written *)
(* in or a namesake of it with the same qualified name; only a call inside *)
(* a definition that is no entity is left out (python_parser.py:79-151,    *)
(* java_parser.py:182-193, analysis.py:177-181).                           *)
(***************************************************************************)
CallsAreFiledUnderTheirCaller ==
  rows # None => \A f \in DOMAIN repo :
    LET t == repo[f]
        at(c) == {r \in rows.calls : r.site = <<f, c>>}
        owner(c) == Max((Above(t, c) \intersect Entities(t)) \union {0})
    IN \A c \in OfKind(t, {"call"}) :
         IF \/ t.language = "python" /\ Enclosing(t, c) # owner(c)
            \/ t.language = "java" /\ owner(c) \notin OfKind(t, {"def"})
         THEN at(c) = {}
         ELSE /\ Cardinality(at(c)) = 1
              /\ \A r \in at(c) :
                   IF owner(c) = 0 THEN r.caller = None
                   ELSE rows.entities[r.caller].qualified = Qualified(t, owner(c))

(***************************************************************************)
(* What is stored of a file is what stands in it: references resolve and   *)
(* every call is filed once, under its caller (analysis.py:133-181).       *)
(***************************************************************************)
FactsAreFiled == TypeOK /\ CallsAreFiledUnderTheirCaller

(***************************************************************************)
(* Every edge of the graph joins two of its nodes, and every node lies in  *)
(* a module: the contains edges lead down to it from one (graph.py:138-186,*)
(* analysis.py:150-156).                                                   *)
(***************************************************************************)
EveryNodeIsInAModule ==
  Answered("graph") =>
    LET g == answer.value
        inside[k \in 0 .. Cardinality(g.nodes)] ==
          IF k = 0 THEN {Module(f) : f \in DOMAIN repo}
          ELSE LET outer == inside[k - 1] IN
               outer \union {e.target : e \in {d \in g.edges :
                                d.kind = "contains" /\ d.source \in outer}}
    IN /\ \A e \in g.edges : {e.source, e.target} \subseteq g.nodes
       /\ inside[Cardinality(g.nodes)] = g.nodes

(***************************************************************************)
(* When no two files have the same stem and no two entities of a file the  *)
(* same name, the graph is a function of the stored facts, whatever order  *)
(* the database returns their rows in (graph.py:57-129; analysis.py:7-9    *)
(* says so of the order the files are parsed in).                          *)
(***************************************************************************)
GraphIsOfTheFacts ==
  Answered("graph") /\ DistinctStems /\ DistinctNames =>
    \A order \in Orders(repo, rows) : answer.value = BuildGraph(rows, order)

(***************************************************************************)
(* A call written module.name(...), of a module with that stem alone that  *)
(* has an entity of that name, is an edge to that entity unless the        *)
(* caller's own file has a namesake (graph.py:100-129).                    *)
(***************************************************************************)
QualifiedCallsFollowTheirModule ==
  Answered("graph") /\ DistinctStems => \A c \in rows.calls, g \in DOMAIN repo :
    /\ ~c.dynamic /\ c.caller # None /\ c.on = repo[g].stem /\ c.site[1] # g
    /\ c.name \notin LocalNames(repo[c.site[1]]) /\ c.name \in LocalNames(repo[g])
    => \E e \in answer.value.edges :
         e.kind = "call" /\ e.site = c.site /\ e.target[1] = g /\ Last(e.target[2]) = c.name

(***************************************************************************)
(* The graph is sound: no node or edge hangs in the air, the order of rows *)
(* does not matter where names are distinct, and a dotted call leads where *)
(* it says (graph.py:57-186).                                              *)
(***************************************************************************)
GraphIsSound ==
  EveryNodeIsInAModule /\ GraphIsOfTheFacts /\ QualifiedCallsFollowTheirModule

(***************************************************************************)
(* Modules that import one another, in however many steps, are told of as  *)
(* a circular dependency, and complex entities never crowd that out        *)
(* (graph.py:287-309, summary.py:82-131).                                  *)
(***************************************************************************)
CyclesAreReported ==
  Answered("summary") /\ DistinctStems =>
    LET direct(f) == {g \in DOMAIN repo : g # f /\ \E i \in rows.imports :
                        i.file = f /\ i.module = repo[g].stem}
        reach[k \in 1 .. Len(repo)] ==
          [f \in DOMAIN repo |-> IF k = 1 THEN direct(f)
             ELSE LET near == reach[k - 1][f] IN
                  near \union UNION {direct(g) : g \in near}]
    IN \A f \in DOMAIN repo : f \in reach[Len(repo)][f] =>
         \E i \in answer.value.issues : i.kind = "circular_dependency" /\ f \in i.of

(***************************************************************************)
(* What the graph draws as a call of an entity, in whatever order it was   *)
(* built, the impact of changing that entity lists, so that a change rated *)
(* LOW is one the graph knows no caller of (impact.py:43-97, 136-158,      *)
(* against graph.py:188-208).                                              *)
(***************************************************************************)
ImpactCoversTheGraph ==
  Answered("impact") => \A order \in Orders(repo, rows) :
    \A c \in CallEdges(rows, order) : c.target = NodeId(rows, answer.of) =>
      /\ \E d \in answer.value.callers : d.file = c.source[1] /\ d.line = Line(c.site)
      /\ answer.value.level # "LOW"

(* No two calls of an entity come from callers of one name on one line of  *)
(* one file.                                                               *)
OnLinesApart(e) ==
  \A c, d \in CallersOf(rows, e) :
    /\ c.caller # None /\ d.caller # None
    /\ c.caller[1] = d.caller[1] /\ c.line = d.line
    /\ rows.entities[c.caller].name = rows.entities[d.caller].name
    => c = d

(***************************************************************************)
(* The fan-in the summary gives a high-risk entity is never more than the  *)
(* number of callers its impact lists, except that the impact lists the    *)
(* calls of one caller on one line, as in f(a) + f(b), as one              *)
(* (summary.py:134-179 against impact.py:43-97).                           *)
(***************************************************************************)
FanInIsWithinTheImpact ==
  Answered("summary") =>
    \A h \in answer.value.highRisk, e \in DOMAIN rows.entities :
      NodeId(rows, e) = h.node /\ OnLinesApart(e) =>
        h.callers <= Cardinality(CalculateImpact(rows, e).callers)

(***************************************************************************)
(* Three ways of looking for callers agree: whatever the graph or the      *)
(* summary knows of, the impact lists (impact.py:43-158).                  *)
(***************************************************************************)
ImpactAgreesWithGraph == ImpactCoversTheGraph /\ FanInIsWithinTheImpact

(***************************************************************************)
(* Whatever the model cites, an explanation refers to lines in order, of   *)
(* files that were stored or stood somewhere on the disk when it was given,*)
(* and shows the model's own text for none on which there is code of a     *)
(* file that could be read (explanation.py:409-448).                       *)
(***************************************************************************)
CodeIsShownWhereItStands ==
  Answered("explanation") => \A i \in DOMAIN answer.value.evidence :
    LET c == answer.value.evidence[i] IN
    /\ \/ c.file = Outside
       \/ c.file \in DOMAIN repo \union {0}
          /\ (answer.after.disk \/ answer.after.stored = "present")
    /\ 1 <= c.start /\ c.start <= c.end
    /\ c.code = "claimed" /\ c.file \in DOMAIN repo /\ answer.after.disk =>
         \A n \in Nodes(repo[c.file]) : ~(c.start <= Line(<<c.file, n>>)
                                          /\ Line(<<c.file, n>>) <= c.end)

(***************************************************************************)
(* Evidence the model did not give is the source's own, line by line       *)
(* within the entity, although the file was read before the model was      *)
(* asked and is read again when it has answered (explanation.py:200-202,   *)
(* 386-391, 437).                                                          *)
(***************************************************************************)
StaticEvidenceIsTheSource ==
  Answered("explanation") /\ Cited(answer.of, answer.model) = <<>> =>
    \A i \in DOMAIN answer.value.evidence :
      LET c == answer.value.evidence[i] IN
      /\ c.file = answer.of[1] /\ c.code = "source"
      /\ Line(answer.of) <= c.start /\ c.end <= EndOf(answer.of)

(***************************************************************************)
(* An explanation made without the model's text still cites the source:    *)
(* evidence is missing only when the files are gone, deleted while the     *)
(* model was asked or lost before, or when all the model cited was thrown  *)
(* away (explanation.py:376-391).                                          *)
(***************************************************************************)
StaticExplanationsAreCited ==
  Answered("explanation") /\ answer.value.evidence = <<>> =>
    \/ ~answer.after.disk
    \/ answer.model.usable /\ answer.model.evidence # <<>>

(***************************************************************************)
(* What an explanation shows for a line of code is that line, what it      *)
(* cites by itself is the source, and it cites something unless there is   *)
(* nothing left to cite (explanation.py:376-448).                          *)
(***************************************************************************)
ExplanationsAreGrounded ==
  CodeIsShownWhereItStands /\ StaticEvidenceIsTheSource /\ StaticExplanationsAreCited
=============================================================================
