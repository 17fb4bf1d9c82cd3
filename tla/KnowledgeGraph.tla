--------------------------- MODULE KnowledgeGraph ---------------------------
(***************************************************************************)
(* From parsed files to the rows of the database (analysis.py), to the     *)
(* graph (graph.py), and to what is told of a change to one entity         *)
(* (impact.py) and of the whole repository (summary.py).  A repository is  *)
(* a sequence of sources in the order of their paths, each with its stem;  *)
(* the row of a definition is <<file, node>>, and a node of the graph is   *)
(* <<file, qualified name>>, of which the file itself has the empty one.   *)
(***************************************************************************)
EXTENDS SourceFacts

CONSTANTS HighRiskTopN,  \* HIGH_RISK_TOP_N
          IssueLimit     \* the 10 of detect_architectural_issues

(* ---- _store_file: tables keyed by names keep one of several namesakes:  *)
(* entity_ids the last row of a qualified name, name_to_id the first       *)
(* qualified name that ends in a name.                                     *)
LastOf(t, ns) == CHOOSE n \in ns : \A m \in ns : m = n \/ Before(t, m, n)
FirstOf(t, ns) == CHOOSE n \in ns : \A m \in ns : m = n \/ Before(t, n, m)

EntityId(t, q) ==
  LET ns == {n \in Entities(t) : Qualified(t, n) = q} IN
  IF ns = {} THEN 0 ELSE LastOf(t, ns)

(* Fault: any definition of that name is taken for an entity.              *)
NameToIdOfAny(t, x) ==
  LET ns == {n \in Defs(t) : t.nodes[n].name = x} IN
  IF ns = {} THEN 0 ELSE FirstOf(t, ns)

NameToId(t, x) ==
  LET ns == {n \in Entities(t) : t.nodes[n].name = x} IN
  IF ns = {} THEN 0 ELSE EntityId(t, Qualified(t, FirstOf(t, ns)))

Row(f, n) == IF n = 0 THEN None ELSE <<f, n>>

EntityRow(t, f, n) ==
  LET q == Qualified(t, n)
      parent == EntityId(t, Front(q))
  IN [name |-> t.nodes[n].name, qualified |-> q, kind |-> t.nodes[n].kind,
      complexity |-> Complexity(t, n),
      parent |-> IF EntityId(t, q) = n THEN Row(f, parent) ELSE None]

CallRows(t, f) ==
  LET row(n, c) ==
        [site |-> <<f, c>>, line |-> t.nodes[c].line, on |-> t.nodes[c].on,
         name |-> t.nodes[c].name, dynamic |-> t.nodes[c].dynamic,
         caller |-> IF n = 0 THEN None ELSE Row(f, EntityId(t, Qualified(t, n))),
         callee |-> IF Resolved(t, c) THEN Row(f, NameToId(t, t.nodes[c].name)) ELSE None]
  IN UNION {{row(n, c) : c \in OwnCalls(t, n)} : n \in Entities(t) \union {0}}

BaseRows(t, f) ==
  LET row(n, b) == [entity |-> Row(f, EntityId(t, Qualified(t, n))), name |-> b,
                    parent |-> Row(f, NameToId(t, b))]
  IN UNION {{row(n, b) : b \in t.nodes[n].bases} :
              n \in Entities(t) \intersect OfKind(t, {"class"})}

StoreParseResults(repo) ==
  LET F == DOMAIN repo
      ids == UNION {{<<f, n>> : n \in Entities(repo[f])} : f \in F}
  IN [stem     |-> [f \in F |-> repo[f].stem],
      entities |-> [e \in ids |-> EntityRow(repo[e[1]], e[1], e[2])],
      calls    |-> UNION {CallRows(repo[f], f) : f \in F},
      imports  |-> UNION {{[file |-> f, at |-> i, module |-> repo[f].nodes[i].module,
                            as |-> repo[f].nodes[i].as] : i \in Imports(repo[f])} : f \in F},
      bases    |-> UNION {BaseRows(repo[f], f) : f \in F}]

(* ---- _load: nothing orders the rows.  The files come in any order; the  *)
(* entities as inserted, or with those whose parent was filled in later    *)
(* after the others.                                                       *)
Sorted(S, lt(_, _)) ==
  [i \in 1 .. Cardinality(S) |->
     CHOOSE e \in S : Cardinality({d \in S : lt(d, e)}) = i - 1]

Rank(repo, e) ==
  <<e[1], IF repo[e[1]].language = "java" /\ repo[e[1]].nodes[e[2]].kind = "def" THEN 1 ELSE 0,
    e[2]>>

Orders(repo, rows) ==
  LET below(r, s) == \E i \in DOMAIN r : r[i] < s[i] /\ \A j \in 1 .. i - 1 : r[j] = s[j]
      ids == DOMAIN rows.entities
      moved == {e \in ids : rows.entities[e].parent # None}
      sorted(S) == Sorted(S, LAMBDA a, b : below(Rank(repo, a), Rank(repo, b)))
  IN [files : SetToSeqs(DOMAIN repo),
      entities : {sorted(ids), sorted(ids \ moved) \o sorted(moved),
                  sorted(ids \ moved) \o Reverse(sorted(moved))}]

Found(seq, i) == IF i = 0 THEN None ELSE seq[i]

(* _import_target: the first file with that stem.                          *)
ImportTarget(rows, order, stem) ==
  Found(order.files, SelectInSeq(order.files, LAMBDA f : rows.stem[f] = stem))

FindInFile(rows, order, f, x) ==
  IF f = None THEN None
  ELSE Found(order.entities,
             SelectInSeq(order.entities,
                         LAMBDA e : e[1] = f /\ rows.entities[e].name = x))

ResolveByName(rows, x) ==
  LET es == {e \in DOMAIN rows.entities : rows.entities[e].name = x} IN
  IF Cardinality(es) = 1 THEN CHOOSE e \in es : TRUE ELSE None

FirstFound(seq) == Found(seq, SelectInSeq(seq, LAMBDA x : x # None))

(* The import that binds the called name.                                  *)
ViaImport(rows, order, f, x) ==
  LET bound == {i \in rows.imports : i.file = f /\ i.as = x}
      seq == Sorted(bound, LAMBDA a, b : a.at < b.at)
  IN FirstFound([i \in DOMAIN seq |->
       FindInFile(rows, order, ImportTarget(rows, order, seq[i].module), x)])

(* Fault: the head of a dotted name is not looked at.                      *)
ResolveHeadless(rows, order, f, call) ==
  FirstFound(<<FindInFile(rows, order, f, call.name), ViaImport(rows, order, f, call.name),
               ResolveByName(rows, call.name)>>)

(* Fault: any entity of that name will do.                                 *)
ResolveAny(rows, order, f, call) ==
  FirstFound(<<FindInFile(rows, order, f, call.name)>>
             \o SelectSeq(order.entities, LAMBDA e : rows.entities[e].name = call.name))

(* _resolve: the caller's own file, the module a dotted name begins with,  *)
(* the imports that bind the name, then any entity alone with that name.   *)
Resolve(rows, order, f, call) ==
  FirstFound(<<FindInFile(rows, order, f, call.name),
               IF call.on = None THEN None
               ELSE FindInFile(rows, order, ImportTarget(rows, order, call.on), call.name),
               ViaImport(rows, order, f, call.name),
               ResolveByName(rows, call.name)>>)

(* ---- build_graph ------------------------------------------------------- *)
NodeId(rows, e) == <<e[1], rows.entities[e].qualified>>
Module(f) == <<f, <<>>>>

(* A call at the file's own level has no caller and gives no edge, nor has *)
(* a dynamic one, or one an entity makes to itself.                        *)
CallEdges(rows, order) ==
  LET target(c) == IF c.callee # None THEN c.callee
                   ELSE Resolve(rows, order, c.caller[1], c)
  IN {[kind |-> "call", source |-> NodeId(rows, c.caller), site |-> c.site,
       target |-> NodeId(rows, target(c))] :
        c \in {d \in rows.calls :
                 /\ ~d.dynamic /\ d.caller # None /\ target(d) # None
                 /\ NodeId(rows, d.caller) # NodeId(rows, target(d))}}

(* Fault: an entity without a parent row is in nothing.                    *)
ContainsEdgesOfParents(rows) ==
  {[kind |-> "contains", target |-> NodeId(rows, e),
    source |-> NodeId(rows, rows.entities[e].parent)] :
     e \in {d \in DOMAIN rows.entities : rows.entities[d].parent # None}}

ContainsEdges(rows) ==
  {[kind |-> "contains", target |-> NodeId(rows, e),
    source |-> IF rows.entities[e].parent # None
               THEN NodeId(rows, rows.entities[e].parent) ELSE Module(e[1])] :
     e \in DOMAIN rows.entities}

ImportEdges(rows, order) ==
  {[kind |-> "imports", source |-> Module(i.file),
    target |-> Module(ImportTarget(rows, order, i.module))] :
     i \in {j \in rows.imports : ImportTarget(rows, order, j.module) \notin {None, j.file}}}

InheritsEdges(rows) ==
  LET parent(b) == IF b.parent # None THEN b.parent ELSE ResolveByName(rows, b.name) IN
  {[kind |-> "inherits", source |-> NodeId(rows, b.entity),
    target |-> NodeId(rows, parent(b))] : b \in {c \in rows.bases : parent(c) # None}}

(* _risk_scores: the complexity is that of the node's last row.            *)
RiskScores(rows, order, calls) ==
  LET degree(v) == Cardinality({c \in calls : c.target = v})
                   + Cardinality({c \in calls : c.source = v})
      last(v) == order.entities[SelectLastInSeq(order.entities,
                                  LAMBDA e : NodeId(rows, e) = v)]
      linked == {c.target : c \in calls} \union {c.source : c \in calls}
  IN [v \in linked |-> rows.entities[last(v)].complexity * (degree(v) + 1)]

(* Equal scores come in the order of the node ids: here, of the files and  *)
(* then of the text.                                                       *)
Best(rows, scores, k) ==
  LET at(v) == Max({e[2] : e \in {d \in DOMAIN rows.entities : NodeId(rows, d) = v}})
      first(w, v) == w[1] < v[1] \/ (w[1] = v[1] /\ at(w) < at(v))
      ahead(w, v) == scores[w] > scores[v] \/ (scores[w] = scores[v] /\ first(w, v))
  IN {v \in DOMAIN scores : Cardinality({w \in DOMAIN scores : ahead(w, v)}) < k}

(* Fault: only calls make a module depend on another.                      *)
DependenciesByCall(edges) ==
  {p \in {<<e.source[1], e.target[1]>> : e \in {d \in edges : d.kind = "call"}} : p[1] # p[2]}

Dependencies(edges) ==
  {p \in {<<e.source[1], e.target[1]>> : e \in {d \in edges : d.kind \in {"call", "imports"}}} :
     p[1] # p[2]}

(* _module_cycles: the simple cycles, one for each set of modules.         *)
ModuleCycles(deps) ==
  LET fs == {p[1] : p \in deps} IN
  {C \in SUBSET fs : /\ Cardinality(C) >= 2
                     /\ \E s \in SetToSeqs(C) : \A i \in DOMAIN s :
                          <<s[i], s[(i % Len(s)) + 1]>> \in deps}

BuildGraph(rows, order) ==
  LET calls == CallEdges(rows, order)
      edges == calls \union ContainsEdges(rows) \union ImportEdges(rows, order)
               \union InheritsEdges(rows)
      scores == RiskScores(rows, order, calls)
  IN [nodes |-> {Module(f) : f \in DOMAIN rows.stem}
                \union {NodeId(rows, e) : e \in DOMAIN rows.entities},
      edges |-> edges, risk |-> scores,
      cycles |-> ModuleCycles(Dependencies(edges)),
      highRisk |-> Best(rows, scores, HighRiskTopN)]

(* ---- calculate_impact: every call of the entity's row or of its name.   *)
(* A call at file level is filed under the entity itself, and calls that   *)
(* callers of one name make on one line of one file are listed as one.     *)

(* Fault: a dotted name is no call of the entity.                          *)
CallersByExactName(rows, e) ==
  {c \in rows.calls :
     \/ c.callee = e
     \/ ~c.dynamic /\ c.on = None /\ c.name = rows.entities[e].name}

CallersOf(rows, e) ==
  {c \in rows.calls : \/ c.callee = e
                      \/ ~c.dynamic /\ c.name = rows.entities[e].name}

CalculateImpact(rows, e) ==
  LET by(c) == IF c.caller = None THEN e ELSE c.caller
      shown == {[name |-> rows.entities[by(c)].name, file |-> by(c)[1], line |-> c.line] :
                  c \in CallersOf(rows, e)}
      count == Cardinality(shown)
      modules == {c.file : c \in shown}
      complexity == rows.entities[e].complexity
  IN [callers |-> shown,
      callees |-> {[on |-> c.on, name |-> c.name,
                    file |-> IF c.callee = None THEN e[1] ELSE c.callee[1]] :
                     c \in {d \in rows.calls : d.caller = e}},
      level |-> IF \/ count >= 3
                   \/ Cardinality(modules) >= 2
                   \/ count >= 1 /\ complexity >= 10 THEN "HIGH"
                ELSE IF count >= 1 \/ complexity >= 5 THEN "MEDIUM" ELSE "LOW"]

(* ---- detect_architectural_issues: cycles first, then complex entities   *)
(* while the list is short; what it reads as globals_used is stored under  *)
(* another key, so that there is no third kind.                            *)
Issues(rows, order, graph) ==
  LET cycles == {[kind |-> "circular_dependency", of |-> C] : C \in graph.cycles}
      complex == {i \in DOMAIN order.entities : rows.entities[order.entities[i]].complexity >= 8}
      room == Max({1, IssueLimit - Cardinality(cycles)})
  IN cycles \union {[kind |-> "coupling", of |-> {order.entities[i]}] :
                      i \in {j \in complex : Cardinality({k \in complex : k <= j}) <= room}}

(* ---- get_high_risk_entities: the graph's high-risk nodes, with the      *)
(* calls that reach them (an interface, enum or record among them is       *)
(* dropped; the types here are classes).                                   *)

(* Fault: every edge counts as a caller.                                   *)
HighRiskByEdges(graph) ==
  {[node |-> v, callers |-> Cardinality({d \in graph.edges : d.target = v})] :
     v \in graph.highRisk}

HighRiskEntities(graph) ==
  {[node |-> v, callers |-> Cardinality({d \in graph.edges : d.kind = "call" /\ d.target = v})] :
     v \in graph.highRisk}

GenerateSummary(rows, order) ==
  LET graph == BuildGraph(rows, order) IN
  [issues |-> Issues(rows, order, graph), highRisk |-> HighRiskEntities(graph)]
=============================================================================
