------------------------- MODULE CoverageRepairProofs -------------------------
(***************************************************************************)
(* Theorems of CoverageRepair, for any number of calls, any coverages,     *)
(* targets and analyses, and any budgets up to the API's ten.              *)
(*                                                                         *)
(* The invariant counts what a call has run against the iteration it is    *)
(* in, and keeps the run a call works at the last one of that call, so     *)
(* that the one it labels and completes is its own.                        *)
(***************************************************************************)
EXTENDS CoverageRepair, SequenceTheorems, FiniteSetTheorems, TLAPS

Runs == [by : Calls, coverage : Levels, passed : BOOLEAN, iteration : 1..10,
         reached : BOOLEAN, cases : BOOLEAN, linked : -1..MaxAnalyses]

States == {"idle", "running", "inserted", "matched", "saved", "answered", "failed", "dead"}

Typed ==
  /\ deleted \in BOOLEAN /\ facts \in 0..MaxAnalyses
  /\ runs \in Seq(Runs)
  /\ pc \in [Calls -> States]
  /\ read \in [Calls -> 0..MaxAnalyses]
  /\ asked \in [Repairs -> [target : Targets, budget : Budgets]]
  /\ iteration \in [Calls -> 1..10]
  /\ matched \in [Calls -> -1..MaxAnalyses]
  /\ base \in [Repairs -> Levels]
  /\ answer \in [Calls -> Runs \union {NoRun}]

(* No later run is of the same call.                                       *)
Latest(i) == \A j \in DOMAIN runs : runs[j].by = runs[i].by => j <= i

(* A call that has not begun has run nothing.                              *)
Untried ==
  \A c \in Calls : pc[c] = "idle" =>
    iteration[c] = 1 /\ \A i \in DOMAIN runs : runs[i].by # c

Placed ==
  \A c \in Calls : pc[c] \in {"inserted", "matched", "saved"} /\ ~ deleted =>
    \E i \in DOMAIN runs : runs[i].by = c /\ Latest(i)

Whole ==
  \A i \in DOMAIN runs : ~ runs[i].cases =>
    pc[runs[i].by] \in {"inserted", "matched", "failed", "dead"} /\ Latest(i)

(* The runs a call may have made in its iteration: not yet the one of it   *)
(* while it runs.                                                          *)
Allowed(c) == IF pc[c] \in {"idle", "running"} THEN iteration[c] - 1 ELSE iteration[c]

Counted ==
  \A c \in Repairs : iteration[c] <= asked[c].budget /\ Cardinality(Made(c)) <= Allowed(c)

(* The inductive invariant.                                                *)
IInv ==
  /\ Typed /\ Untried /\ Placed /\ Whole /\ Counted
  /\ LinksResolve /\ NothingSurvivesDelete /\ StopsForAReason /\ AnswerIsStored
------------------------------------------------------------------------------
(* The last run of a call is the one it takes for its own.                 *)
LEMMA OwnIsLatest ==
  ASSUME Typed, NEW c \in Calls, NEW i \in DOMAIN runs, runs[i].by = c, Latest(i)
  PROVE  Own(c) = i
<1> DEFINE P(k) == k \in DOMAIN runs /\ runs[k].by = c /\ \A j \in DOMAIN runs : runs[j].by = c => j <= k
<1>1. DOMAIN runs = 1 .. Len(runs) /\ Len(runs) \in Nat
  BY LenProperties DEF Typed
<1>2. P(i)
  BY DEF Latest
<1>3. P(Own(c))
  BY <1>2 DEF Own
<1>4. Own(c) <= i /\ i <= Own(c)
  BY <1>2, <1>3
<1> QED BY <1>1, <1>3, <1>4

(* Among the runs of a call at work there is its own.                      *)
LEMMA OwnRun ==
  ASSUME IInv, NEW c \in Calls, pc[c] \in {"inserted", "matched", "saved"}, ~ deleted
  PROVE  Own(c) \in DOMAIN runs /\ runs[Own(c)].by = c /\ Latest(Own(c)) /\ runs[Own(c)] \in Runs
<1>1. PICK i \in DOMAIN runs : runs[i].by = c /\ Latest(i)
  BY DEF IInv, Placed
<1>2. Own(c) = i
  BY <1>1, OwnIsLatest DEF IInv
<1>3. runs[i] \in Runs
  BY ElementOfSeq, LenProperties DEF IInv, Typed
<1> QED BY <1>1, <1>2, <1>3

(* Every run is a run.                                                     *)
LEMMA RunsTyped ==
  ASSUME Typed
  PROVE  /\ DOMAIN runs = 1 .. Len(runs) /\ Len(runs) \in Nat
         /\ \A i \in DOMAIN runs : runs[i] \in Runs /\ runs[i].by \in Calls
<1>1. DOMAIN runs = 1 .. Len(runs) /\ Len(runs) \in Nat
  BY LenProperties DEF Typed
<1>2. \A i \in DOMAIN runs : runs[i] \in Runs
  BY <1>1, ElementOfSeq DEF Typed
<1> QED BY <1>1, <1>2 DEF Runs

(* A call has made a finite number of runs.                                *)
LEMMA MadeFinite ==
  ASSUME Typed, NEW c
  PROVE  IsFiniteSet(Made(c)) /\ Cardinality(Made(c)) \in Nat
<1>1. IsFiniteSet(1 .. Len(runs))
  BY RunsTyped, FS_Interval
<1>2. Made(c) \subseteq 1 .. Len(runs)
  BY RunsTyped DEF Made
<1>3. IsFiniteSet(Made(c))
  BY <1>1, <1>2, FS_Subset
<1> QED BY <1>3, FS_CardinalityType

(* A budget is one the API accepts.                                        *)
LEMMA BudgetType ==
  ASSUME Typed, NEW c \in Repairs
  PROVE  /\ asked[c].budget \in 1..10 /\ c \in Calls /\ iteration[c] \in 1..10
         /\ asked[c] \in [target : Targets, budget : Budgets]
<1>1. c \in Calls
  BY DEF Calls
<1>2. asked[c] \in [target : Targets, budget : Budgets] /\ iteration[c] \in 1..10
  BY <1>1 DEF Typed
<1>3. asked[c].budget \in Budgets
  BY <1>2
<1> QED BY <1>1, <1>2, <1>3, BudgetsAssumption
------------------------------------------------------------------------------
(* A step of one call that makes no run, and at most rewrites its own.     *)
LEMMA CallMoves ==
  ASSUME IInv, NEW c \in Calls, Typed', pc'[c] # "idle",
         UNCHANGED <<deleted, facts, asked>>,
         DOMAIN runs' = DOMAIN runs,
         \A i \in DOMAIN runs : /\ runs'[i].by = runs[i].by
                                /\ runs[i].by # c => runs'[i] = runs[i]
                                /\ runs[i].cases => runs'[i].cases
                                /\ runs'[i].linked \in {-1, facts}
                                /\ runs[i].by = c /\ ~ runs'[i].cases =>
                                     pc'[c] \in {"inserted", "matched", "failed", "dead"},
         \A d \in Calls \ {c} : pc'[d] = pc[d] /\ iteration'[d] = iteration[d] /\ answer'[d] = answer[d],
         pc'[c] \in {"inserted", "matched", "saved"} => pc[c] \in {"inserted", "matched", "saved"},
         c \in Repairs => /\ iteration'[c] <= asked[c].budget
                          /\ Cardinality(Made(c)) <=
                               IF pc'[c] = "running" THEN iteration'[c] - 1 ELSE iteration'[c],
         pc'[c] = "answered" =>
           /\ c \in Repairs => \/ answer'[c].coverage >= asked[c].target
                               \/ asked[c].budget = 1
                               \/ answer'[c].by = c /\ answer'[c].iteration = asked[c].budget
           /\ answer'[c].by = c /\ ~ deleted =>
                answer'[c].cases /\ \E i \in DOMAIN runs : runs'[i] = answer'[c]
  PROVE  IInv'
<1>1. Untried'
  <2> SUFFICES ASSUME NEW d \in Calls, pc'[d] = "idle"
               PROVE  iteration'[d] = 1 /\ \A i \in DOMAIN runs' : runs'[i].by # d
    BY DEF Untried
  <2>1. d # c /\ pc[d] = "idle" /\ iteration'[d] = iteration[d]
    OBVIOUS
  <2>2. iteration[d] = 1 /\ \A i \in DOMAIN runs : runs[i].by # d
    BY <2>1 DEF IInv, Untried
  <2> QED BY <2>1, <2>2
<1>2. \A i \in DOMAIN runs : Latest(i)' <=> Latest(i)
  BY DEF Latest
<1>3. Placed'
  BY <1>2 DEF IInv, Placed
<1>4. Whole'
  <2> SUFFICES ASSUME NEW i \in DOMAIN runs, ~ runs'[i].cases
               PROVE  /\ pc'[runs'[i].by] \in {"inserted", "matched", "failed", "dead"}
                      /\ Latest(i)'
    BY DEF Whole
  <2>1. ~ runs[i].cases /\ runs'[i].by = runs[i].by /\ runs[i].by \in Calls
    BY RunsTyped DEF IInv
  <2>2. pc[runs[i].by] \in {"inserted", "matched", "failed", "dead"} /\ Latest(i)
    BY <2>1 DEF IInv, Whole
  <2>3. Latest(i)'
    BY <1>2, <2>2
  <2>4. pc'[runs[i].by] \in {"inserted", "matched", "failed", "dead"}
    <3>1. CASE runs[i].by = c
      BY <3>1
    <3>2. CASE runs[i].by # c
      BY <2>1, <2>2, <3>2
    <3> QED BY <3>1, <3>2
  <2> QED BY <2>1, <2>3, <2>4
<1>5. Counted'
  <2> SUFFICES ASSUME NEW d \in Repairs
               PROVE  iteration'[d] <= asked'[d].budget /\ Cardinality(Made(d)') <= Allowed(d)'
    BY DEF Counted
  <2>1. d \in Calls
    BY DEF Calls
  <2>2. Made(d)' = Made(d)
    BY DEF Made
  <2>3. CASE d = c
    <3>1. Allowed(c)' = IF pc'[c] = "running" THEN iteration'[c] - 1 ELSE iteration'[c]
      BY DEF Allowed
    <3> QED BY <2>2, <2>3, <3>1
  <2>4. CASE d # c
    BY <2>1, <2>2, <2>4 DEF IInv, Counted, Allowed
  <2> QED BY <2>3, <2>4
<1>6. LinksResolve'
  BY DEF LinksResolve
<1>7. NothingSurvivesDelete'
  <2>1. ASSUME deleted PROVE runs' = <<>>
    <3>1. runs = <<>>
      BY <2>1 DEF IInv, NothingSurvivesDelete
    <3>2. DOMAIN runs' = {}
      BY <3>1
    <3> QED BY <3>2, EmptySeq, LenProperties DEF Typed
  <2> QED BY <2>1 DEF NothingSurvivesDelete
<1>8. StopsForAReason'
  <2> SUFFICES ASSUME NEW d \in Repairs, pc'[d] = "answered"
               PROVE  \/ answer'[d].coverage >= asked'[d].target
                      \/ asked'[d].budget = 1
                      \/ answer'[d].by = d /\ answer'[d].iteration = asked'[d].budget
    BY DEF StopsForAReason
  <2>1. CASE d = c
    BY <2>1
  <2>2. CASE d # c
    <3>1. d \in Calls
      BY DEF Calls
    <3> QED BY <2>2, <3>1 DEF IInv, StopsForAReason
  <2> QED BY <2>1, <2>2
<1>9. AnswerIsStored'
  <2> SUFFICES ASSUME NEW d \in Calls, pc'[d] = "answered", answer'[d].by = d, ~ deleted'
               PROVE  answer'[d].cases /\ \E i \in DOMAIN runs' : runs'[i] = answer'[d]
    BY DEF AnswerIsStored
  <2>1. CASE d = c
    BY <2>1
  <2>2. CASE d # c
    BY <2>2 DEF IInv, AnswerIsStored
  <2> QED BY <2>1, <2>2
<1> QED BY <1>1, <1>3, <1>4, <1>5, <1>6, <1>7, <1>8, <1>9 DEF IInv

(* The head of the loop returns the run, for a reason, or begins the next  *)
(* iteration, within the budget.                                           *)
LEMMA LoopSays ==
  ASSUME Typed, NEW c \in Repairs, NEW run \in Runs, NEW n \in 2..11, Repair(c, run, n)
  PROVE  /\ pc' \in [Calls -> States] /\ iteration' \in [Calls -> 1..10]
         /\ answer' \in [Calls -> Runs \union {NoRun}]
         /\ \A d \in Calls \ {c} :
              pc'[d] = pc[d] /\ iteration'[d] = iteration[d] /\ answer'[d] = answer[d]
         /\ \/ /\ pc'[c] = "answered" /\ answer'[c] = run /\ iteration'[c] = iteration[c]
               /\ run.coverage >= asked[c].target \/ n > asked[c].budget
            \/ pc'[c] = "running" /\ iteration'[c] = n /\ n <= asked[c].budget
<1>1. asked[c].budget \in 1..10 /\ c \in Calls
  BY BudgetType
<1>2. CASE Met(run, c) \/ n > asked[c].budget
  <2>1. /\ pc' = [pc EXCEPT ![c] = "answered"] /\ answer' = [answer EXCEPT ![c] = run]
        /\ iteration' = iteration
    BY <1>2 DEF Repair, Return
  <2>2. "answered" \in States
    BY DEF States
  <2> QED BY <1>1, <1>2, <2>1, <2>2 DEF Typed, Met
<1>3. CASE ~ (Met(run, c) \/ n > asked[c].budget)
  <2>1. /\ pc' = [pc EXCEPT ![c] = "running"] /\ iteration' = [iteration EXCEPT ![c] = n]
        /\ answer' = answer
    BY <1>3 DEF Repair
  <2>2. "running" \in States /\ n <= asked[c].budget /\ n \in 1..10
    BY <1>1, <1>3 DEF States
  <2> QED BY <1>1, <2>1, <2>2 DEF Typed
<1> QED BY <1>2, <1>3

LEMMA LoopStarts ==
  ASSUME Typed, NEW c \in Repairs, NEW run \in Runs, RepairFrom(c, run)
  PROVE  /\ base' \in [Repairs -> Levels]
         /\ pc' \in [Calls -> States] /\ iteration' \in [Calls -> 1..10]
         /\ answer' \in [Calls -> Runs \union {NoRun}]
         /\ \A d \in Calls \ {c} :
              pc'[d] = pc[d] /\ iteration'[d] = iteration[d] /\ answer'[d] = answer[d]
         /\ \/ /\ pc'[c] = "answered" /\ answer'[c] = run /\ iteration'[c] = iteration[c]
               /\ run.coverage >= asked[c].target \/ 2 > asked[c].budget
            \/ pc'[c] = "running" /\ iteration'[c] = 2 /\ 2 <= asked[c].budget
<1>1. base' = [base EXCEPT ![c] = run.coverage] /\ run.coverage \in Levels
  BY DEF RepairFrom, Runs
<1>2. base' \in [Repairs -> Levels]
  BY <1>1 DEF Typed
<1>3. Repair(c, run, 2)
  BY DEF RepairFrom, Repair
<1>4. 2 \in 2..11
  OBVIOUS
<1> QED BY <1>2, <1>3, <1>4, LoopSays

LEMMA StartGenerationSafe ==
  ASSUME IInv, NEW c \in Calls, StartGeneration(c)
  PROVE  IInv'
<1>1. /\ c \in Generations /\ pc[c] = "idle" /\ ~ deleted
      /\ pc' = [pc EXCEPT ![c] = "running"] /\ read' = [read EXCEPT ![c] = facts]
      /\ UNCHANGED <<deleted, facts, runs, asked, iteration, matched, base, answer>>
  BY DEF StartGeneration, Generate, ReadEntities, dbVars
<1>2. c \notin Repairs /\ "running" \in States
  BY <1>1, CallsAssumption DEF States
<1>3. Typed'
  BY <1>1, <1>2 DEF IInv, Typed
<1>4. pc'[c] = "running" /\ \A d \in Calls \ {c} : pc'[d] = pc[d]
  BY <1>1 DEF IInv, Typed
<1>5. \A i \in DOMAIN runs : runs[i].by # c /\ runs[i].linked \in {-1, facts}
  BY <1>1 DEF IInv, Untried, LinksResolve
<1> QED BY <1>1, <1>2, <1>3, <1>4, <1>5, CallMoves

LEMMA StartRepairSafe ==
  ASSUME IInv, NEW c \in Calls, StartRepair(c)
  PROVE  IInv'
<1>1. /\ c \in Repairs /\ pc[c] = "idle" /\ ~ deleted
      /\ read' = [read EXCEPT ![c] = facts]
      /\ UNCHANGED <<deleted, facts, runs, asked, matched>>
  BY DEF StartRepair, ReadEntities, dbVars
<1>2. \A i \in DOMAIN runs : runs[i].by # c /\ runs[i].linked \in {-1, facts}
  BY <1>1 DEF IInv, Untried, LinksResolve
<1>3. /\ iteration[c] = 1 /\ Cardinality(Made(c)) <= iteration[c] - 1
      /\ Cardinality(Made(c)) \in Nat /\ asked[c].budget \in 1..10
  BY <1>1, MadeFinite, BudgetType DEF IInv, Untried, Counted, Allowed
<1>4. CASE runs = <<>>
  <2>1. pc' = [pc EXCEPT ![c] = "running"] /\ UNCHANGED <<iteration, answer, base>>
    BY <1>4 DEF StartRepair, Generate
  <2>2. "running" \in States
    BY DEF States
  <2>3. Typed'
    BY <1>1, <2>1, <2>2 DEF IInv, Typed
  <2>4. pc'[c] = "running" /\ \A d \in Calls \ {c} : pc'[d] = pc[d]
    BY <2>1 DEF IInv, Typed
  <2> QED BY <1>1, <1>2, <1>3, <2>1, <2>3, <2>4, CallMoves
<1>5. CASE runs # <<>>
  <2> DEFINE run == runs[Len(runs)]
  <2>1. RepairFrom(c, run)
    BY <1>5 DEF StartRepair
  <2>2. Len(runs) \in DOMAIN runs
    BY <1>5, RunsTyped, EmptySeq DEF IInv, Typed
  <2>3. run \in Runs /\ run.by # c
    BY <1>2, <2>2, RunsTyped DEF IInv
  <2> HIDE DEF run
  <2>4. /\ base' \in [Repairs -> Levels]
        /\ pc' \in [Calls -> States] /\ iteration' \in [Calls -> 1..10]
        /\ answer' \in [Calls -> Runs \union {NoRun}]
        /\ \A d \in Calls \ {c} :
             pc'[d] = pc[d] /\ iteration'[d] = iteration[d] /\ answer'[d] = answer[d]
        /\ \/ /\ pc'[c] = "answered" /\ answer'[c] = run /\ iteration'[c] = iteration[c]
              /\ run.coverage >= asked[c].target \/ 2 > asked[c].budget
           \/ pc'[c] = "running" /\ iteration'[c] = 2 /\ 2 <= asked[c].budget
    BY <1>1, <2>1, <2>3, LoopStarts DEF IInv
  <2>5. Typed'
    BY <1>1, <2>4 DEF IInv, Typed
  <2>6. /\ iteration'[c] <= asked[c].budget
        /\ Cardinality(Made(c)) <= IF pc'[c] = "running" THEN iteration'[c] - 1 ELSE iteration'[c]
    BY <1>3, <2>4
  <2>7. pc'[c] = "answered" =>
          /\ answer'[c].coverage >= asked[c].target \/ asked[c].budget = 1
          /\ answer'[c].by # c
    BY <1>3, <2>3, <2>4
  <2> QED BY <1>1, <1>2, <2>4, <2>5, <2>6, <2>7, CallMoves
<1> QED BY <1>4, <1>5

(* A call that is refused, or breaks off, leaves what it committed.        *)
LEMMA FailSafe ==
  ASSUME IInv, NEW c \in Calls, Fail(c), pc[c] \in AtWork \/ pc[c] = "idle"
  PROVE  IInv'
<1>1. /\ pc' = [pc EXCEPT ![c] = "failed"]
      /\ UNCHANGED <<deleted, facts, runs, read, asked, iteration, matched, base, answer>>
  BY DEF Fail, dbVars
<1>2. "failed" \in States
  BY DEF States
<1>3. Typed'
  BY <1>1, <1>2 DEF IInv, Typed
<1>4. pc'[c] = "failed" /\ \A d \in Calls \ {c} : pc'[d] = pc[d]
  BY <1>1 DEF IInv, Typed
<1>5. \A i \in DOMAIN runs : runs[i].linked \in {-1, facts}
  BY DEF IInv, LinksResolve
<1>6. c \in Repairs => iteration[c] <= asked[c].budget /\ Cardinality(Made(c)) <= iteration[c]
  <2> SUFFICES ASSUME c \in Repairs
               PROVE  iteration[c] <= asked[c].budget /\ Cardinality(Made(c)) <= iteration[c]
    OBVIOUS
  <2>1. Cardinality(Made(c)) <= Allowed(c) /\ iteration[c] <= asked[c].budget
    BY DEF IInv, Counted
  <2>2. iteration[c] \in 1..10 /\ Cardinality(Made(c)) \in Nat
    BY MadeFinite DEF IInv, Typed
  <2> QED BY <2>1, <2>2 DEF Allowed
<1> QED BY <1>1, <1>3, <1>4, <1>5, <1>6, CallMoves

LEMMA MatchCasesSafe ==
  ASSUME IInv, NEW c \in Calls, MatchCases(c)
  PROVE  IInv'
<1>1. /\ pc[c] = "inserted" /\ pc' = [pc EXCEPT ![c] = "matched"]
      /\ UNCHANGED <<deleted, facts, runs, read, asked, iteration, base, answer>>
  BY DEF MatchCases, dbVars
<1>2. "matched" \in States
  BY DEF States
<1>3. matched' \in [Calls -> -1..MaxAnalyses]
  <2>1. PICK m \in {-1, facts} : matched' = [matched EXCEPT ![c] = m]
    BY DEF MatchCases
  <2>2. m \in -1..MaxAnalyses
    BY BoundsAssumption DEF IInv, Typed
  <2> QED BY <2>1, <2>2 DEF IInv, Typed
<1>4. Typed'
  BY <1>1, <1>2, <1>3 DEF IInv, Typed
<1>5. pc'[c] = "matched" /\ \A d \in Calls \ {c} : pc'[d] = pc[d]
  BY <1>1 DEF IInv, Typed
<1>6. \A i \in DOMAIN runs : runs[i].linked \in {-1, facts}
  BY DEF IInv, LinksResolve
<1>7. c \in Repairs => iteration[c] <= asked[c].budget /\ Cardinality(Made(c)) <= iteration[c]
  BY <1>1 DEF IInv, Counted, Allowed
<1> QED BY <1>1, <1>4, <1>5, <1>6, <1>7, CallMoves

(* The cases a call stores are those of its own run.                       *)
LEMMA StoreCasesSafe ==
  ASSUME IInv, NEW c \in Calls, StoreCases(c)
  PROVE  IInv'
<1> DEFINE o == Own(c)
           run == [runs[o] EXCEPT !.cases = TRUE, !.linked = matched[c]]
<1>1. /\ pc[c] = "matched" /\ ~ deleted /\ matched[c] \in {-1, facts}
      /\ pc' = [pc EXCEPT ![c] = "saved"] /\ matched' = [matched EXCEPT ![c] = -1]
      /\ runs' = [runs EXCEPT ![o].cases = TRUE, ![o].linked = matched[c]]
      /\ UNCHANGED <<deleted, facts, read, asked, iteration, base, answer>>
  BY DEF StoreCases
<1>2. o \in DOMAIN runs /\ runs[o].by = c /\ Latest(o) /\ runs[o] \in Runs
  BY <1>1, OwnRun
<1>3. matched[c] \in -1..MaxAnalyses
  BY DEF IInv, Typed
<1>4. run \in Runs /\ run.by = c /\ run.cases = TRUE /\ run.linked = matched[c]
  BY <1>2, <1>3 DEF Runs
<1>5. runs \in Seq(Runs) /\ DOMAIN runs = 1 .. Len(runs)
  BY RunsTyped DEF IInv, Typed
<1>6. runs' = [runs EXCEPT ![o] = run]
  <2>1. runs = [i \in DOMAIN runs |-> runs[i]]
    BY <1>5
  <2> QED BY <1>1, <1>2, <2>1
<1> HIDE DEF o, run
<1>7. runs' \in Seq(Runs) /\ DOMAIN runs' = DOMAIN runs /\ runs'[o] = run
      /\ \A i \in DOMAIN runs \ {o} : runs'[i] = runs[i]
  BY <1>2, <1>4, <1>5, <1>6, ExceptSeq
<1>8. "saved" \in States /\ -1 \in -1..MaxAnalyses
  BY BoundsAssumption DEF States
<1>9. Typed'
  BY <1>1, <1>7, <1>8 DEF IInv, Typed
<1>10. pc'[c] = "saved" /\ \A d \in Calls \ {c} : pc'[d] = pc[d]
  BY <1>1 DEF IInv, Typed
<1>11. \A i \in DOMAIN runs : /\ runs'[i].by = runs[i].by
                              /\ runs[i].by # c => runs'[i] = runs[i]
                              /\ runs[i].cases => runs'[i].cases
                              /\ runs'[i].linked \in {-1, facts}
                              /\ ~ (runs[i].by = c /\ ~ runs'[i].cases)
  <2> SUFFICES ASSUME NEW i \in DOMAIN runs
               PROVE  /\ runs'[i].by = runs[i].by
                      /\ runs[i].by # c => runs'[i] = runs[i]
                      /\ runs[i].cases => runs'[i].cases
                      /\ runs'[i].linked \in {-1, facts}
                      /\ ~ (runs[i].by = c /\ ~ runs'[i].cases)
    OBVIOUS
  <2>1. CASE i = o
    BY <1>1, <1>2, <1>4, <1>7, <2>1
  <2>2. CASE i # o
    <3>1. runs'[i] = runs[i] /\ runs[i].linked \in {-1, facts}
      BY <1>7, <2>2 DEF IInv, LinksResolve
    <3>2. runs[i].by = c => runs[i].cases
      <4>1. ASSUME runs[i].by = c, ~ runs[i].cases PROVE FALSE
        <5>1. Latest(i)
          BY <4>1 DEF IInv, Whole
        <5>2. Own(c) = i
          BY <4>1, <5>1, OwnIsLatest DEF IInv
        <5> QED BY <2>2, <5>2 DEF o
      <4> QED BY <4>1
    <3> QED BY <3>1, <3>2
  <2> QED BY <2>1, <2>2
<1>12. c \in Repairs => iteration[c] <= asked[c].budget /\ Cardinality(Made(c)) <= iteration[c]
  BY <1>1 DEF IInv, Counted, Allowed
<1>13. /\ c \in Repairs => /\ iteration'[c] <= asked[c].budget
                           /\ Cardinality(Made(c)) <=
                                IF pc'[c] = "running" THEN iteration'[c] - 1 ELSE iteration'[c]
       /\ pc'[c] \notin {"idle", "answered"}
       /\ \A d \in Calls \ {c} : pc'[d] = pc[d] /\ iteration'[d] = iteration[d] /\ answer'[d] = answer[d]
  BY <1>1, <1>10, <1>12
<1>14. UNCHANGED <<deleted, facts, asked>> /\ DOMAIN runs' = DOMAIN runs /\ pc[c] = "matched"
  BY <1>1, <1>7
<1> QED BY <1>9, <1>11, <1>13, <1>14, CallMoves

(* The run a call labels is its own, and the labels are all that changes.  *)
Labels(c, o, run) ==
  /\ pc[c] = "saved" /\ ~ deleted
  /\ o = Own(c) /\ run = Labelled(c, runs[o])
  /\ runs' = [runs EXCEPT ![o] = run]

LabelsItsOwn(c, run) ==
  /\ run \in Runs /\ run.by = c /\ run.cases
  /\ iteration[c] # 1 => run.iteration = iteration[c]
  /\ runs' \in Seq(Runs) /\ DOMAIN runs' = DOMAIN runs
  /\ \A i \in DOMAIN runs : /\ runs'[i].by = runs[i].by
                            /\ runs[i].by # c => runs'[i] = runs[i]
                            /\ runs[i].cases => runs'[i].cases
                            /\ runs'[i].linked \in {-1, facts}
                            /\ ~ (runs[i].by = c /\ ~ runs'[i].cases)
  /\ \E i \in DOMAIN runs : runs'[i] = run

LEMMA OwnIsLabelled ==
  ASSUME IInv, NEW c \in Calls, NEW o, NEW run, Labels(c, o, run)
  PROVE  LabelsItsOwn(c, run)
<1>0. /\ pc[c] = "saved" /\ ~ deleted /\ o = Own(c)
      /\ run = Labelled(c, runs[o]) /\ runs' = [runs EXCEPT ![o] = run]
  BY DEF Labels
<1>1. o \in DOMAIN runs /\ runs[o].by = c /\ runs[o] \in Runs
  BY <1>0, OwnRun
<1>2. \A i \in DOMAIN runs : runs[i].by = c => runs[i].cases
  BY <1>0 DEF IInv, Whole
<1>3. \A i \in DOMAIN runs : runs[i].linked \in {-1, facts}
  BY DEF IInv, LinksResolve
<1>4. iteration[c] \in 1..10
  BY DEF IInv, Typed
<1>5. /\ run \in Runs /\ run.by = c /\ run.cases /\ run.linked = runs[o].linked
      /\ iteration[c] # 1 => run.iteration = iteration[c]
  <2> DEFINE r == runs[o]
             met == Met(r, c) /\ r.passed
  <2>1. r \in Runs /\ r.by = c /\ r.cases
    BY <1>1, <1>2
  <2>2. met \in BOOLEAN
    OBVIOUS
  <2>3. run = IF iteration[c] = 1 THEN r
              ELSE [r EXCEPT !.iteration = iteration[c], !.reached = met]
    BY <1>0 DEF Labelled
  <2> HIDE DEF r, met
  <2>4. /\ run \in Runs /\ run.by = c /\ run.cases /\ run.linked = r.linked
        /\ iteration[c] # 1 => run.iteration = iteration[c]
    BY <1>4, <2>1, <2>2, <2>3 DEF Runs
  <2> QED BY <2>4 DEF r
<1>6. runs' \in Seq(Runs) /\ DOMAIN runs' = DOMAIN runs /\ runs'[o] = run
      /\ \A i \in DOMAIN runs \ {o} : runs'[i] = runs[i]
  BY <1>0, <1>1, <1>5, RunsTyped, ExceptSeq DEF IInv, Typed
<1> QED BY <1>1, <1>2, <1>3, <1>5, <1>6 DEF LabelsItsOwn

(* The run a call returns or goes on from is its own.                      *)
LEMMA FinishSafe ==
  ASSUME IInv, NEW c \in Calls, Finish(c)
  PROVE  IInv'
<1>0. PICK o, run : o = Own(c) /\ run = Labelled(c, runs[o])
  OBVIOUS
<1>1. /\ pc[c] = "saved" /\ ~ deleted /\ runs' = [runs EXCEPT ![o] = run]
      /\ UNCHANGED <<deleted, facts, read, asked, matched>>
      /\ c \in Generations => Return(c, run) /\ UNCHANGED base
      /\ c \notin Generations /\ iteration[c] = 1 => RepairFrom(c, run)
      /\ c \notin Generations /\ iteration[c] # 1 =>
           Repair(c, run, iteration[c] + 1) /\ UNCHANGED base
  BY <1>0 DEF Finish
<1>2. iteration[c] \in 1..10
  BY DEF IInv, Typed
<1>3. /\ run \in Runs /\ run.by = c /\ run.cases
      /\ iteration[c] # 1 => run.iteration = iteration[c]
      /\ runs' \in Seq(Runs) /\ DOMAIN runs' = DOMAIN runs
      /\ \A i \in DOMAIN runs : /\ runs'[i].by = runs[i].by
                                /\ runs[i].by # c => runs'[i] = runs[i]
                                /\ runs[i].cases => runs'[i].cases
                                /\ runs'[i].linked \in {-1, facts}
                                /\ ~ (runs[i].by = c /\ ~ runs'[i].cases)
      /\ \E i \in DOMAIN runs : runs'[i] = run
  <2>1. Labels(c, o, run)
    BY <1>0, <1>1 DEF Labels
  <2>2. LabelsItsOwn(c, run)
    BY <2>1, OwnIsLabelled
  <2> QED BY <2>2 DEF LabelsItsOwn
<1>4. CASE c \in Generations
  <2>1. /\ pc' = [pc EXCEPT ![c] = "answered"] /\ answer' = [answer EXCEPT ![c] = run]
        /\ UNCHANGED <<iteration, base>> /\ c \notin Repairs /\ "answered" \in States
    BY <1>1, <1>4, CallsAssumption DEF Return, States
  <2>2. Typed'
    BY <1>1, <1>3, <2>1 DEF IInv, Typed
  <2>3. /\ pc'[c] = "answered" /\ answer'[c] = run
        /\ \A d \in Calls \ {c} : pc'[d] = pc[d] /\ iteration'[d] = iteration[d] /\ answer'[d] = answer[d]
    BY <2>1 DEF IInv, Typed
  <2> QED BY <1>1, <1>3, <2>1, <2>2, <2>3, CallMoves
<1>5. CASE c \in Repairs
  <2> DEFINE n == IF iteration[c] = 1 THEN 2 ELSE iteration[c] + 1
  <2>1. c \notin Generations /\ n \in 2..11 /\ n = iteration[c] + 1
    BY <1>2, <1>5, CallsAssumption
  <2>2. /\ base' \in [Repairs -> Levels]
        /\ pc' \in [Calls -> States] /\ iteration' \in [Calls -> 1..10]
        /\ answer' \in [Calls -> Runs \union {NoRun}]
        /\ \A d \in Calls \ {c} :
             pc'[d] = pc[d] /\ iteration'[d] = iteration[d] /\ answer'[d] = answer[d]
        /\ \/ /\ pc'[c] = "answered" /\ answer'[c] = run /\ iteration'[c] = iteration[c]
              /\ run.coverage >= asked[c].target \/ n > asked[c].budget
           \/ pc'[c] = "running" /\ iteration'[c] = n /\ n <= asked[c].budget
    <3>1. CASE iteration[c] = 1
      BY <1>1, <1>3, <1>5, <2>1, <3>1, LoopStarts DEF IInv
    <3>2. CASE iteration[c] # 1
      <4>1. Repair(c, run, n) /\ base' = base
        BY <1>1, <2>1, <3>2
      <4>2. base' \in [Repairs -> Levels]
        BY <4>1 DEF IInv, Typed
      <4> HIDE DEF n
      <4>3. Typed /\ run \in Runs /\ n \in 2..11
        BY <1>3, <2>1 DEF IInv
      <4> QED BY <1>5, <4>1, <4>2, <4>3, LoopSays
    <3> QED BY <3>1, <3>2
  <2> HIDE DEF n
  <2>3. Typed'
    BY <1>1, <1>3, <2>2 DEF IInv, Typed
  <2>4. /\ iteration[c] <= asked[c].budget /\ Cardinality(Made(c)) <= iteration[c]
        /\ Cardinality(Made(c)) \in Nat /\ asked[c].budget \in 1..10
    BY <1>1, <1>5, MadeFinite, BudgetType DEF IInv, Counted, Allowed
  <2>5. /\ iteration'[c] <= asked[c].budget
        /\ Cardinality(Made(c)) <= IF pc'[c] = "running" THEN iteration'[c] - 1 ELSE iteration'[c]
    BY <1>2, <2>1, <2>2, <2>4
  <2>6. pc'[c] = "answered" =>
          /\ \/ answer'[c].coverage >= asked[c].target
             \/ asked[c].budget = 1
             \/ answer'[c].by = c /\ answer'[c].iteration = asked[c].budget
          /\ answer'[c].cases /\ \E i \in DOMAIN runs : runs'[i] = answer'[c]
    <3>1. ASSUME pc'[c] = "answered", n > asked[c].budget, asked[c].budget # 1
          PROVE  run.iteration = asked[c].budget
      <4>1. iteration[c] = asked[c].budget
        BY <1>2, <2>1, <2>4, <3>1
      <4> QED BY <1>3, <3>1, <4>1
    <3> QED BY <1>3, <2>2, <3>1
  <2> QED BY <1>1, <1>3, <2>2, <2>3, <2>5, <2>6, CallMoves
<1> QED BY <1>4, <1>5 DEF Calls

(* A call that breaks off for want of its functions leaves a whole run.    *)
LEMMA BreakOffSafe ==
  ASSUME IInv, NEW c \in Calls, BreakOff(c)
  PROVE  IInv'
<1>1. PICK o, run : o = Own(c) /\ run = Labelled(c, runs[o])
  OBVIOUS
<1>2. /\ pc[c] = "saved" /\ ~ deleted /\ runs' = [runs EXCEPT ![o] = run]
      /\ pc' = [pc EXCEPT ![c] = "failed"]
      /\ UNCHANGED <<deleted, facts, read, asked, iteration, matched, base, answer>>
  BY <1>1 DEF BreakOff
<1>3. /\ runs' \in Seq(Runs) /\ DOMAIN runs' = DOMAIN runs
      /\ \A i \in DOMAIN runs : /\ runs'[i].by = runs[i].by
                                /\ runs[i].by # c => runs'[i] = runs[i]
                                /\ runs[i].cases => runs'[i].cases
                                /\ runs'[i].linked \in {-1, facts}
                                /\ ~ (runs[i].by = c /\ ~ runs'[i].cases)
  <2>1. Labels(c, o, run)
    BY <1>1, <1>2 DEF Labels
  <2>2. LabelsItsOwn(c, run)
    BY <2>1, OwnIsLabelled
  <2> QED BY <2>2 DEF LabelsItsOwn
<1>4. "failed" \in States
  BY DEF States
<1>5. Typed'
  BY <1>2, <1>3, <1>4 DEF IInv, Typed
<1>6. pc'[c] = "failed" /\ \A d \in Calls \ {c} : pc'[d] = pc[d]
  BY <1>2 DEF IInv, Typed
<1>7. c \in Repairs => iteration[c] <= asked[c].budget /\ Cardinality(Made(c)) <= iteration[c]
  BY <1>2 DEF IInv, Counted, Allowed
<1> QED BY <1>2, <1>3, <1>5, <1>6, <1>7, CallMoves

(* A run that is inserted is the last of its call, and not yet whole.      *)
LEMMA MeasureSafe ==
  ASSUME IInv, NEW c \in Calls, Measure(c)
  PROVE  IInv'
<1>0. PICK n \in Nat : n = Len(runs)
  BY RunsTyped DEF IInv
<1>1. /\ pc[c] = "running" /\ ~ deleted /\ pc' = [pc EXCEPT ![c] = "inserted"]
      /\ UNCHANGED <<deleted, facts, read, asked, iteration, matched, base, answer>>
  BY DEF Measure
<1>2. PICK coverage \in Levels, passed \in BOOLEAN :
        runs' = Append(runs, [by |-> c, coverage |-> coverage, passed |-> passed, iteration |-> 1,
                              reached |-> coverage >= DefaultTarget /\ passed,
                              cases |-> FALSE, linked |-> -1])
  BY DEF Measure
<1> DEFINE reached == coverage >= DefaultTarget /\ passed
           run == [by |-> c, coverage |-> coverage, passed |-> passed, iteration |-> 1,
                   reached |-> reached, cases |-> FALSE, linked |-> -1]
<1>3. run \in Runs /\ run.by = c /\ run.cases = FALSE /\ run.linked = -1
  <2>1. reached \in BOOLEAN
    OBVIOUS
  <2> HIDE DEF reached
  <2>2. -1 \in -1..MaxAnalyses
    BY BoundsAssumption
  <2> QED BY <2>1, <2>2 DEF Runs
<1>4. runs' = Append(runs, run)
  BY <1>2
<1> HIDE DEF run, reached
<1>5. runs \in Seq(Runs) /\ DOMAIN runs = 1 .. n /\ n \in Nat
  BY <1>0, RunsTyped DEF IInv, Typed
<1>6. /\ runs' \in Seq(Runs) /\ Len(runs') = n + 1
      /\ runs'[n + 1] = run /\ \A i \in 1 .. n : runs'[i] = runs[i]
  BY <1>0, <1>3, <1>4, <1>5, AppendProperties
<1>7. DOMAIN runs' = 1 .. n + 1
  BY <1>6, LenProperties
<1>8. \A i \in DOMAIN runs' : i = n + 1 \/ i \in DOMAIN runs
  BY <1>5, <1>7
<1>9. n + 1 \in DOMAIN runs' /\ n + 1 \notin DOMAIN runs /\ DOMAIN runs \subseteq DOMAIN runs'
  BY <1>5, <1>7
<1>10. "inserted" \in States
  BY DEF States
<1>11. Typed'
  BY <1>1, <1>6, <1>10 DEF IInv, Typed
<1>12. pc'[c] = "inserted" /\ \A d \in Calls \ {c} : pc'[d] = pc[d]
  BY <1>1 DEF IInv, Typed
<1>13. Latest(n + 1)'
  <2>1. \A j \in DOMAIN runs' : j <= n + 1
    BY <1>5, <1>7
  <2> QED BY <2>1 DEF Latest
<1>14. \A i \in DOMAIN runs : runs[i].by # c /\ Latest(i) => Latest(i)'
  BY <1>3, <1>5, <1>6, <1>8 DEF Latest
<1>15. Untried'
  <2> SUFFICES ASSUME NEW d \in Calls, pc'[d] = "idle"
               PROVE  iteration'[d] = 1 /\ \A i \in DOMAIN runs' : runs'[i].by # d
    BY DEF Untried
  <2>1. d # c /\ pc[d] = "idle"
    BY <1>12
  <2>2. iteration[d] = 1 /\ \A i \in DOMAIN runs : runs[i].by # d
    BY <2>1 DEF IInv, Untried
  <2> QED BY <1>1, <1>3, <1>5, <1>6, <1>8, <2>1, <2>2
<1>16. Placed'
  <2> SUFFICES ASSUME NEW d \in Calls, pc'[d] \in {"inserted", "matched", "saved"}
               PROVE  \E i \in DOMAIN runs' : runs'[i].by = d /\ Latest(i)'
    BY DEF Placed
  <2>1. CASE d = c
    BY <1>3, <1>6, <1>9, <1>13, <2>1
  <2>2. CASE d # c
    <3>1. pc[d] \in {"inserted", "matched", "saved"}
      BY <1>12, <2>2
    <3>2. PICK i \in DOMAIN runs : runs[i].by = d /\ Latest(i)
      BY <1>1, <3>1 DEF IInv, Placed
    <3>3. i \in DOMAIN runs' /\ runs'[i].by = d /\ Latest(i)'
      BY <1>5, <1>6, <1>9, <1>14, <2>2, <3>2
    <3> QED BY <3>3
  <2> QED BY <2>1, <2>2
<1>17. Whole'
  <2> SUFFICES ASSUME NEW i \in DOMAIN runs', ~ runs'[i].cases
               PROVE  /\ pc'[runs'[i].by] \in {"inserted", "matched", "failed", "dead"}
                      /\ Latest(i)'
    BY DEF Whole
  <2>1. CASE i = n + 1
    BY <1>3, <1>6, <1>12, <1>13, <2>1
  <2>2. CASE i \in DOMAIN runs
    <3>1. runs'[i] = runs[i] /\ ~ runs[i].cases /\ runs[i].by \in Calls
      BY <1>5, <1>6, <2>2, RunsTyped DEF IInv
    <3>2. pc[runs[i].by] \in {"inserted", "matched", "failed", "dead"} /\ Latest(i)
      BY <2>2, <3>1 DEF IInv, Whole
    <3>3. runs[i].by # c
      BY <1>1, <3>2
    <3>4. Latest(i)'
      BY <1>14, <2>2, <3>2, <3>3
    <3> QED BY <1>12, <3>1, <3>2, <3>3, <3>4
  <2> QED BY <1>8, <2>1, <2>2
<1>18. Counted'
  <2> SUFFICES ASSUME NEW d \in Repairs
               PROVE  iteration'[d] <= asked'[d].budget /\ Cardinality(Made(d)') <= Allowed(d)'
    BY DEF Counted
  <2>1. d \in Calls /\ iteration[d] \in 1..10
    BY BudgetType DEF IInv
  <2>2. /\ iteration[d] <= asked[d].budget /\ Cardinality(Made(d)) <= Allowed(d)
        /\ Cardinality(Made(d)) \in Nat /\ IsFiniteSet(Made(d))
    BY MadeFinite DEF IInv, Counted
  <2>3. CASE d = c
    <3>1. Made(d)' = Made(d) \union {n + 1}
      BY <1>3, <1>5, <1>6, <1>8, <1>9, <2>3 DEF Made
    <3>2. n + 1 \notin Made(d)
      BY <1>9 DEF Made
    <3>3. Cardinality(Made(d)') = Cardinality(Made(d)) + 1
      BY <2>2, <3>1, <3>2, FS_AddElement
    <3>4. Allowed(d) = iteration[d] - 1 /\ Allowed(d)' = iteration[d]
      BY <1>1, <1>12, <2>3 DEF Allowed
    <3> QED BY <1>1, <2>1, <2>2, <3>3, <3>4
  <2>4. CASE d # c
    <3>1. Made(d)' = Made(d)
      BY <1>3, <1>5, <1>6, <1>8, <1>9, <2>4 DEF Made
    <3>2. Allowed(d)' = Allowed(d)
      BY <1>1, <1>12, <2>1, <2>4 DEF Allowed
    <3> QED BY <1>1, <2>2, <3>1, <3>2
  <2> QED BY <2>3, <2>4
<1>19. LinksResolve'
  <2> SUFFICES ASSUME NEW i \in DOMAIN runs' PROVE runs'[i].linked \in {-1, facts}
    BY <1>1 DEF LinksResolve
  <2>1. CASE i = n + 1
    BY <1>3, <1>6, <2>1
  <2>2. CASE i \in DOMAIN runs
    BY <1>5, <1>6, <2>2 DEF IInv, LinksResolve
  <2> QED BY <1>8, <2>1, <2>2
<1>20. NothingSurvivesDelete'
  BY <1>1 DEF NothingSurvivesDelete
<1>21. StopsForAReason'
  <2> SUFFICES ASSUME NEW d \in Repairs, pc'[d] = "answered"
               PROVE  \/ answer'[d].coverage >= asked'[d].target
                      \/ asked'[d].budget = 1
                      \/ answer'[d].by = d /\ answer'[d].iteration = asked'[d].budget
    BY DEF StopsForAReason
  <2>1. d \in Calls /\ pc[d] = "answered"
    <3>1. d \in Calls /\ d # c
      BY <1>12 DEF Calls
    <3> QED BY <1>12, <3>1
  <2> QED BY <1>1, <2>1 DEF IInv, StopsForAReason
<1>22. AnswerIsStored'
  <2> SUFFICES ASSUME NEW d \in Calls, pc'[d] = "answered", answer'[d].by = d
               PROVE  answer'[d].cases /\ \E i \in DOMAIN runs' : runs'[i] = answer'[d]
    BY DEF AnswerIsStored
  <2>1. pc[d] = "answered"
    BY <1>12
  <2>2. answer[d].cases /\ \E i \in DOMAIN runs : runs[i] = answer[d]
    BY <1>1, <2>1 DEF IInv, AnswerIsStored
  <2>3. PICK i \in DOMAIN runs : runs[i] = answer[d]
    BY <2>2
  <2>4. i \in DOMAIN runs' /\ runs'[i] = answer'[d]
    BY <1>1, <1>5, <1>6, <1>9, <2>3
  <2> QED BY <1>1, <2>2, <2>4
<1> QED BY <1>11, <1>15, <1>16, <1>17, <1>18, <1>19, <1>20, <1>21, <1>22 DEF IInv

(* Entities are replaced when nothing refers to them.                      *)
LEMMA ReanalyseSafe ==
  ASSUME IInv, Reanalyse
  PROVE  IInv'
<1>1. /\ facts < MaxAnalyses /\ facts' = facts + 1
      /\ \A i \in DOMAIN runs : runs[i].linked # facts
      /\ UNCHANGED <<deleted, runs, pc, read, asked, iteration, matched, base, answer>>
  BY DEF Reanalyse
<1>2. Typed'
  <2>1. facts' \in 0..MaxAnalyses
    BY <1>1, BoundsAssumption DEF IInv, Typed
  <2> QED BY <1>1, <2>1 DEF IInv, Typed
<1>3. LinksResolve'
  BY <1>1 DEF IInv, LinksResolve
<1>4. Untried' /\ Placed' /\ Whole'
  BY <1>1 DEF IInv, Untried, Placed, Whole, Latest
<1>5. Counted' /\ StopsForAReason'
  BY <1>1 DEF IInv, Counted, Allowed, Made, StopsForAReason
<1>6. NothingSurvivesDelete' /\ AnswerIsStored'
  BY <1>1 DEF IInv, NothingSurvivesDelete, AnswerIsStored
<1> QED BY <1>2, <1>3, <1>4, <1>5, <1>6 DEF IInv

LEMMA DeleteRepositorySafe ==
  ASSUME IInv, DeleteRepository
  PROVE  IInv'
<1>1. /\ deleted' = TRUE /\ runs' = <<>>
      /\ UNCHANGED <<facts, pc, read, asked, iteration, matched, base, answer>>
  BY DEF DeleteRepository
<1>2. runs' \in Seq(Runs) /\ DOMAIN runs' = {}
  BY <1>1, EmptySeq
<1>3. Typed'
  BY <1>1, <1>2 DEF IInv, Typed
<1>4. Untried' /\ Placed' /\ Whole' /\ LinksResolve'
  BY <1>1, <1>2 DEF IInv, Untried, Placed, Whole, LinksResolve
<1>5. Counted'
  <2> SUFFICES ASSUME NEW d \in Repairs
               PROVE  iteration'[d] <= asked'[d].budget /\ Cardinality(Made(d)') <= Allowed(d)'
    BY DEF Counted
  <2>1. Made(d)' = {}
    BY <1>2 DEF Made
  <2>2. Cardinality(Made(d)') = 0
    BY <2>1, FS_EmptySet
  <2>3. iteration[d] <= asked[d].budget /\ Cardinality(Made(d)) <= Allowed(d)
    BY DEF IInv, Counted
  <2>4. iteration[d] \in 1..10 /\ Allowed(d)' = Allowed(d)
    BY <1>1, BudgetType DEF IInv, Allowed
  <2> QED BY <1>1, <2>2, <2>3, <2>4 DEF Allowed
<1>6. NothingSurvivesDelete' /\ AnswerIsStored' /\ StopsForAReason'
  BY <1>1 DEF IInv, NothingSurvivesDelete, AnswerIsStored, StopsForAReason
<1> QED BY <1>3, <1>4, <1>5, <1>6 DEF IInv

(* A restart leaves what the calls at work committed.                      *)
LEMMA RestartSafe ==
  ASSUME IInv, Restart
  PROVE  IInv'
<1>1. /\ pc' = [c \in Calls |-> IF pc[c] \in AtWork THEN "dead" ELSE pc[c]]
      /\ UNCHANGED <<deleted, facts, runs, read, asked, iteration, matched, base, answer>>
  BY DEF Restart, dbVars
<1>2. \A c \in Calls : \/ pc[c] \in AtWork /\ pc'[c] = "dead"
                       \/ pc[c] \in {"idle", "answered", "failed", "dead"} /\ pc'[c] = pc[c]
  BY <1>1 DEF AtWork, IInv, Typed, States
<1>3. Typed'
  BY <1>1, <1>2 DEF IInv, Typed, States
<1>4. Untried' /\ Placed' /\ LinksResolve' /\ NothingSurvivesDelete' /\ AnswerIsStored'
  BY <1>1, <1>2 DEF IInv, Untried, Placed, LinksResolve, NothingSurvivesDelete, AnswerIsStored
<1>5. Whole'
  <2> SUFFICES ASSUME NEW i \in DOMAIN runs, ~ runs[i].cases
               PROVE  pc'[runs[i].by] \in {"inserted", "matched", "failed", "dead"} /\ Latest(i)'
    BY <1>1 DEF Whole
  <2>1. runs[i].by \in Calls
    BY RunsTyped DEF IInv
  <2>2. pc[runs[i].by] \in {"inserted", "matched", "failed", "dead"} /\ Latest(i)
    BY DEF IInv, Whole
  <2> QED BY <1>1, <1>2, <2>1, <2>2 DEF Latest
<1>6. Counted'
  <2> SUFFICES ASSUME NEW d \in Repairs
               PROVE  iteration'[d] <= asked'[d].budget /\ Cardinality(Made(d)') <= Allowed(d)'
    BY DEF Counted
  <2>1. d \in Calls /\ iteration[d] \in 1..10
    BY BudgetType DEF IInv
  <2>2. /\ iteration[d] <= asked[d].budget /\ Cardinality(Made(d)) <= Allowed(d)
        /\ Cardinality(Made(d)) \in Nat
    BY MadeFinite DEF IInv, Counted
  <2>3. Made(d)' = Made(d)
    BY <1>1 DEF Made
  <2> DEFINE made == Cardinality(Made(d))
  <2>4. made <= iteration[d] /\ made \in Nat
    BY <2>1, <2>2 DEF Allowed
  <2>5. CASE pc'[d] = "idle"
    <3>1. Allowed(d)' = Allowed(d)
      BY <1>1, <1>2, <2>1, <2>5 DEF Allowed
    <3> QED BY <1>1, <2>2, <2>3, <3>1
  <2>6. CASE pc'[d] # "idle"
    <3>1. Allowed(d)' = iteration[d]
      BY <1>1, <1>2, <2>1, <2>6 DEF Allowed
    <3> QED BY <1>1, <2>2, <2>3, <2>4, <3>1
  <2> QED BY <2>5, <2>6
<1>7. StopsForAReason'
  BY <1>1, <1>2 DEF IInv, StopsForAReason, Calls
<1> QED BY <1>3, <1>4, <1>5, <1>6, <1>7 DEF IInv
------------------------------------------------------------------------------
LEMMA InitSafe == Init => IInv
<1> SUFFICES ASSUME Init PROVE IInv
  OBVIOUS
<1>1. runs \in Seq(Runs) /\ DOMAIN runs = {}
  BY EmptySeq DEF Init
<1>2. 0 \in 0..MaxAnalyses /\ -1 \in -1..MaxAnalyses /\ 0 \in Levels
  BY BoundsAssumption, LevelsAssumption
<1>3. Typed
  <2>1. pc \in [Calls -> States] /\ iteration \in [Calls -> 1..10]
    BY DEF Init, States
  <2>2. matched \in [Calls -> -1..MaxAnalyses] /\ base \in [Repairs -> Levels]
    BY <1>2 DEF Init
  <2>3. answer \in [Calls -> Runs \union {NoRun}]
    BY DEF Init
  <2>4. deleted \in BOOLEAN /\ facts \in 0..MaxAnalyses /\ read \in [Calls -> 0..MaxAnalyses]
        /\ asked \in [Repairs -> [target : Targets, budget : Budgets]]
    BY <1>2 DEF Init
  <2> QED BY <1>1, <2>1, <2>2, <2>3, <2>4 DEF Typed
<1>4. Untried /\ Placed /\ Whole /\ LinksResolve
  BY <1>1 DEF Init, Untried, Placed, Whole, LinksResolve
<1>5. Counted
  <2> SUFFICES ASSUME NEW d \in Repairs
               PROVE  iteration[d] <= asked[d].budget /\ Cardinality(Made(d)) <= Allowed(d)
    BY DEF Counted
  <2>1. Made(d) = {} /\ Cardinality({}) = 0
    BY <1>1, FS_EmptySet DEF Made
  <2>2. asked[d].budget \in 1..10 /\ d \in Calls
    BY <1>3, BudgetType
  <2>3. iteration[d] = 1 /\ pc[d] = "idle"
    BY <2>2 DEF Init
  <2> QED BY <2>1, <2>2, <2>3 DEF Allowed
<1>6. NothingSurvivesDelete /\ StopsForAReason /\ AnswerIsStored
  BY DEF Init, NothingSurvivesDelete, StopsForAReason, AnswerIsStored, Calls
<1> QED BY <1>3, <1>4, <1>5, <1>6 DEF IInv

LEMMA NextSafe == IInv /\ [Next]_vars => IInv'
<1> SUFFICES ASSUME IInv, [Next]_vars PROVE IInv'
  OBVIOUS
<1>1. ASSUME NEW c \in Calls, CallStep(c) PROVE IInv'
  <2>1. CASE StartGeneration(c) \/ StartRepair(c)
    BY <2>1, StartGenerationSafe, StartRepairSafe
  <2>2. CASE NotFound(c) \/ CommitRefused(c)
    <3>1. Fail(c) /\ (pc[c] \in AtWork \/ pc[c] = "idle")
      BY <2>2 DEF NotFound, CommitRefused, AtWork
    <3> QED BY <3>1, FailSafe
  <2>3. CASE Measure(c) \/ MatchCases(c) \/ StoreCases(c) \/ Finish(c)
    BY <2>3, MeasureSafe, MatchCasesSafe, StoreCasesSafe, FinishSafe
  <2>4. CASE BreakOff(c)
    BY <2>4, BreakOffSafe
  <2> QED BY <1>1, <2>1, <2>2, <2>3, <2>4 DEF CallStep
<1>2. CASE Reanalyse \/ DeleteRepository \/ Restart
  BY <1>2, ReanalyseSafe, DeleteRepositorySafe, RestartSafe
<1>3. CASE UNCHANGED vars
  <2>1. UNCHANGED <<deleted, facts, runs, pc, read, asked, iteration, matched, base, answer>>
    BY <1>3 DEF vars
  <2>2. Typed' /\ Untried' /\ Placed' /\ Whole' /\ LinksResolve'
    BY <2>1 DEF IInv, Typed, Untried, Placed, Whole, Latest, LinksResolve
  <2>3. Counted' /\ NothingSurvivesDelete' /\ StopsForAReason' /\ AnswerIsStored'
    BY <2>1 DEF IInv, Counted, Allowed, Made, NothingSurvivesDelete, StopsForAReason, AnswerIsStored
  <2> QED BY <2>2, <2>3 DEF IInv
<1> QED BY <1>1, <1>2, <1>3 DEF Next

(* Every state of the calls has the invariant.                             *)
THEOREM InvariantHolds == Spec => []IInv
<1>1. Init => IInv
  BY InitSafe
<1>2. IInv /\ [Next]_vars => IInv'
  BY NextSafe
<1> QED BY <1>1, <1>2, PTL DEF Spec

LEMMA InvariantTyped ==
  ASSUME IInv
  PROVE  TypeOK
<1>1. Typed /\ \A i \in DOMAIN runs : runs[i] \in Runs
  BY RunsTyped DEF IInv
<1> QED BY <1>1 DEF TypeOK, Typed, States, Runs

(* Every variable has its type.                                            *)
THEOREM TypeCorrect == Spec => []TypeOK
<1>1. IInv => TypeOK
  BY InvariantTyped
<1> QED BY <1>1, InvariantHolds, PTL

(* What is stored is sound between any two commits: runs are whole or      *)
(* abandoned, links resolve, a deletion leaves nothing                     *)
(* (sandbox_runner.py:355-379).                                            *)
THEOREM RowsAreAlwaysSound == Spec => []RowsAreSound
<1>1. ASSUME IInv PROVE RowsAreSound
  <2>1. TypeOK
    BY <1>1, InvariantTyped
  <2>2. RunsAreWholeOrAbandoned
    <3> SUFFICES ASSUME NEW i \in DOMAIN runs, ~ runs[i].cases
                 PROVE  /\ pc[runs[i].by] \in {"inserted", "matched", "failed", "dead"}
                        /\ i = Own(runs[i].by)
      BY DEF RunsAreWholeOrAbandoned
    <3>1. pc[runs[i].by] \in {"inserted", "matched", "failed", "dead"} /\ Latest(i)
      BY <1>1 DEF IInv, Whole
    <3>2. Typed /\ runs[i].by \in Calls
      BY <1>1, RunsTyped DEF IInv
    <3> QED BY <3>1, <3>2, OwnIsLatest
  <2> QED BY <1>1, <2>1, <2>2 DEF IInv, RowsAreSound
<1> QED BY <1>1, InvariantHolds, PTL

(* What a call returns of its own runs is what is stored, however many     *)
(* calls follow (test_generator.py:512-590).                               *)
THEOREM AnswersAreAlwaysStored == Spec => []AnswerIsStored
<1>1. IInv => AnswerIsStored
  BY DEF IInv
<1> QED BY <1>1, InvariantHolds, PTL

(* A repair stops at its target or with its budget spent, and makes no     *)
(* more runs than its budget (test_generator.py:512-590).                  *)
THEOREM RepairsAlwaysStopInTime == Spec => []StopsInTime
<1>1. ASSUME IInv PROVE StopsInTime
  <2>1. BudgetIsKept
    <3> SUFFICES ASSUME NEW c \in Repairs PROVE Cardinality(Made(c)) <= asked[c].budget
      BY DEF BudgetIsKept
    <3>1. iteration[c] <= asked[c].budget /\ Cardinality(Made(c)) <= Allowed(c)
      BY <1>1 DEF IInv, Counted
    <3>2. iteration[c] \in 1..10 /\ asked[c].budget \in 1..10 /\ Cardinality(Made(c)) \in Nat
      BY <1>1, BudgetType, MadeFinite DEF IInv
    <3> QED BY <3>1, <3>2 DEF Allowed
  <2> QED BY <1>1, <2>1 DEF IInv, StopsInTime
<1> QED BY <1>1, InvariantHolds, PTL

(* A stored run keeps what was measured, and only the call that made it    *)
(* completes it, as its last one, while at work: for any calls, analyses,  *)
(* deletions and restarts between its three commits.                       *)
THEOREM MeasurementsAlwaysStay == Spec => MeasurementsStay
<1> DEFINE Kept(i) ==
             /\ i \in DOMAIN runs'
             /\ runs'[i].by = runs[i].by
             /\ runs'[i].coverage = runs[i].coverage /\ runs'[i].passed = runs[i].passed
             /\ runs'[i] # runs[i] => pc[runs[i].by] \in {"matched", "saved"} /\ i = Own(runs[i].by)
           Stay == ~ deleted' => \A i \in DOMAIN runs : Kept(i)
<1>1. ASSUME UNCHANGED runs PROVE Stay
  BY <1>1
<1>2. ASSUME IInv, NEW c \in Calls, Measure(c) PROVE Stay
  <2>1. PICK run : runs' = Append(runs, run)
    BY <1>2 DEF Measure
  <2>2. DOMAIN runs = 1 .. Len(runs) /\ Len(runs) \in Nat /\ runs \in Seq(Runs)
    BY <1>2, RunsTyped DEF IInv, Typed
  <2>3. \A i \in DOMAIN runs : i \in DOMAIN runs' /\ runs'[i] = runs[i]
    BY <2>1, <2>2
  <2> QED BY <2>3
<1>3. ASSUME IInv, NEW c \in Calls, pc[c] \in {"matched", "saved"}, ~ deleted, NEW run,
             runs' = [runs EXCEPT ![Own(c)] = run], run.by = runs[Own(c)].by,
             run.coverage = runs[Own(c)].coverage, run.passed = runs[Own(c)].passed
      PROVE Stay
  <2>1. Own(c) \in DOMAIN runs /\ runs[Own(c)].by = c
    BY <1>3, OwnRun
  <2>2. \A i \in DOMAIN runs : i \in DOMAIN runs' /\ runs'[i] = IF i = Own(c) THEN run ELSE runs[i]
    BY <1>3
  <2> SUFFICES ASSUME NEW i \in DOMAIN runs PROVE Kept(i)
    OBVIOUS
  <2>3. CASE i = Own(c)
    BY <2>1, <2>2, <2>3, <1>3
  <2>4. CASE i # Own(c)
    BY <2>2, <2>4
  <2> QED BY <2>3, <2>4
<1>4. ASSUME IInv, NEW c \in Calls, StoreCases(c) PROVE Stay
  <2> DEFINE own == runs[Own(c)]
             run == [own EXCEPT !.cases = TRUE, !.linked = matched[c]]
  <2>1. pc[c] = "matched" /\ ~ deleted
    BY <1>4 DEF StoreCases
  <2>2. Own(c) \in DOMAIN runs /\ own \in Runs
    BY <1>4, <2>1, OwnRun
  <2>3. runs' = [runs EXCEPT ![Own(c)] = run]
    BY <1>4, <2>2 DEF StoreCases
  <2>4. run.by = own.by /\ run.coverage = own.coverage /\ run.passed = own.passed
    BY <2>2 DEF Runs
  <2> QED BY <1>3, <1>4, <2>1, <2>3, <2>4
<1>5. ASSUME IInv, NEW c \in Calls, Finish(c) \/ BreakOff(c) PROVE Stay
  <2> DEFINE own == runs[Own(c)]
             run == Labelled(c, own)
  <2>1. pc[c] = "saved" /\ ~ deleted /\ runs' = [runs EXCEPT ![Own(c)] = run]
    BY <1>5 DEF Finish, BreakOff
  <2>2. own \in Runs
    BY <1>5, <2>1, OwnRun
  <2>3. run.by = own.by /\ run.coverage = own.coverage /\ run.passed = own.passed
    BY <2>2 DEF Labelled, Runs
  <2> QED BY <1>3, <1>5, <2>1, <2>3
<1>6. ASSUME IInv, [Next]_vars PROVE Stay
  <2>1. CASE \E c \in Calls : Measure(c) \/ StoreCases(c) \/ Finish(c) \/ BreakOff(c)
    BY <1>2, <1>4, <1>5, <1>6, <2>1
  <2>2. CASE DeleteRepository
    BY <2>2 DEF DeleteRepository
  <2>3. CASE ~ DeleteRepository /\ ~ \E c \in Calls : Measure(c) \/ StoreCases(c)
                                              \/ Finish(c) \/ BreakOff(c)
    <3>1. UNCHANGED runs
      BY <1>6, <2>3 DEF Next, CallStep, StartGeneration, StartRepair, NotFound, MatchCases,
         CommitRefused, Fail, Reanalyse, Restart, dbVars, vars
    <3> QED BY <3>1, <1>1
  <2> QED BY <2>1, <2>2, <2>3
<1>7. IInv /\ [Next]_vars => [Stay]_vars
  BY <1>6
<1> QED BY <1>7, InvariantHolds, PTL DEF Spec, MeasurementsStay
==============================================================================
