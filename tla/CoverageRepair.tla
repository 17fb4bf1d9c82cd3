---------------------------- MODULE CoverageRepair ----------------------------
(***************************************************************************)
(* Test generation, sandbox runs and the coverage repair loop of one       *)
(* repository.                                                             *)
(*                                                                         *)
(* POST tests/generate makes one run; POST tests/generate-uncovered starts *)
(* from the latest run, whoever made it, and adds tests to its code until  *)
(* a run reaches the caller's target or the caller's budget is spent.  A   *)
(* run is stored in three transactions: its row, labelled as iteration 1   *)
(* and judged by the default target; its test cases, which refer to the    *)
(* entities they exercise; and, in the loop, its iteration and whether it  *)
(* reached the caller's target.  Calls, analyses, a deletion and restarts  *)
(* interleave between them.                                                *)
(*                                                                         *)
(* The generated code itself is left out: what a run measures of it, and   *)
(* whether it passes, is open.                                             *)
(***************************************************************************)
EXTENDS Integers, Sequences, FiniteSets

CONSTANTS
  Generations,    \* calls of tests/generate
  Repairs,        \* calls of tests/generate-uncovered
  Levels,         \* the coverages a run may measure, percent
  Targets,        \* target_coverage of a call
  Budgets,        \* max_iterations of a call
  MaxAnalyses,    \* bound: analyses that replace the entities
  MayCrash        \* may the process be restarted?

Calls == Generations \union Repairs

ASSUME CallsAssumption == Generations \intersect Repairs = {}
ASSUME LevelsAssumption == Levels \subseteq 0..100 /\ 0 \in Levels /\ Targets \subseteq 0..100
ASSUME BudgetsAssumption == Budgets \subseteq 1..10
ASSUME BoundsAssumption == MaxAnalyses \in Nat /\ MayCrash \in BOOLEAN

DefaultTarget == 60

VARIABLES
  deleted,   \* is the repository deleted?
  facts,     \* the analysis whose entities are stored
  runs,      \* test_runs, in the order of created_at
  pc,        \* where each call is
  read,      \* the analysis whose entities each call holds to write tests for
  asked,     \* target_coverage and max_iterations of each repair
  iteration, \* the iteration of its loop a call is in, 1 while it has no loop
  matched,   \* the analysis whose entities its test cases refer to, -1 for none
  base,      \* the coverage of the run each repair started from
  answer     \* the run each call returned

dbVars == <<deleted, facts, runs>>
vars == <<deleted, facts, runs, pc, read, asked, iteration, matched, base, answer>>

AtWork == {"running", "inserted", "matched", "saved"}

NoRun == [by |-> "nobody"]

TypeOK ==
  /\ deleted \in BOOLEAN
  /\ facts \in 0..MaxAnalyses
  /\ \A i \in DOMAIN runs :
       runs[i] \in [by : Calls, coverage : Levels, passed : BOOLEAN, iteration : 1..10,
                    reached : BOOLEAN, cases : BOOLEAN, linked : -1..MaxAnalyses]
  /\ pc \in [Calls -> {"idle", "running", "inserted", "matched", "saved", "answered", "failed", "dead"}]
  /\ read \in [Calls -> 0..MaxAnalyses]
  /\ asked \in [Repairs -> [target : Targets, budget : Budgets]]
  /\ iteration \in [Calls -> 1..10]
  /\ matched \in [Calls -> -1..MaxAnalyses]
  /\ base \in [Repairs -> Levels]

Init ==
  /\ deleted = FALSE
  /\ facts = 0
  /\ runs = <<>>
  /\ pc = [c \in Calls |-> "idle"]
  /\ read = [c \in Calls |-> 0]
  /\ asked \in [Repairs -> [target : Targets, budget : Budgets]]
  /\ iteration = [c \in Calls |-> 1]
  /\ matched = [c \in Calls |-> -1]
  /\ base = [c \in Repairs |-> 0]
  /\ answer = [c \in Calls |-> NoRun]

(* The last run of a call.                                                 *)
Own(c) == CHOOSE i \in DOMAIN runs :
            runs[i].by = c /\ \A j \in DOMAIN runs : runs[j].by = c => j <= i

Met(run, c) == run.coverage >= asked[c].target

(* A call is refused or breaks off with an error: 404, or a 500 after an   *)
(* insert, an update or a refresh has found its rows gone.                 *)
Fail(c) ==
  /\ pc' = [pc EXCEPT ![c] = "failed"]
  /\ UNCHANGED <<dbVars, read, asked, iteration, matched, base, answer>>

Return(c, run) ==
  /\ pc' = [pc EXCEPT ![c] = "answered"]
  /\ answer' = [answer EXCEPT ![c] = run]
  /\ UNCHANGED iteration
------------------------------------------------------------------------------
(* The functions of the repository are read to write tests for; a commit   *)
(* makes the session read them again when they are named next.             *)
ReadEntities(c) == read' = [read EXCEPT ![c] = facts]

(* generate_unit_tests: the code is generated, and run next.               *)
Generate(c) ==
  /\ pc' = [pc EXCEPT ![c] = "running"]
  /\ UNCHANGED <<iteration, answer>>

(* Fault: an iteration too many.                                           *)
RepairOverBudget(c, run, n) ==
  IF Met(run, c) \/ n > asked[c].budget + 1 THEN Return(c, run)
  ELSE /\ iteration' = [iteration EXCEPT ![c] = n]
       /\ pc' = [pc EXCEPT ![c] = "running"]
       /\ UNCHANGED answer

(* Fault: the loop stops at the default target.                            *)
RepairToDefault(c, run, n) ==
  IF run.coverage >= DefaultTarget \/ n > asked[c].budget THEN Return(c, run)
  ELSE /\ iteration' = [iteration EXCEPT ![c] = n]
       /\ pc' = [pc EXCEPT ![c] = "running"]
       /\ UNCHANGED answer

(* The head of the repair loop, about to begin iteration n after a run.    *)
Repair(c, run, n) ==
  IF Met(run, c) \/ n > asked[c].budget THEN Return(c, run)
  ELSE /\ iteration' = [iteration EXCEPT ![c] = n]
       /\ pc' = [pc EXCEPT ![c] = "running"]
       /\ UNCHANGED answer

(* A baseline that passes and meets the target is returned as it is.       *)
RepairFrom(c, run) ==
  /\ base' = [base EXCEPT ![c] = run.coverage]
  /\ IF Met(run, c) /\ run.passed THEN Return(c, run) ELSE Repair(c, run, 2)

StartGeneration(c) ==
  /\ c \in Generations
  /\ pc[c] = "idle"
  /\ ~ deleted
  /\ Generate(c) /\ ReadEntities(c)
  /\ UNCHANGED <<dbVars, asked, matched, base>>

StartRepair(c) ==
  /\ c \in Repairs
  /\ pc[c] = "idle"
  /\ ~ deleted
  /\ IF runs = <<>> THEN Generate(c) /\ UNCHANGED base
     ELSE RepairFrom(c, runs[Len(runs)])
  /\ ReadEntities(c)
  /\ UNCHANGED <<dbVars, asked, matched>>

NotFound(c) ==
  /\ pc[c] = "idle"
  /\ deleted
  /\ Fail(c)
------------------------------------------------------------------------------
(* execute_sandbox_test_run                                                *)

(* Fault: the row is inserted though the repository is gone.               *)
MeasureUnchecked(c) ==
  /\ pc[c] = "running"
  /\ \E coverage \in Levels, passed \in BOOLEAN :
       runs' = Append(runs, [by |-> c, coverage |-> coverage, passed |-> passed, iteration |-> 1,
                             reached |-> coverage >= DefaultTarget /\ passed,
                             cases |-> FALSE, linked |-> -1])
  /\ pc' = [pc EXCEPT ![c] = "inserted"]
  /\ UNCHANGED <<deleted, facts, read, asked, iteration, matched, base, answer>>

(* Fault: nothing is stored for a sandbox that measured nothing.           *)
MeasureWithoutDefault(c) ==
  /\ pc[c] = "running"
  /\ ~ deleted
  /\ \E coverage \in Levels \union {-1}, passed \in BOOLEAN :
       runs' = Append(runs, [by |-> c, coverage |-> coverage, passed |-> passed, iteration |-> 1,
                             reached |-> coverage >= DefaultTarget /\ passed,
                             cases |-> FALSE, linked |-> -1])
  /\ pc' = [pc EXCEPT ![c] = "inserted"]
  /\ UNCHANGED <<deleted, facts, read, asked, iteration, matched, base, answer>>

(* The tests are run, or the sandbox fails, which counts as a failed run   *)
(* of no coverage; the row is committed.                                   *)
Measure(c) ==
  /\ pc[c] = "running"
  /\ ~ deleted
  /\ \E coverage \in Levels, passed \in BOOLEAN :
       runs' = Append(runs, [by |-> c, coverage |-> coverage, passed |-> passed, iteration |-> 1,
                             reached |-> coverage >= DefaultTarget /\ passed,
                             cases |-> FALSE, linked |-> -1])
  /\ pc' = [pc EXCEPT ![c] = "inserted"]
  /\ UNCHANGED <<deleted, facts, read, asked, iteration, matched, base, answer>>

(* The entities the test cases exercise are looked up by name.             *)
MatchCases(c) ==
  /\ pc[c] = "inserted"
  /\ ~ deleted
  /\ \E m \in {-1, facts} : matched' = [matched EXCEPT ![c] = m]
  /\ pc' = [pc EXCEPT ![c] = "matched"]
  /\ UNCHANGED <<dbVars, read, asked, iteration, base, answer>>

(* Fault: the reference is not checked by the commit.                      *)
StoreCasesUnchecked(c) ==
  /\ pc[c] = "matched"
  /\ ~ deleted
  /\ runs' = [runs EXCEPT ![Own(c)].cases = TRUE, ![Own(c)].linked = matched[c]]
  /\ pc' = [pc EXCEPT ![c] = "saved"]
  /\ matched' = [matched EXCEPT ![c] = -1]
  /\ UNCHANGED <<deleted, facts, read, asked, iteration, base, answer>>

(* The cases are committed, unless the entities they refer to have been    *)
(* replaced since they were looked up.                                     *)
StoreCases(c) ==
  /\ pc[c] = "matched"
  /\ ~ deleted
  /\ matched[c] \in {-1, facts}
  /\ runs' = [runs EXCEPT ![Own(c)].cases = TRUE, ![Own(c)].linked = matched[c]]
  /\ pc' = [pc EXCEPT ![c] = "saved"]
  /\ matched' = [matched EXCEPT ![c] = -1]
  /\ UNCHANGED <<deleted, facts, read, asked, iteration, base, answer>>

(* A run as its call leaves it: in the loop, with its iteration and the    *)
(* caller's verdict.                                                       *)
Labelled(c, run) ==
  IF iteration[c] = 1 THEN run
  ELSE [run EXCEPT !.iteration = iteration[c], !.reached = Met(run, c) /\ run.passed]

(* The functions are named again in the answer to a generation, and in the *)
(* prompt of every iteration that follows another.                         *)
NamesEntities(c) ==
  iteration[c] # 1 => ~ Met(runs[Own(c)], c) /\ iteration[c] < asked[c].budget

Stale(c) == NamesEntities(c) /\ read[c] # facts

(* Fault: the labels are not committed.                                    *)
FinishUncommitted(c) ==
  /\ pc[c] = "saved"
  /\ ~ deleted
  /\ ~ Stale(c)
  /\ LET run == Labelled(c, runs[Own(c)])
     IN  IF c \in Generations THEN Return(c, run) /\ UNCHANGED base
         ELSE IF iteration[c] = 1 THEN RepairFrom(c, run)
         ELSE Repair(c, run, iteration[c] + 1) /\ UNCHANGED base
  /\ UNCHANGED <<dbVars, read, asked, matched>>

(* The run is read again and, in the loop, labelled; a generation returns, *)
(* the loop goes on from it.                                               *)
Finish(c) ==
  /\ pc[c] = "saved"
  /\ ~ deleted
  /\ ~ Stale(c)
  /\ LET run == Labelled(c, runs[Own(c)])
     IN  /\ runs' = [runs EXCEPT ![Own(c)] = run]
         /\ IF c \in Generations THEN Return(c, run) /\ UNCHANGED base
            ELSE IF iteration[c] = 1 THEN RepairFrom(c, run)
            ELSE Repair(c, run, iteration[c] + 1) /\ UNCHANGED base
  /\ UNCHANGED <<deleted, facts, read, asked, matched>>

(* A re-analysis has deleted the functions: the run is stored whole, and   *)
(* the call ends with an error.                                            *)
BreakOff(c) ==
  /\ pc[c] = "saved"
  /\ ~ deleted
  /\ Stale(c)
  /\ runs' = [runs EXCEPT ![Own(c)] = Labelled(c, @)]
  /\ pc' = [pc EXCEPT ![c] = "failed"]
  /\ UNCHANGED <<deleted, facts, read, asked, iteration, matched, base, answer>>

(* Fault: cases that cannot be stored are passed over.                     *)
CommitRefusedQuietly(c) ==
  \/ pc[c] \in AtWork /\ deleted /\ Fail(c)
  \/ /\ pc[c] = "matched" /\ ~ deleted /\ matched[c] \notin {-1, facts}
     /\ pc' = [pc EXCEPT ![c] = "saved"]
     /\ UNCHANGED <<dbVars, read, asked, iteration, matched, base, answer>>

(* Fault: only a deletion is noticed.                                      *)
CommitRefusedOnDeletion(c) == pc[c] \in AtWork /\ deleted /\ Fail(c)

(* A commit that refers to rows that are gone is refused, and with it the  *)
(* call; what it committed before stays.                                   *)
CommitRefused(c) ==
  /\ \/ pc[c] \in AtWork /\ deleted
     \/ pc[c] = "matched" /\ matched[c] \notin {-1, facts}
  /\ Fail(c)
------------------------------------------------------------------------------
(* A re-analysis replaces the entities, unless test cases refer to them.   *)
Reanalyse ==
  /\ ~ deleted
  /\ facts < MaxAnalyses
  /\ \A i \in DOMAIN runs : runs[i].linked # facts
  /\ facts' = facts + 1
  /\ UNCHANGED <<deleted, runs, pc, read, asked, iteration, matched, base, answer>>

(* delete_repository deletes the cases and the runs with the repository.   *)
DeleteRepository ==
  /\ ~ deleted
  /\ deleted' = TRUE
  /\ runs' = <<>>
  /\ UNCHANGED <<facts, pc, read, asked, iteration, matched, base, answer>>

Restart ==
  /\ MayCrash
  /\ \E c \in Calls : pc[c] \in AtWork
  /\ pc' = [c \in Calls |-> IF pc[c] \in AtWork THEN "dead" ELSE pc[c]]
  /\ UNCHANGED <<dbVars, read, asked, iteration, matched, base, answer>>

CallStep(c) ==
  \/ StartGeneration(c) \/ StartRepair(c) \/ NotFound(c)
  \/ Measure(c) \/ MatchCases(c) \/ StoreCases(c) \/ Finish(c) \/ BreakOff(c)
  \/ CommitRefused(c)

Next ==
  \/ \E c \in Calls : CallStep(c)
  \/ Reanalyse \/ DeleteRepository \/ Restart

Spec == Init /\ [][Next]_vars

(* Every statement, LLM call and sandbox run of a call ends or times out.  *)
Fairness == \A c \in Calls : WF_vars(CallStep(c))

FairSpec == Spec /\ Fairness
------------------------------------------------------------------------------
Made(c) == {i \in DOMAIN runs : runs[i].by = c}

(* The loop stops for one of its two reasons only: the run it returns has  *)
(* met the caller's target, or the caller's budget is spent, and then all  *)
(* of it: a baseline counts as the first iteration, whoever made it.       *)
StopsForAReason ==
  \A c \in Repairs : pc[c] = "answered" =>
    \/ answer[c].coverage >= asked[c].target
    \/ asked[c].budget = 1
    \/ answer[c].by = c /\ answer[c].iteration = asked[c].budget

(* docs/07-task-breakdown.md:52, the "configurable budget": no call makes  *)
(* more runs than its budget, the run that stands in for a missing         *)
(* baseline included.                                                      *)
BudgetIsKept ==
  \A c \in Repairs : Cardinality(Made(c)) <= asked[c].budget

(* The loop stops in time and for a reason: not before its target or its   *)
(* budget, and not after it (test_generator.py:512-590).                   *)
StopsInTime == StopsForAReason /\ BudgetIsKept

(* What a call returns of its own runs is what is stored: its cases are    *)
(* there, and once it has answered nobody rewrites the run.                *)
AnswerIsStored ==
  \A c \in Calls : pc[c] = "answered" /\ answer[c].by = c /\ ~ deleted =>
    /\ answer[c].cases
    /\ \E i \in DOMAIN runs : runs[i] = answer[c]

(* A run without its cases is one whose call is still at it, or has broken *)
(* off: an answered call leaves none behind, in any iteration.             *)
RunsAreWholeOrAbandoned ==
  \A i \in DOMAIN runs : ~ runs[i].cases =>
    /\ pc[runs[i].by] \in {"inserted", "matched", "failed", "dead"}
    /\ i = Own(runs[i].by)

(* A test case that refers to an entity refers to one that is stored,      *)
(* though analyses replace the entities between a look-up and the commit.  *)
LinksResolve == \A i \in DOMAIN runs : runs[i].linked \in {-1, facts}

(* Calls still at work when a repository is deleted leave no run behind.   *)
NothingSurvivesDelete == deleted => runs = <<>>

(* What is stored is sound between any two commits of the calls, of an     *)
(* analysis and of a deletion: runs are whole or abandoned, their cases    *)
(* refer to what is there, and a deletion leaves none                      *)
(* (sandbox_runner.py:355-379).                                            *)
RowsAreSound ==
  TypeOK /\ RunsAreWholeOrAbandoned /\ LinksResolve /\ NothingSurvivesDelete

(* What was measured stays as it was measured: a stored run changes only   *)
(* while the call that made it is at it, its last one, and then in its     *)
(* labels and cases only, until the repository is deleted                  *)
(* (test_generator.py:565-590, sandbox_runner.py:355-379).                 *)
MeasurementsStay ==
  [][~ deleted' => \A i \in DOMAIN runs :
       /\ i \in DOMAIN runs'
       /\ runs'[i].by = runs[i].by
       /\ runs'[i].coverage = runs[i].coverage /\ runs'[i].passed = runs[i].passed
       /\ runs'[i] # runs[i] =>
            pc[runs[i].by] \in {"matched", "saved"} /\ i = Own(runs[i].by)]_vars

(* docs/07-task-breakdown.md:52, "reruns, raises coverage": a repair never *)
(* returns a run of less coverage than the one it started from.            *)
RepairRaisesCoverage ==
  \A c \in Repairs : pc[c] = "answered" => answer[c].coverage >= base[c]

(* docs/03-data-model.md:139, target_reached is "line_coverage > 60".      *)
ReachedIsTheDefaultTarget ==
  \A i \in DOMAIN runs : runs[i].reached => runs[i].coverage > DefaultTarget

(* Every call that was made ends.                                          *)
EveryCallEnds ==
  \A c \in Calls : pc[c] \in AtWork ~> pc[c] \in {"answered", "failed", "dead"}
==============================================================================
