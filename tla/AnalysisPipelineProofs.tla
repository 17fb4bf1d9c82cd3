----------------------- MODULE AnalysisPipelineProofs ------------------------
(***************************************************************************)
(* Theorems of AnalysisPipeline and PipelineWithSummaries, for any set of  *)
(* calls, with or without restarts: the invariants their runs check on     *)
(* three calls, that a final status stays, and that the pipeline           *)
(* implements AnalysisJob.                                                 *)
(*                                                                         *)
(* None of the invariants is inductive by itself.  IInv is: it says who    *)
(* holds the row lock, that the latest row is the one row in progress and  *)
(* belongs to the one call that is still being worked for, and what stages *)
(* and results that row has at each point of its task.  From a state that  *)
(* satisfies it a step of the pipeline either leaves the mapped state of   *)
(* AnalysisJob alone or is the one step of it named in its case.           *)
(***************************************************************************)
EXTENDS PipelineWithSummaries, TLAPS

(* The first n stages are done, and the next one is pending, or running.   *)
Done(n)    == [s \in Stages |-> IF Rank(s) <= n THEN "done" ELSE "pending"]
Running(n) == [s \in Stages |-> IF Rank(s) <= n THEN "done"
                                ELSE IF Rank(s) = n + 1 THEN "running"
                                ELSE "pending"]

(* The stages of its row when a task is at pc.                             *)
StagesAt(pc) ==
  CASE pc \in {"enqueued", "picked", "begun"}                -> Done(0)
    [] pc = "uploaded"                                       -> Done(1)
    [] pc = "scanned"                                        -> Done(2)
    [] pc \in {"parsing", "rooted", "parsed"}                -> Running(2)
    [] pc = "merging"                                        -> Done(3)
    [] pc \in {"aggregating", "cleared", "stored"}           -> Running(3)
    [] pc = "aggregated"                                     -> Done(4)
    [] pc \in {"graphed", "analyzing"}                       -> Done(5)
    [] pc \in {"indexing", "dropped", "embedded"}            -> Running(5)
    [] pc = "indexed"                                        -> Done(6)

(* What a failed row may show.                                             *)
FailedStages ==
  {Done(0),
   WithStage(Running(2), "parsing", "error"),
   WithStage(Running(3), "aggregating", "error"),
   WithStage(Running(5), "aggregating", "error"),
   WithStage(Running(5), "index", "error")}

(* Stages advanced in order.                                               *)
Ordered(st) == \E n \in 0..6 : st \in {Running(n), Done(n)}

(* A call somebody is still working for.                                   *)
Busy(t) == Live(t) \/ request[t] = "inserted"

(* A task at work has a row.  (Without this, what it stores is no row's.)  *)
Targeted == \A t \in Requests : task[t] \in WorkingPCs => target[t] \in Rows

(* The row lock is held by the call between its SELECT FOR UPDATE and the  *)
(* end of its transaction, so what that call saw still holds.              *)
LockInv ==
  /\ \A r \in Requests : request[r] \in {"locked", "clear"} <=> lock = r
  /\ lock # None => repository # "deleted"
  /\ \A r \in Requests :
       request[r] = "clear" /\ latest # None => ~ InProgress(latest)

RowInv ==
  /\ \A r \in Rows : InProgress(r) => r = latest
  /\ latest # None => status[latest] # "absent"
  /\ latest = None /\ repository # "deleted" => repository = "uploaded"
  /\ \A r \in Requests : request[r] \in {"idle", "locked", "clear"} => status[r] = "absent"

(* One call at most is being worked for; the latest row is its row.        *)
BusyInv ==
  /\ \A t, u \in Requests : Busy(t) /\ Busy(u) => t = u
  /\ \A t \in Requests : task[t] # "none" => request[t] = "answered"
  /\ \A t \in Requests : Live(t) /\ task[t] # "enqueued" /\ repository # "deleted" => target[t] = t
  /\ repository # "deleted" => \A t \in Requests : Busy(t) =>
       /\ latest = t
       /\ request[t] = "inserted" \/ task[t] \in {"enqueued", "picked"} => status[t] = "queued"
       /\ Live(t) /\ task[t] \notin {"enqueued", "picked"} => status[t] = "running"

(* The stages of a row in progress, and of the row of a task at work.      *)
StagesInv ==
  /\ \A r \in Rows : InProgress(r) => Ordered(stages[r])
  /\ repository # "deleted" => \A t \in Requests :
       /\ request[t] = "inserted" => stages[t] = Done(0)
       /\ Live(t) /\ task[t] # "failing" => stages[t] = StagesAt(task[t])
       /\ task[t] = "failing" => WithStage(stages[t], cause[t], "error") \in FailedStages
  /\ \A r \in Rows : status[r] = "failed" => stages[r] \in FailedStages

(* The facts and chunks stored at each point of a task, and after it.      *)
ResultsInv ==
  /\ repository # "deleted" => \A t \in Requests :
       /\ task[t] = "cleared" => facts = {} /\ chunks = {}
       /\ task[t] \in {"stored", "aggregated", "graphed", "analyzing", "indexing", "dropped"} =>
            facts = {t} /\ chunks = {}
       /\ task[t] \in {"embedded", "indexed"} => facts = {t} /\ chunks = {t}
  /\ latest # None /\ status[latest] = "completed" =>
       stages[latest] = Done(6) /\ facts = {latest} /\ chunks = {latest}

(* All but the types.                                                      *)
Safe ==
  /\ LockInv /\ RowInv /\ BusyInv /\ StagesInv /\ ResultsInv
  /\ StatusesAgree /\ ReferencesResolve /\ NothingSurvivesDelete

(* The inductive invariant.                                                *)
IInv == TypeOK /\ Targeted /\ Safe
------------------------------------------------------------------------------
(* The stages.                                                             *)

(* The stages are numbered 1 to 6.                                         *)
LEMMA RankValues ==
  /\ Rank("uploaded") = 1 /\ Rank("scanned") = 2 /\ Rank("parsing") = 3
  /\ Rank("aggregating") = 4 /\ Rank("graph") = 5 /\ Rank("index") = 6
BY DEF Rank

(* Different stages have different numbers.                                *)
LEMMA RankInjective ==
  /\ \A s \in Stages : Rank(s) \in 1..6
  /\ \A s, e \in Stages : Rank(s) = Rank(e) => s = e
<1>1. \A s \in Stages : Rank(s) \in 1..6
  BY RankValues DEF Stages
<1>2. ASSUME NEW s \in Stages, NEW e \in Stages, s # e
      PROVE  Rank(s) # Rank(e)
  <2>1. CASE s = "uploaded"
    BY <1>2, <2>1, RankValues DEF Stages
  <2>2. CASE s = "scanned"
    BY <1>2, <2>2, RankValues DEF Stages
  <2>3. CASE s = "parsing"
    BY <1>2, <2>3, RankValues DEF Stages
  <2>4. CASE s = "aggregating"
    BY <1>2, <2>4, RankValues DEF Stages
  <2>5. CASE s = "graph"
    BY <1>2, <2>5, RankValues DEF Stages
  <2>6. CASE s = "index"
    BY <1>2, <2>6, RankValues DEF Stages
  <2> QED BY <2>1, <2>2, <2>3, <2>4, <2>5, <2>6 DEF Stages
<1> QED BY <1>1, <1>2

(* Both are values of pipeline_state, and never the column's default.      *)
LEMMA StagesType ==
  ASSUME NEW n \in 0..6
  PROVE  /\ Done(n) \in [Stages -> StageStates] /\ Done(n) # NoStages
         /\ Running(n) \in [Stages -> StageStates] /\ Running(n) # NoStages
<1>1. Done(n) \in [Stages -> StageStates] /\ Running(n) \in [Stages -> StageStates]
  BY DEF Done, Running, StageStates
<1>2. /\ Done(n)["uploaded"] # "absent" /\ Running(n)["uploaded"] # "absent"
      /\ NoStages["uploaded"] = "absent"
  BY DEF Done, Running, Stages, NoStages
<1> QED BY <1>1, <1>2

(* set_stage and mark_failed keep pipeline_state a dictionary of stages.   *)
LEMMA WithStageType ==
  ASSUME NEW st \in [Stages -> StageStates], NEW s \in Stages, NEW state \in StageStates
  PROVE  WithStage(st, s, state) \in [Stages -> StageStates]
BY DEF WithStage, InitialStages, StageStates

(* The next stage starts.                                                  *)
LEMMA NextStageStarts ==
  ASSUME NEW s \in Stages, NEW n \in 0..5, Rank(s) = n + 1
  PROVE  WithStage(Done(n), s, "running") = Running(n)
<1>1. WithStage(Done(n), s, "running") = [Done(n) EXCEPT ![s] = "running"]
  BY StagesType DEF WithStage
<1>2. ASSUME NEW e \in Stages
      PROVE  [Done(n) EXCEPT ![s] = "running"][e] = Running(n)[e]
  BY RankInjective DEF Done, Running
<1> QED BY <1>1, <1>2 DEF Done, Running

(* A stage that has not been started, or is running, is done.              *)
LEMMA NextStageDone ==
  ASSUME NEW s \in Stages, NEW n \in 0..5, NEW m \in 1..6, m = n + 1, Rank(s) = m
  PROVE  /\ WithStage(Done(n), s, "done") = Done(m)
         /\ WithStage(Running(n), s, "done") = Done(m)
<1>1. /\ WithStage(Done(n), s, "done") = [Done(n) EXCEPT ![s] = "done"]
      /\ WithStage(Running(n), s, "done") = [Running(n) EXCEPT ![s] = "done"]
  BY StagesType DEF WithStage
<1>2. ASSUME NEW e \in Stages
      PROVE  /\ [Done(n) EXCEPT ![s] = "done"][e] = Done(m)[e]
             /\ [Running(n) EXCEPT ![s] = "done"][e] = Done(m)[e]
  BY RankInjective DEF Done, Running
<1> QED BY <1>1, <1>2 DEF Done, Running

(* StagesAt, point by point.                                               *)
LEMMA StagesAtValues ==
  /\ \A pc \in {"enqueued", "picked", "begun"}     : StagesAt(pc) = Done(0)
  /\ StagesAt("uploaded") = Done(1)
  /\ StagesAt("scanned") = Done(2)
  /\ \A pc \in {"parsing", "rooted", "parsed"}     : StagesAt(pc) = Running(2)
  /\ StagesAt("merging") = Done(3)
  /\ \A pc \in {"aggregating", "cleared", "stored"} : StagesAt(pc) = Running(3)
  /\ StagesAt("aggregated") = Done(4)
  /\ \A pc \in {"graphed", "analyzing"}            : StagesAt(pc) = Done(5)
  /\ \A pc \in {"indexing", "dropped", "embedded"} : StagesAt(pc) = Running(5)
  /\ StagesAt("indexed") = Done(6)
BY DEF StagesAt

(* Each stage transition of the task leads from the stages it should find  *)
(* to the stages the next one should find.                                 *)
LEMMA StageStepAdvances ==
  ASSUME NEW step \in StageSteps
  PROVE  /\ step.from \in WorkingPCs \ {"picked", "failing"}
         /\ step.to \in WorkingPCs \ {"picked", "failing"}
         /\ step.stage \in Stages /\ step.state \in StageStates
         /\ WithStage(StagesAt(step.from), step.stage, step.state) = StagesAt(step.to)
<1>1. /\ step.from \in WorkingPCs \ {"picked", "failing"}
      /\ step.to \in WorkingPCs \ {"picked", "failing"}
      /\ step.stage \in Stages /\ step.state \in StageStates
  BY DEF StageSteps, WorkingPCs, Stages, StageStates
<1>2. /\ WithStage(Done(0), "uploaded", "done") = Done(1)
      /\ WithStage(Done(1), "scanned", "done") = Done(2)
      /\ WithStage(Running(2), "parsing", "done") = Done(3)
      /\ WithStage(Running(3), "aggregating", "done") = Done(4)
      /\ WithStage(Done(4), "graph", "done") = Done(5)
      /\ WithStage(Running(5), "index", "done") = Done(6)
  <2>1. WithStage(Done(0), "uploaded", "done") = Done(1)
    BY RankValues, NextStageDone DEF Stages
  <2>2. WithStage(Done(1), "scanned", "done") = Done(2)
    BY RankValues, NextStageDone DEF Stages
  <2>3. WithStage(Running(2), "parsing", "done") = Done(3)
    BY RankValues, NextStageDone DEF Stages
  <2>4. WithStage(Running(3), "aggregating", "done") = Done(4)
    BY RankValues, NextStageDone DEF Stages
  <2>5. WithStage(Done(4), "graph", "done") = Done(5)
    BY RankValues, NextStageDone DEF Stages
  <2>6. WithStage(Running(5), "index", "done") = Done(6)
    BY RankValues, NextStageDone DEF Stages
  <2> QED BY <2>1, <2>2, <2>3, <2>4, <2>5, <2>6
<1>3. /\ WithStage(Done(2), "parsing", "running") = Running(2)
      /\ WithStage(Done(3), "aggregating", "running") = Running(3)
      /\ WithStage(Done(5), "index", "running") = Running(5)
  <2>1. WithStage(Done(2), "parsing", "running") = Running(2)
    BY RankValues, NextStageStarts DEF Stages
  <2>2. WithStage(Done(3), "aggregating", "running") = Running(3)
    BY RankValues, NextStageStarts DEF Stages
  <2>3. WithStage(Done(5), "index", "running") = Running(5)
    BY RankValues, NextStageStarts DEF Stages
  <2> QED BY <2>1, <2>2, <2>3
<1>4. /\ StagesAt("begun") = Done(0) /\ StagesAt("uploaded") = Done(1)
      /\ StagesAt("scanned") = Done(2)
      /\ StagesAt("parsing") = Running(2) /\ StagesAt("parsed") = Running(2)
      /\ StagesAt("merging") = Done(3)
      /\ StagesAt("aggregating") = Running(3) /\ StagesAt("stored") = Running(3)
      /\ StagesAt("aggregated") = Done(4)
      /\ StagesAt("graphed") = Done(5) /\ StagesAt("analyzing") = Done(5)
      /\ StagesAt("indexing") = Running(5) /\ StagesAt("embedded") = Running(5)
      /\ StagesAt("indexed") = Done(6)
  BY StagesAtValues
<1> QED BY <1>1, <1>2, <1>3, <1>4 DEF StageSteps

(* Whatever the task is at, its stages are in order.                       *)
LEMMA StagesAtOrdered ==
  ASSUME NEW pc \in LivePCs \ {"failing"}
  PROVE  Ordered(StagesAt(pc)) /\ StagesAt(pc) \in [Stages -> StageStates]
<1>1. \A n \in 0..6 : /\ Ordered(Running(n)) /\ Ordered(Done(n))
                      /\ Running(n) \in [Stages -> StageStates]
                      /\ Done(n) \in [Stages -> StageStates]
  BY StagesType DEF Ordered
<1> QED BY <1>1, StagesAtValues DEF LivePCs, WorkingPCs

(* The new row's stages.                                                   *)
LEMMA InitialStagesDone == InitialStages = Done(0)
BY RankInjective DEF InitialStages, Done
------------------------------------------------------------------------------
(* Types.                                                                  *)

(* The program counters a task goes to are program counters.               *)
LEMMA GotoType ==
  ASSUME TypeOK, NEW t \in Requests, NEW pc \in TaskPCs, Goto(t, pc)
  PROVE  task' \in [Requests -> TaskPCs]
BY DEF TypeOK, Goto

(* A step of start_analysis keeps every variable in its type.              *)
LEMMA StartStepType ==
  ASSUME TypeOK, Targeted, NEW r \in Requests, StartStep(r)
  PROVE  TypeOK' /\ Targeted'
<1>1. CASE StartLock(r)
  BY <1>1 DEF TypeOK, Targeted, StartLock, dbVars, taskVars, RequestPCs
<1>2. CASE StartCheck(r)
  BY <1>2 DEF TypeOK, Targeted, StartCheck, dbVars, taskVars, RequestPCs
<1>3. CASE StartInsert(r)
  BY <1>3, RowsAssumption DEF TypeOK, Targeted, StartInsert, dbVars, taskVars,
     RequestPCs, RowStatus, InitialStages, StageStates
<1>4. CASE StartEnqueue(r)
  BY <1>4 DEF TypeOK, Targeted, StartEnqueue, dbVars, taskVars, RequestPCs,
     TaskPCs, LivePCs, WorkingPCs
<1>5. CASE StartUnavailable(r)
  BY <1>5 DEF TypeOK, Targeted, StartUnavailable, dbVars, taskVars, RequestPCs,
     RowStatus, RepositoryStatus
<1> QED BY <1>1, <1>2, <1>3, <1>4, <1>5 DEF StartStep

(* A step of the background task keeps every variable in its type.         *)
LEMMA TaskStepType ==
  ASSUME TypeOK, Targeted, NEW t \in Requests, TaskStep(t)
  PROVE  TypeOK' /\ Targeted'
<1>1. CASE PickLatest(t) /\ status[latest] # "running"
  BY <1>1 DEF TypeOK, Targeted, PickLatest, Goto, dbVars, TaskPCs, LivePCs,
     WorkingPCs
<1>2. CASE PickLatest(t) /\ status[latest] = "running"
  BY <1>2 DEF TypeOK, Targeted, PickLatest, Goto, dbVars, TaskPCs, LivePCs,
     WorkingPCs
<1>3. CASE BeginRun(t)
  BY <1>3 DEF TypeOK, Targeted, BeginRun, Goto, dbVars, TaskPCs, LivePCs,
     WorkingPCs, RowStatus, RepositoryStatus
<1>4. CASE SetStage(t)
  <2>1. PICK step \in StageSteps :
          /\ stages' = [stages EXCEPT ![target[t]] = WithStage(@, step.stage, step.state)]
          /\ Goto(t, step.to)
    BY <1>4 DEF SetStage
  <2>2. stages' \in [Rows -> [Stages -> StageStates]]
    BY <2>1, StageStepAdvances, WithStageType DEF TypeOK
  <2>3. task' \in [Requests -> TaskPCs]
    BY <2>1, StageStepAdvances, GotoType DEF TaskPCs, LivePCs
  <2>4. Targeted'
    BY <1>4, <2>1, StageStepAdvances DEF TypeOK, Targeted, SetStage, Goto,
       WorkingPCs
  <2> QED BY <1>4, <2>2, <2>3, <2>4 DEF TypeOK, SetStage
<1>5. CASE LocateRoot(t)
  BY <1>5 DEF TypeOK, Targeted, LocateRoot, Goto, dbVars, TaskPCs, LivePCs,
     WorkingPCs
<1>6. CASE ParseFiles(t)
  BY <1>6 DEF TypeOK, Targeted, ParseFiles, Goto, dbVars, TaskPCs, LivePCs,
     WorkingPCs
<1>7. CASE ParseFails(t)
  BY <1>7 DEF TypeOK, Targeted, ParseFails, Goto, dbVars, TaskPCs, LivePCs,
     WorkingPCs, Raise, Stages
<1>8. CASE ClearFacts(t)
  BY <1>8 DEF TypeOK, Targeted, ClearFacts, Goto, dbVars, TaskPCs, LivePCs,
     WorkingPCs, Raise, Stages
<1>9. CASE StoreFacts(t)
  BY <1>9 DEF TypeOK, Targeted, StoreFacts, Goto, dbVars, TaskPCs, LivePCs,
     WorkingPCs
<1>10. CASE StoreFails(t)
  BY <1>10 DEF TypeOK, Targeted, StoreFails, Goto, dbVars, TaskPCs, LivePCs,
     WorkingPCs, Raise, Stages
<1>11. CASE MarkAnalyzing(t)
  BY <1>11 DEF TypeOK, Targeted, MarkAnalyzing, Goto, dbVars, TaskPCs, LivePCs,
     WorkingPCs, RowStatus, RepositoryStatus
<1>12. CASE DropChunks(t)
  BY <1>12 DEF TypeOK, Targeted, DropChunks, Goto, dbVars, TaskPCs, LivePCs,
     WorkingPCs
<1>13. CASE StoreChunks(t)
  BY <1>13 DEF TypeOK, Targeted, StoreChunks, Goto, dbVars, TaskPCs, LivePCs,
     WorkingPCs
<1>14. CASE IndexFails(t)
  BY <1>14 DEF TypeOK, Targeted, IndexFails, Goto, dbVars, TaskPCs, LivePCs,
     WorkingPCs, Raise, Stages
<1>15. CASE Complete(t)
  BY <1>15 DEF TypeOK, Targeted, Complete, Goto, dbVars, TaskPCs, LivePCs,
     WorkingPCs, RowStatus, RepositoryStatus
<1>16. CASE MarkFailed(t)
  <2>1. stages' \in [Rows -> [Stages -> StageStates]]
    BY <1>16, WithStageType DEF MarkFailed, FailRow, TypeOK, StageStates
  <2> QED BY <1>16, <2>1 DEF TypeOK, Targeted, MarkFailed, FailRow, Goto,
     TaskPCs, RowStatus, RepositoryStatus
<1>17. CASE AbandonDeleted(t)
  BY <1>17 DEF TypeOK, Targeted, AbandonDeleted, Goto, dbVars, TaskPCs,
     LivePCs, WorkingPCs
<1> QED
  BY <1>1, <1>2, <1>3, <1>4, <1>5, <1>6, <1>7, <1>8, <1>9, <1>10, <1>11, <1>12,
     <1>13, <1>14, <1>15, <1>16, <1>17 DEF TaskStep

(* So do references, deletions and restarts.                               *)
LEMMA EnvironmentType ==
  ASSUME TypeOK, Targeted, Environment
  PROVE  TypeOK' /\ Targeted'
<1>1. CASE AddReference
  BY <1>1 DEF TypeOK, Targeted, AddReference, taskVars
<1>2. CASE DeleteRepository
  BY <1>2 DEF TypeOK, Targeted, DeleteRepository, taskVars, RepositoryStatus,
     RowStatus, NoStages, StageStates
<1>3. CASE RemoveUploads
  BY <1>3 DEF TypeOK, Targeted, RemoveUploads, dbVars, taskVars
<1>4. CASE Restart
  <2>1. request' \in [Requests -> RequestPCs]
    BY <1>4 DEF TypeOK, Restart, RequestPCs
  <2>2. task' \in [Requests -> TaskPCs]
    BY <1>4 DEF TypeOK, Restart, TaskPCs
  <2>3. uploads' \in BOOLEAN
    BY <1>4, SwitchesAssumption DEF TypeOK, Restart
  <2>4. Targeted'
    BY <1>4 DEF TypeOK, Targeted, Restart, Live, LivePCs, WorkingPCs
  <2> QED BY <1>4, <2>1, <2>2, <2>3, <2>4 DEF TypeOK, Restart, dbVars
<1> QED BY <1>1, <1>2, <1>3, <1>4 DEF Environment

(* Every variable keeps its type: for any set of calls, every status,      *)
(* stage and program counter the code stores is one the code knows.        *)
THEOREM TypeCorrect == Spec => []TypeOK
<1>1. Init => TypeOK /\ Targeted
  BY DEF Init, TypeOK, Targeted, RepositoryStatus, RowStatus, NoStages, Stages,
     StageStates, RequestPCs, TaskPCs, WorkingPCs
<1>2. TypeOK /\ Targeted /\ [Next]_vars => TypeOK' /\ Targeted'
  <2>1. ASSUME TypeOK, Targeted, Next PROVE TypeOK' /\ Targeted'
    BY <2>1, StartStepType, TaskStepType, EnvironmentType DEF Next
  <2>2. ASSUME TypeOK, Targeted, UNCHANGED vars PROVE TypeOK' /\ Targeted'
    BY <2>2 DEF TypeOK, Targeted, vars
  <2> QED BY <2>1, <2>2
<1> QED BY <1>1, <1>2, PTL DEF Spec

------------------------------------------------------------------------------
(* The steps.  In each case the conjuncts that the action can disturb have *)
(* a step of their own; the last step holds the ones it leaves alone.      *)

(* A step of start_analysis preserves the invariant.                       *)
LEMMA StartStepSafe ==
  ASSUME IInv, NEW r \in Requests, StartStep(r)
  PROVE  Safe'
<1>1. CASE StartLock(r)
  <2>1. LockInv'
    BY <1>1, RowsAssumption DEF IInv, Safe, TypeOK, LockInv, StartLock,
       RowFree, dbVars
  <2>2. RowInv'
    BY <1>1 DEF IInv, Safe, TypeOK, RowInv, StartLock, dbVars, InProgress
  <2>3. BusyInv'
    BY <1>1 DEF IInv, Safe, TypeOK, BusyInv, StartLock, dbVars, taskVars, Busy,
       Live
  <2>4. StagesInv'
    BY <1>1 DEF IInv, Safe, TypeOK, StagesInv, StartLock, dbVars, taskVars,
       InProgress, Live
  <2>5. ResultsInv' /\ StatusesAgree' /\ ReferencesResolve' /\ NothingSurvivesDelete'
    BY <1>1 DEF IInv, Safe, ResultsInv, StartLock, dbVars, taskVars,
       StatusesAgree, ReferencesResolve, NothingSurvivesDelete
  <2> QED BY <2>1, <2>2, <2>3, <2>4, <2>5 DEF Safe
<1>2. CASE StartCheck(r)
  <2>1. LockInv'
    BY <1>2, RowsAssumption DEF IInv, Safe, TypeOK, LockInv, StartCheck,
       InProgress, dbVars
  <2>2. RowInv'
    BY <1>2 DEF IInv, Safe, TypeOK, RowInv, StartCheck, InProgress, dbVars
  <2>3. BusyInv'
    BY <1>2 DEF IInv, Safe, TypeOK, BusyInv, StartCheck, dbVars, taskVars,
       Busy, Live
  <2>4. StagesInv'
    BY <1>2 DEF IInv, Safe, TypeOK, StagesInv, StartCheck, InProgress, dbVars,
       taskVars, Live
  <2>5. ResultsInv' /\ StatusesAgree' /\ ReferencesResolve' /\ NothingSurvivesDelete'
    BY <1>2 DEF IInv, Safe, ResultsInv, StartCheck, dbVars, taskVars,
       StatusesAgree, ReferencesResolve, NothingSurvivesDelete
  <2> QED BY <2>1, <2>2, <2>3, <2>4, <2>5 DEF Safe
<1>3. CASE StartInsert(r)
  <2>1. LockInv'
    BY <1>3, RowsAssumption DEF IInv, Safe, TypeOK, LockInv, StartInsert
  <2>2. RowInv'
    BY <1>3, RowsAssumption DEF IInv, Safe, TypeOK, LockInv, RowInv,
       StartInsert, InProgress
  <2>3. BusyInv'
    BY <1>3, RowsAssumption DEF IInv, Safe, TypeOK, BusyInv, LockInv,
       StartInsert, taskVars, InProgress, Busy, Live
  <2>4. StagesInv'
    BY <1>3, RowsAssumption, InitialStagesDone, StagesAtValues, StagesAtOrdered
       DEF IInv, Safe, TypeOK, StagesInv, BusyInv, StartInsert, taskVars,
       InProgress, Live, LivePCs, WorkingPCs, TaskPCs, RequestPCs
  <2>5. ResultsInv'
    BY <1>3 DEF IInv, Safe, ResultsInv, RowInv, StartInsert, taskVars
  <2>6. StatusesAgree'
    BY <1>3, RowsAssumption DEF IInv, Safe, TypeOK, InProgress, StatusesAgree,
       RowInv, LockInv, StartInsert
  <2>7. NothingSurvivesDelete'
    BY <1>3, RowsAssumption DEF IInv, Safe, NothingSurvivesDelete, LockInv,
       StartInsert
  <2>8. ReferencesResolve'
    BY <1>3 DEF IInv, Safe, ReferencesResolve, StartInsert, taskVars
  <2> QED BY <2>1, <2>2, <2>3, <2>4, <2>5, <2>6, <2>7, <2>8 DEF Safe
<1>4. CASE StartEnqueue(r)
  <2>1. BusyInv'
    <3>1. task[r] = "none" /\ Busy(r)
      BY <1>4, RowsAssumption DEF IInv, Safe, TypeOK, Goto, RowFree, Busy,
         BusyInv, StartEnqueue
    <3>2. \A t \in Requests : Busy(t)' => t = r
      BY <1>4, RowsAssumption, <3>1 DEF IInv, Safe, TypeOK, Goto, RowFree,
         Busy, Live, BusyInv, StartEnqueue
    <3>3. repository # "deleted" => latest = r /\ status[r] = "queued"
      BY <1>4, <3>1 DEF IInv, Safe, BusyInv, StartEnqueue
    <3>4. \A t \in Requests : t # r => ~ Live(t)'
      BY <1>4, RowsAssumption, <3>2 DEF IInv, Safe, TypeOK, Goto, RowFree, Busy
    <3> QED BY <1>4, <3>1, <3>2, <3>3, <3>4 DEF IInv, Safe, TypeOK, dbVars,
       BusyInv, StartEnqueue
  <2>2. StagesInv'
    BY <1>4, StagesAtValues DEF IInv, Safe, TypeOK, StagesInv, StartEnqueue,
       dbVars, InProgress, Live
  <2>3. ResultsInv'
    <3>1. \A t \in Requests : task'[t] = task[t] \/ task'[t] = "enqueued"
      BY <1>4 DEF IInv, Safe, TypeOK, StartEnqueue
    <3> QED BY <1>4, <3>1 DEF IInv, Safe, ResultsInv, StartEnqueue, dbVars
  <2>4. LockInv' /\ RowInv' /\ StatusesAgree' /\ ReferencesResolve' /\ NothingSurvivesDelete'
    BY <1>4 DEF IInv, Safe, LockInv, StartEnqueue, dbVars, InProgress, RowInv,
       StatusesAgree, ReferencesResolve, NothingSurvivesDelete
  <2> QED BY <2>1, <2>2, <2>3, <2>4 DEF Safe
<1>5. CASE StartUnavailable(r)
  <2>1. RowInv'
    BY <1>5 DEF IInv, Safe, LockInv, RowInv, BusyInv, StartUnavailable,
       RowFree, InProgress, Busy
  <2>2. BusyInv'
    BY <1>5 DEF IInv, Safe, TypeOK, BusyInv, StartUnavailable, taskVars, Busy,
       Live
  <2>3. StagesInv'
    BY <1>5 DEF IInv, Safe, Live, InProgress, taskVars, StagesInv,
       StartUnavailable, FailedStages
  <2>4. StatusesAgree'
    BY <1>5 DEF IInv, Safe, StatusesAgree, BusyInv, StartUnavailable, Busy
  <2>5. LockInv' /\ ResultsInv' /\ ReferencesResolve' /\ NothingSurvivesDelete'
    BY <1>5 DEF IInv, Safe, LockInv, StartUnavailable, taskVars, InProgress,
       ResultsInv, ReferencesResolve, NothingSurvivesDelete
  <2> QED BY <2>1, <2>2, <2>3, <2>4, <2>5 DEF Safe
<1> QED BY <1>1, <1>2, <1>3, <1>4, <1>5 DEF StartStep

(* A step of the background task preserves the invariant.                  *)
LEMMA TaskStepSafe ==
  ASSUME IInv, NEW t \in Requests, TaskStep(t)
  PROVE  Safe'
<1>1. CASE PickLatest(t) /\ status[latest] # "running"
  <2>0. /\ task[t] = "enqueued" /\ latest # None
        /\ task' = [task EXCEPT ![t] = "picked"] /\ target' = [target EXCEPT ![t] = latest]
        /\ UNCHANGED <<dbVars, uploads, lock, request, cause>>
    BY <1>1 DEF PickLatest, Goto
  <2>1. BusyInv'
    BY <1>1, <2>0 DEF dbVars, IInv, Safe, TypeOK, BusyInv, Busy,
       Live, LivePCs
  <2>2. StagesInv'
    BY <1>1, <2>0, StagesAtValues DEF dbVars, IInv, Safe, StagesInv, InProgress, Live, LivePCs
  <2>3. /\ LockInv' /\ RowInv' /\ ResultsInv' /\ StatusesAgree'
        /\ ReferencesResolve' /\ NothingSurvivesDelete'
    BY <1>1, <2>0 DEF dbVars, IInv, Safe, LockInv, InProgress,
       RowInv, ResultsInv, StatusesAgree, ReferencesResolve,
       NothingSurvivesDelete
  <2> QED BY <2>1, <2>2, <2>3 DEF Safe
<1>2. CASE PickLatest(t) /\ status[latest] = "running"
  <2>0. /\ task[t] = "enqueued" /\ latest # None
        /\ task' = [task EXCEPT ![t] = "ended"] /\ UNCHANGED target
        /\ UNCHANGED <<dbVars, uploads, lock, request, cause>>
    BY <1>2 DEF PickLatest, Goto
  <2>1. BusyInv'
    BY <1>2, <2>0 DEF dbVars, IInv, Safe, BusyInv, Busy, Live,
       LivePCs
  <2>2. StagesInv'
    BY <1>2, <2>0 DEF dbVars, IInv, Safe, StagesInv, InProgress,
       Live, LivePCs, WorkingPCs
  <2>3. /\ LockInv' /\ RowInv' /\ ResultsInv' /\ StatusesAgree'
        /\ ReferencesResolve' /\ NothingSurvivesDelete'
    BY <1>2, <2>0 DEF dbVars, IInv, Safe, LockInv, InProgress,
       RowInv, ResultsInv, StatusesAgree, ReferencesResolve,
       NothingSurvivesDelete
  <2> QED BY <2>1, <2>2, <2>3 DEF Safe
<1>3. CASE BeginRun(t)
  <2>1. LockInv'
    BY <1>3 DEF IInv, Safe, LockInv, BusyInv, BeginRun, InProgress, Busy, Live,
       LivePCs, WorkingPCs
  <2>2. RowInv'
    BY <1>3 DEF IInv, Safe, LockInv, RowInv, BusyInv, BeginRun, RowFree,
       InProgress, Busy, Live, LivePCs, WorkingPCs
  <2>3. BusyInv'
    BY <1>3 DEF IInv, Safe, TypeOK, BusyInv, LockInv, BeginRun, Goto, RowFree,
       Busy, Live, LivePCs, WorkingPCs
  <2>4. StagesInv'
    BY <1>3, StagesAtValues DEF IInv, Safe, StagesInv, BusyInv, BeginRun, Goto,
       InProgress, Busy, Live, LivePCs, WorkingPCs
  <2>5. StatusesAgree'
    BY <1>3 DEF IInv, Safe, TypeOK, StatusesAgree, BusyInv, BeginRun, Busy,
       Live, LivePCs, WorkingPCs
  <2>6. ResultsInv' /\ ReferencesResolve' /\ NothingSurvivesDelete'
    BY <1>3 DEF IInv, Safe, ResultsInv, BeginRun, Goto, ReferencesResolve,
       NothingSurvivesDelete
  <2> QED BY <2>1, <2>2, <2>3, <2>4, <2>5, <2>6 DEF Safe
<1>4. CASE SetStage(t)
  <2> PICK step \in StageSteps :
        /\ task[t] = step.from
        /\ stages' = [stages EXCEPT ![target[t]] = WithStage(@, step.stage, step.state)]
        /\ Goto(t, step.to)
    BY <1>4 DEF SetStage
  <2> step.from \in WorkingPCs \ {"picked", "failing"} /\ step.to \in WorkingPCs \ {"picked", "failing"}
    BY StageStepAdvances
  <2>a. target[t] = t /\ t \in Rows /\ stages[t] = StagesAt(step.from) /\ status[t] = "running" /\ latest = t
    BY <1>4, RowsAssumption DEF IInv, Safe, TypeOK, Busy, Live, WorkingPCs,
       TaskPCs, SetStage, StagesInv, BusyInv
  <2>b. stages'[t] = StagesAt(step.to) /\ Ordered(stages'[t])
    BY <2>a, StageStepAdvances, StagesAtOrdered DEF IInv, Safe, TypeOK, LivePCs
  <2>1. LockInv'
    BY <1>4 DEF IInv, Safe, LockInv, SetStage, InProgress
  <2>2. RowInv'
    BY <1>4 DEF IInv, Safe, RowInv, SetStage, InProgress
  <2>3. BusyInv'
    BY <1>4, <2>a DEF IInv, Safe, TypeOK, Goto, Busy, Live, WorkingPCs,
       BusyInv, SetStage
  <2>4. StagesInv'
    <3>1. \A r \in Rows : r # t => stages'[r] = stages[r]
      BY <2>a DEF IInv, Safe, TypeOK
    <3>2. \A u \in Requests : u # t => ~ Busy(u) /\ task'[u] = task[u]
      BY <1>4, <2>a DEF IInv, Safe, Goto, BusyInv, SetStage
    <3>3. task'[t] = step.to
      BY DEF IInv, Safe, TypeOK, Goto
    <3>4. request[t] = "answered"
      BY <1>4 DEF IInv, Safe, WorkingPCs, BusyInv
    <3>5. \A r \in Rows : status[r] = "failed" => r # t
      BY <2>a
    <3>6. \A r \in Rows : InProgress(r)' => Ordered(stages'[r])
      BY <1>4, <2>b, <3>1 DEF IInv, Safe, StagesInv, SetStage, InProgress
    <3>7. \A r \in Rows : status'[r] = "failed" => stages'[r] \in FailedStages
      BY <1>4, <3>1, <3>5 DEF IInv, Safe, StagesInv, SetStage
    <3>8. \A u \in Requests :
            /\ request'[u] = "inserted" => stages'[u] = Done(0)
            /\ Live(u)' /\ task'[u] # "failing" => stages'[u] = StagesAt(task'[u])
            /\ task'[u] = "failing" => WithStage(stages'[u], cause'[u], "error") \in FailedStages
      BY <1>4, <2>b, <3>2, <3>3, <3>4 DEF SetStage, Live, Busy, LivePCs,
         WorkingPCs
    <3> QED BY <3>6, <3>7, <3>8 DEF StagesInv
  <2>5. ResultsInv'
    <3>1. /\ step.to \notin {"cleared", "dropped", "stored"}
          /\ step.to \in {"aggregated", "graphed", "analyzing", "indexing"} =>
               step.from \in {"stored", "aggregated", "graphed", "analyzing", "indexing", "dropped"}
          /\ step.to \in {"embedded", "indexed"} => step.from \in {"embedded", "indexed"}
      BY DEF StageSteps
    <3>2. /\ task' = [task EXCEPT ![t] = step.to]
          /\ UNCHANGED <<repository, latest, status, facts, chunks>>
      BY <1>4 DEF SetStage, Goto
    <3>3. status'[latest'] # "completed"
      BY <2>a, <3>2
    <3>4. \A u \in Requests : u # t => task'[u] = task[u]
      BY <3>2 DEF IInv, Safe, TypeOK
    <3>5. task[t] = step.from /\ task'[t] = step.to
      BY <3>2 DEF IInv, Safe, TypeOK
    <3>6. repository # "deleted" => \A u \in Requests :
            /\ task'[u] = "cleared" => facts = {} /\ chunks = {}
            /\ task'[u] \in {"stored", "aggregated", "graphed", "analyzing", "indexing", "dropped"} =>
                 facts = {u} /\ chunks = {}
            /\ task'[u] \in {"embedded", "indexed"} => facts = {u} /\ chunks = {u}
      BY <3>1, <3>4, <3>5 DEF IInv, Safe, ResultsInv
    <3> QED BY <3>2, <3>3, <3>6 DEF ResultsInv
  <2>6. StatusesAgree'
    BY <1>4 DEF IInv, Safe, StatusesAgree, SetStage
  <2>7. ReferencesResolve' /\ NothingSurvivesDelete'
    BY <1>4 DEF IInv, Safe, ReferencesResolve, NothingSurvivesDelete, SetStage
  <2> QED BY <2>1, <2>2, <2>3, <2>4, <2>5, <2>6, <2>7 DEF Safe
<1>5. CASE LocateRoot(t)
  <2>1. BusyInv'
    BY <1>5 DEF IInv, Safe, BusyInv, LocateRoot, Goto, dbVars, Busy, Live,
       LivePCs, WorkingPCs
  <2>2. StagesInv'
    BY <1>5, StagesAtValues DEF IInv, Safe, StagesInv, LocateRoot, Goto,
       dbVars, InProgress, Live, LivePCs, WorkingPCs
  <2>3. /\ LockInv' /\ RowInv' /\ ResultsInv' /\ StatusesAgree'
        /\ ReferencesResolve' /\ NothingSurvivesDelete'
    BY <1>5 DEF IInv, Safe, LockInv, LocateRoot, Goto, dbVars, InProgress,
       RowInv, ResultsInv, StatusesAgree, ReferencesResolve,
       NothingSurvivesDelete
  <2> QED BY <2>1, <2>2, <2>3 DEF Safe
<1>6. CASE ParseFiles(t)
  <2>1. BusyInv'
    BY <1>6 DEF IInv, Safe, BusyInv, ParseFiles, Goto, dbVars, Busy, Live,
       LivePCs, WorkingPCs
  <2>2. StagesInv'
    BY <1>6, StagesAtValues DEF IInv, Safe, StagesInv, ParseFiles, Goto,
       dbVars, InProgress, Live, LivePCs, WorkingPCs
  <2>3. /\ LockInv' /\ RowInv' /\ ResultsInv' /\ StatusesAgree'
        /\ ReferencesResolve' /\ NothingSurvivesDelete'
    BY <1>6 DEF IInv, Safe, LockInv, ParseFiles, Goto, dbVars, InProgress,
       RowInv, ResultsInv, StatusesAgree, ReferencesResolve,
       NothingSurvivesDelete
  <2> QED BY <2>1, <2>2, <2>3 DEF Safe
<1>7. CASE ParseFails(t)
  <2>1. BusyInv'
    BY <1>7 DEF IInv, Safe, BusyInv, ParseFails, Raise, dbVars, Goto, Busy,
       Live, LivePCs, WorkingPCs
  <2>2. StagesInv'
    <3>1. repository # "deleted" => WithStage(stages[t], cause'[t], "error") \in FailedStages
      BY <1>7, StagesAtValues DEF IInv, Safe, TypeOK, Raise, Live, TaskPCs,
         StagesInv, FailedStages, ParseFails
    <3> QED BY <1>7, <3>1 DEF IInv, Safe, Goto, Raise, Live, InProgress,
       dbVars, StagesInv, ParseFails
  <2>3. /\ LockInv' /\ RowInv' /\ ResultsInv' /\ StatusesAgree'
        /\ ReferencesResolve' /\ NothingSurvivesDelete'
    BY <1>7 DEF IInv, Safe, LockInv, ParseFails, Raise, dbVars, Goto,
       InProgress, RowInv, ResultsInv, StatusesAgree, ReferencesResolve,
       NothingSurvivesDelete
  <2> QED BY <2>1, <2>2, <2>3 DEF Safe
<1>8. CASE ClearFacts(t)
  <2>1. BusyInv'
    <3>1. /\ task[t] = "aggregating" /\ task'[t] \in {"cleared", "failing"}
          /\ \A u \in Requests : u # t => task'[u] = task[u]
          /\ UNCHANGED <<repository, request, latest, status, target>>
      BY <1>8 DEF IInv, Safe, TypeOK, Goto, Raise, ClearFacts
    <3> QED BY <3>1 DEF IInv, Safe, TypeOK, Goto, RowFree, Busy, Live, TaskPCs,
       BusyInv
  <2>2. StagesInv'
    <3>1. stages[t] = Running(3) /\ StagesAt("cleared") = Running(3)
      BY <1>8, StagesAtValues DEF IInv, Safe, Live, LivePCs, WorkingPCs,
         StagesInv, ClearFacts
    <3>2. WithStage(Running(3), "aggregating", "error") \in FailedStages
      BY DEF FailedStages
    <3> QED BY <1>8, <3>1, <3>2 DEF IInv, Safe, TypeOK, Goto, Raise, Live,
       InProgress, StagesInv, ClearFacts
  <2>3. ResultsInv'
    BY <1>8 DEF IInv, Safe, TypeOK, ResultsInv, BusyInv, ClearFacts, Raise,
       Goto, Busy, Live, LivePCs, WorkingPCs
  <2>4. LockInv' /\ RowInv' /\ StatusesAgree' /\ ReferencesResolve' /\ NothingSurvivesDelete'
    BY <1>8 DEF IInv, Safe, LockInv, ClearFacts, InProgress, RowInv,
       StatusesAgree, ReferencesResolve, NothingSurvivesDelete
  <2> QED BY <2>1, <2>2, <2>3, <2>4 DEF Safe
<1>9. CASE StoreFacts(t)
  <2>1. BusyInv'
    BY <1>9 DEF IInv, Safe, BusyInv, StoreFacts, Goto, Busy, Live, LivePCs,
       WorkingPCs
  <2>2. StagesInv'
    BY <1>9, StagesAtValues DEF IInv, Safe, StagesInv, StoreFacts, Goto,
       InProgress, Live, LivePCs, WorkingPCs
  <2>3. ResultsInv'
    BY <1>9 DEF IInv, Safe, TypeOK, ResultsInv, BusyInv, StoreFacts, Goto,
       Busy, Live, LivePCs, WorkingPCs
  <2>4. LockInv' /\ RowInv' /\ StatusesAgree' /\ ReferencesResolve' /\ NothingSurvivesDelete'
    BY <1>9 DEF IInv, Safe, LockInv, StoreFacts, InProgress, RowInv,
       StatusesAgree, ReferencesResolve, NothingSurvivesDelete
  <2> QED BY <2>1, <2>2, <2>3, <2>4 DEF Safe
<1>10. CASE StoreFails(t)
  <2>1. BusyInv'
    BY <1>10 DEF IInv, Safe, BusyInv, StoreFails, Raise, dbVars, Goto, Busy,
       Live, LivePCs, WorkingPCs
  <2>2. StagesInv'
    <3>1. repository # "deleted" => WithStage(stages[t], cause'[t], "error") \in FailedStages
      BY <1>10, StagesAtValues DEF IInv, Safe, TypeOK, Raise, Live, TaskPCs,
         StagesInv, FailedStages, StoreFails
    <3> QED BY <1>10, <3>1 DEF IInv, Safe, Goto, Raise, Live, InProgress,
       dbVars, StagesInv, StoreFails
  <2>3. /\ LockInv' /\ RowInv' /\ ResultsInv' /\ StatusesAgree'
        /\ ReferencesResolve' /\ NothingSurvivesDelete'
    BY <1>10 DEF IInv, Safe, LockInv, StoreFails, Raise, dbVars, Goto,
       InProgress, RowInv, ResultsInv, StatusesAgree, ReferencesResolve,
       NothingSurvivesDelete
  <2> QED BY <2>1, <2>2, <2>3 DEF Safe
<1>11. CASE MarkAnalyzing(t)
  <2>1. LockInv'
    BY <1>11 DEF IInv, Safe, LockInv, BusyInv, MarkAnalyzing, InProgress, Busy,
       Live, LivePCs, WorkingPCs
  <2>2. RowInv'
    BY <1>11 DEF IInv, Safe, LockInv, RowInv, BusyInv, MarkAnalyzing, RowFree,
       InProgress, Busy, Live, LivePCs, WorkingPCs
  <2>3. BusyInv'
    BY <1>11 DEF IInv, Safe, BusyInv, MarkAnalyzing, Goto, Busy, Live, LivePCs,
       WorkingPCs
  <2>4. StagesInv'
    BY <1>11, StagesAtValues DEF IInv, Safe, StagesInv, BusyInv, MarkAnalyzing,
       Goto, InProgress, Busy, Live, LivePCs, WorkingPCs
  <2>5. StatusesAgree'
    BY <1>11 DEF IInv, Safe, StatusesAgree, BusyInv, MarkAnalyzing, Busy, Live,
       LivePCs, WorkingPCs
  <2>6. ResultsInv' /\ ReferencesResolve' /\ NothingSurvivesDelete'
    BY <1>11 DEF IInv, Safe, ResultsInv, MarkAnalyzing, Goto,
       ReferencesResolve, NothingSurvivesDelete
  <2> QED BY <2>1, <2>2, <2>3, <2>4, <2>5, <2>6 DEF Safe
<1>12. CASE DropChunks(t)
  <2>1. BusyInv'
    BY <1>12 DEF IInv, Safe, BusyInv, DropChunks, Goto, Busy, Live, LivePCs,
       WorkingPCs
  <2>2. StagesInv'
    BY <1>12, StagesAtValues DEF IInv, Safe, StagesInv, DropChunks, Goto,
       InProgress, Live, LivePCs, WorkingPCs
  <2>3. /\ LockInv' /\ RowInv' /\ ResultsInv' /\ StatusesAgree'
        /\ ReferencesResolve' /\ NothingSurvivesDelete'
    BY <1>12 DEF IInv, Safe, LockInv, DropChunks, Goto, InProgress, RowInv,
       ResultsInv, StatusesAgree, ReferencesResolve, NothingSurvivesDelete
  <2> QED BY <2>1, <2>2, <2>3 DEF Safe
<1>13. CASE StoreChunks(t)
  <2>1. BusyInv'
    BY <1>13 DEF IInv, Safe, BusyInv, StoreChunks, Goto, Busy, Live, LivePCs,
       WorkingPCs
  <2>2. StagesInv'
    BY <1>13, StagesAtValues DEF IInv, Safe, StagesInv, StoreChunks, Goto,
       InProgress, Live, LivePCs, WorkingPCs
  <2>3. ResultsInv'
    BY <1>13 DEF IInv, Safe, TypeOK, ResultsInv, BusyInv, StoreChunks, Goto,
       Busy, Live, LivePCs, WorkingPCs
  <2>4. LockInv' /\ RowInv' /\ StatusesAgree' /\ ReferencesResolve' /\ NothingSurvivesDelete'
    BY <1>13 DEF IInv, Safe, LockInv, StoreChunks, InProgress, RowInv,
       StatusesAgree, ReferencesResolve, NothingSurvivesDelete
  <2> QED BY <2>1, <2>2, <2>3, <2>4 DEF Safe
<1>14. CASE IndexFails(t)
  <2>1. BusyInv'
    BY <1>14 DEF IInv, Safe, BusyInv, IndexFails, Raise, dbVars, Goto, Busy,
       Live, LivePCs, WorkingPCs
  <2>2. StagesInv'
    <3>1. repository # "deleted" => WithStage(stages[t], cause'[t], "error") \in FailedStages
      BY <1>14, StagesAtValues DEF IInv, Safe, TypeOK, Raise, Live, TaskPCs,
         StagesInv, FailedStages, IndexFails
    <3> QED BY <1>14, <3>1 DEF IInv, Safe, Goto, Raise, Live, InProgress,
       dbVars, StagesInv, IndexFails
  <2>3. /\ LockInv' /\ RowInv' /\ ResultsInv' /\ StatusesAgree'
        /\ ReferencesResolve' /\ NothingSurvivesDelete'
    BY <1>14 DEF IInv, Safe, LockInv, IndexFails, Raise, dbVars, Goto,
       InProgress, RowInv, ResultsInv, StatusesAgree, ReferencesResolve,
       NothingSurvivesDelete
  <2> QED BY <2>1, <2>2, <2>3 DEF Safe
<1>15. CASE Complete(t)
  <2>1. RowInv'
    BY <1>15 DEF IInv, Safe, LockInv, RowInv, BusyInv, Complete, RowFree,
       InProgress, Busy, Live, LivePCs, WorkingPCs
  <2>2. BusyInv'
    BY <1>15 DEF IInv, Safe, TypeOK, BusyInv, Complete, Goto, Busy, Live,
       LivePCs, WorkingPCs
  <2>3. StagesInv'
    BY <1>15 DEF IInv, Safe, StagesInv, Complete, Goto, InProgress, Live,
       LivePCs, WorkingPCs
  <2>4. ResultsInv'
    BY <1>15, StagesAtValues DEF IInv, Safe, ResultsInv, BusyInv, StagesInv,
       Complete, Goto, Live, LivePCs, WorkingPCs
  <2>5. StatusesAgree'
    BY <1>15 DEF IInv, Safe, TypeOK, StatusesAgree, BusyInv, Complete, Busy,
       Live, LivePCs, WorkingPCs
  <2>6. LockInv' /\ ReferencesResolve' /\ NothingSurvivesDelete'
    BY <1>15 DEF IInv, Safe, LockInv, Complete, Goto, InProgress,
       ReferencesResolve, NothingSurvivesDelete
  <2> QED BY <2>1, <2>2, <2>3, <2>4, <2>5, <2>6 DEF Safe
<1>16. CASE MarkFailed(t)
  <2>1. RowInv'
    BY <1>16 DEF IInv, Safe, LockInv, RowInv, BusyInv, MarkFailed, FailRow,
       RowFree, InProgress, Busy, Live, LivePCs, WorkingPCs
  <2>2. BusyInv'
    BY <1>16 DEF IInv, Safe, TypeOK, BusyInv, MarkFailed, Goto, FailRow, Busy,
       Live, LivePCs, WorkingPCs
  <2>3. StagesInv'
    BY <1>16 DEF IInv, Safe, TypeOK, StagesInv, BusyInv, MarkFailed, Goto,
       FailRow, InProgress, Live, LivePCs, WorkingPCs
  <2>4. ResultsInv'
    BY <1>16 DEF IInv, Safe, TypeOK, ResultsInv, MarkFailed, Goto, FailRow
  <2>5. StatusesAgree'
    BY <1>16 DEF IInv, Safe, TypeOK, StatusesAgree, BusyInv, MarkFailed,
       FailRow, Busy, Live, LivePCs, WorkingPCs
  <2>6. LockInv' /\ ReferencesResolve' /\ NothingSurvivesDelete'
    BY <1>16 DEF IInv, Safe, LockInv, MarkFailed, FailRow, InProgress,
       ReferencesResolve, NothingSurvivesDelete
  <2> QED BY <2>1, <2>2, <2>3, <2>4, <2>5, <2>6 DEF Safe
<1>17. CASE AbandonDeleted(t)
  <2>1. BusyInv'
    BY <1>17 DEF IInv, Safe, BusyInv, AbandonDeleted, Goto, Live, dbVars, Busy,
       LivePCs, WorkingPCs
  <2>2. LockInv' /\ RowInv' /\ StagesInv' /\ ResultsInv' /\ StatusesAgree' /\ ReferencesResolve' /\ NothingSurvivesDelete'
    BY <1>17 DEF IInv, Safe, LockInv, AbandonDeleted, dbVars, InProgress,
       RowInv, StagesInv, ResultsInv, StatusesAgree, ReferencesResolve,
       NothingSurvivesDelete
  <2> QED BY <2>1, <2>2 DEF Safe
<1> QED BY <1>1, <1>2, <1>3, <1>4, <1>5, <1>6, <1>7, <1>8, <1>9, <1>10, <1>11,
   <1>12, <1>13, <1>14, <1>15, <1>16, <1>17 DEF TaskStep

(* References, deletions and restarts preserve the invariant.              *)
LEMMA EnvironmentSafe ==
  ASSUME IInv, Environment
  PROVE  Safe'
<1>1. CASE AddReference
  <2>1. BusyInv'
    BY <1>1 DEF IInv, Safe, BusyInv, AddReference, taskVars, Busy, Live
  <2>2. StagesInv'
    BY <1>1 DEF IInv, Safe, StagesInv, AddReference, taskVars, InProgress, Live
  <2>3. /\ LockInv' /\ RowInv' /\ ResultsInv' /\ StatusesAgree'
        /\ ReferencesResolve' /\ NothingSurvivesDelete'
    BY <1>1 DEF IInv, Safe, LockInv, AddReference, taskVars, InProgress,
       RowInv, ResultsInv, StatusesAgree, ReferencesResolve,
       NothingSurvivesDelete
  <2> QED BY <2>1, <2>2, <2>3 DEF Safe
<1>2. CASE DeleteRepository
  <2>1. LockInv'
    BY <1>2 DEF IInv, Safe, LockInv, DeleteRepository, RowFree
  <2>2. RowInv'
    BY <1>2, RowsAssumption DEF IInv, Safe, RowInv, DeleteRepository,
       InProgress
  <2>3. BusyInv'
    BY <1>2 DEF IInv, Safe, BusyInv, DeleteRepository, taskVars, Busy, Live
  <2>4. StagesInv' /\ ResultsInv' /\ StatusesAgree' /\ ReferencesResolve' /\ NothingSurvivesDelete'
    BY <1>2 DEF IInv, Safe, StagesInv, DeleteRepository, InProgress,
       ResultsInv, StatusesAgree, ReferencesResolve, NothingSurvivesDelete
  <2> QED BY <2>1, <2>2, <2>3, <2>4 DEF Safe
<1>3. CASE RemoveUploads
  <2>1. BusyInv'
    BY <1>3 DEF IInv, Safe, BusyInv, RemoveUploads, dbVars, taskVars, Busy,
       Live
  <2>2. LockInv' /\ RowInv' /\ StagesInv' /\ ResultsInv' /\ StatusesAgree' /\ ReferencesResolve' /\ NothingSurvivesDelete'
    BY <1>3 DEF IInv, Safe, LockInv, RemoveUploads, dbVars, InProgress, RowInv,
       StagesInv, ResultsInv, StatusesAgree, ReferencesResolve,
       NothingSurvivesDelete
  <2> QED BY <2>1, <2>2 DEF Safe
<1>4. CASE Restart
  <2>1. LockInv'
    BY <1>4, RowsAssumption DEF IInv, Safe, LockInv, Restart
  <2>2. BusyInv'
    BY <1>4 DEF IInv, Safe, BusyInv, Restart, Live, Busy, LivePCs, WorkingPCs
  <2>3. StagesInv'
    BY <1>4 DEF IInv, Safe, StagesInv, Restart, Live, dbVars, InProgress,
       LivePCs, WorkingPCs
  <2>4. RowInv' /\ ResultsInv' /\ StatusesAgree' /\ ReferencesResolve' /\ NothingSurvivesDelete'
    BY <1>4 DEF IInv, Safe, RowInv, Restart, dbVars, InProgress, ResultsInv,
       StatusesAgree, ReferencesResolve, NothingSurvivesDelete
  <2> QED BY <2>1, <2>2, <2>3, <2>4 DEF Safe
<1> QED BY <1>1, <1>2, <1>3, <1>4 DEF Environment

------------------------------------------------------------------------------
(* The invariant.                                                          *)

(* A repository that has never been analysed satisfies it.                 *)
LEMMA InitSafe == Init => IInv
<1> SUFFICES ASSUME Init PROVE IInv
  OBVIOUS
<1>1. TypeOK /\ Targeted
  BY DEF Init, TypeOK, Targeted, RepositoryStatus, RowStatus, NoStages, Stages,
     StageStates, RequestPCs, TaskPCs, WorkingPCs
<1>2. LockInv /\ RowInv /\ BusyInv
  BY RowsAssumption DEF Init, LockInv, RowInv, BusyInv, InProgress, Busy, Live,
     LivePCs, WorkingPCs
<1>3. StagesInv /\ ResultsInv
  BY DEF Init, StagesInv, ResultsInv, InProgress, Live, LivePCs, WorkingPCs
<1>4. StatusesAgree /\ ReferencesResolve /\ NothingSurvivesDelete
  BY DEF Init, StatusesAgree, ReferencesResolve, NothingSurvivesDelete
<1> QED BY <1>1, <1>2, <1>3, <1>4 DEF IInv, Safe

(* Every step preserves it.                                                *)
LEMMA NextSafe == IInv /\ [Next]_vars => IInv'
<1>1. ASSUME IInv, Next PROVE IInv'
  <2>1. TypeOK' /\ Targeted'
    BY <1>1, StartStepType, TaskStepType, EnvironmentType DEF IInv, Next
  <2>2. Safe'
    BY <1>1, StartStepSafe, TaskStepSafe, EnvironmentSafe DEF Next
  <2> QED BY <2>1, <2>2 DEF IInv
<1>2. ASSUME IInv, UNCHANGED vars PROVE IInv'
  BY <1>2 DEF vars, IInv, Safe, TypeOK, Targeted, LockInv, RowInv, BusyInv,
     StagesInv, ResultsInv, StatusesAgree, ReferencesResolve,
     NothingSurvivesDelete, InProgress, Busy, Live
<1> QED BY <1>1, <1>2

(* The inductive invariant holds throughout every behaviour, for any       *)
(* number of concurrent calls, with or without restarts.                   *)
THEOREM InvariantHolds == Spec => []IInv
BY InitSafe, NextSafe, PTL DEF Spec

------------------------------------------------------------------------------
(* What follows from it.                                                   *)

(* FOR UPDATE, the check of the latest row and the insert behind it: two   *)
(* overlapping calls never both start an analysis.                         *)
THEOREM NoOverlap == Spec => []AtMostOneInProgress
<1>1. IInv => AtMostOneInProgress
  BY DEF IInv, Safe, RowInv, AtMostOneInProgress
<1> QED BY <1>1, InvariantHolds, PTL

(* No two background tasks work on a repository at the same time, although *)
(* a task is told the repository only and picks its row by itself.         *)
THEOREM OneTask == Spec => []OneTaskAtATime
<1>1. IInv => OneTaskAtATime
  BY DEF IInv, Safe, BusyInv, Busy, OneTaskAtATime
<1> QED BY <1>1, InvariantHolds, PTL

(* The current stage is the first that is not done.                        *)
LEMMA CurrentStageIs ==
  ASSUME NEW st, st # NoStages, NEW s \in Stages, st[s] # "done",
         \A e \in Stages : Rank(e) < Rank(s) => st[e] = "done"
  PROVE  CurrentStage(st) = s
<1> DEFINE First(x) == st[x] # "done" /\ \A e \in Stages : Rank(e) < Rank(x) => st[e] = "done"
<1>1. \A x \in Stages : First(x) => x = s
  <2> SUFFICES ASSUME NEW x \in Stages, First(x) PROVE x = s
    OBVIOUS
  <2>1. ~ (Rank(x) < Rank(s)) /\ ~ (Rank(s) < Rank(x))
    OBVIOUS
  <2>2. Rank(x) = Rank(s)
    BY <2>1, RankInjective
  <2> QED BY <2>2, RankInjective
<1>2. CurrentStage(st) = CHOOSE x \in Stages : First(x)
  BY DEF CurrentStage
<1>3. First(s)
  OBVIOUS
<1> QED BY <1>1, <1>2, <1>3

(* Rows and tasks together: one analysis at a time, for any number of      *)
(* overlapping calls and restarts (routes/pipeline.py:40-60).              *)
THEOREM OneAnalysis == Spec => []OneAnalysisAtATime
BY NoOverlap, OneTask, PTL DEF OneAnalysisAtATime

(* A completed row has every stage done, and its own facts and chunks.     *)
LEMMA WholeWhenCompleted == IInv => CompletedIsWhole
<1>1. CurrentStage(Done(6)) = "completed"
  <2>1. \A s \in Stages : Done(6)[s] = "done"
    BY RankInjective DEF Done
  <2>2. Done(6) # NoStages
    BY StagesType
  <2> QED BY <2>1, <2>2 DEF CurrentStage
<1> QED BY <1>1 DEF IInv, Safe, ResultsInv, CompletedIsWhole

(* When "completed" is what a client reads of the latest row, every stage  *)
(* of that run is done and what is stored is that run's, all of it.        *)
THEOREM CompletedWhole == Spec => []CompletedIsWhole
BY WholeWhenCompleted, InvariantHolds, PTL

(* The status columns of the two tables never contradict each other.       *)
THEOREM StatusesAgreeAlways == Spec => []StatusesAgree
<1>1. IInv => StatusesAgree
  BY DEF IInv, Safe
<1> QED BY <1>1, InvariantHolds, PTL

(* The stages of an analysis in progress advance in order.                 *)
THEOREM StagesAdvanceInOrder == Spec => []StagesInOrder
<1>1. ASSUME NEW st, Ordered(st), NEW s \in Stages
      PROVE  /\ st[s] \in {"pending", "running", "done"}
             /\ st[s] # "pending" => \A e \in Stages : Rank(e) < Rank(s) => st[e] = "done"
  <2>1. PICK n \in 0..6 : st = Running(n) \/ st = Done(n)
    BY <1>1 DEF Ordered
  <2> QED BY <2>1, RankInjective DEF Running, Done
<1>2. IInv => StagesInOrder
  BY <1>1 DEF IInv, Safe, StagesInv, StagesInOrder
<1> QED BY <1>2, InvariantHolds, PTL

(* The error of a stage that was running is at the last stage reached; an  *)
(* error at the stage of rank 4 can leave the index running behind it.     *)
LEMMA ErrorIsShown ==
  ASSUME NEW n \in 0..5, NEW s \in Stages, Rank(s) <= n + 1,
         NEW reached \in Stages, Rank(reached) = n + 1
  PROVE  LET st == WithStage(Running(n), s, "error") IN
         /\ Reached(st) = reached
         /\ st[s] = "error"
         /\ \A e \in Stages : e # s /\ Rank(e) < Rank(reached) => st[e] = "done"
         /\ s # reached => st[reached] = "running"
<1> DEFINE st == WithStage(Running(n), s, "error")
           Last(x) == /\ st[x] # "pending"
                      /\ \A e \in Stages : st[e] # "pending" => Rank(e) <= Rank(x)
<1>1. st = [Running(n) EXCEPT ![s] = "error"]
  BY StagesType DEF WithStage
<1>2. st[s] = "error" /\ \A e \in Stages : e # s => st[e] = Running(n)[e]
  BY <1>1 DEF Running
<1>3. \A e \in Stages : /\ Rank(e) < Rank(reached) => Running(n)[e] = "done"
                        /\ Rank(e) > Rank(reached) => Running(n)[e] = "pending"
  BY RankInjective DEF Running
<1>4. Running(n)[reached] = "running"
  BY DEF Running
<1>5. Last(reached)
  BY <1>2, <1>3, <1>4, RankInjective
<1>6. \A x \in Stages : Last(x) => x = reached
  <2> SUFFICES ASSUME NEW x \in Stages, Last(x) PROVE x = reached
    OBVIOUS
  <2>1. Rank(x) <= Rank(reached) /\ Rank(reached) <= Rank(x)
    BY <1>5
  <2> QED BY <2>1, RankInjective
<1>7. Reached(st) = CHOOSE x \in Stages : Last(x)
  BY DEF Reached
<1>8. Reached(st) = reached
  BY <1>5, <1>6, <1>7
<1> QED BY <1>2, <1>3, <1>4, <1>8

(* A failed analysis shows its error at the last stage it got to, or, when *)
(* the handler of the index stage failed too, at "aggregating" with the    *)
(* index left running: there is no third way.                              *)
THEOREM FailuresAreShown == Spec => []FailureIsShown
<1> DEFINE Shown(st) ==
      LET reached == Reached(st)
          Before  == {e \in Stages : Rank(e) < Rank(reached)}
      IN  \/ /\ st[reached] = "error"
             /\ \A e \in Before : st[e] = "done"
          \/ /\ reached = "index" /\ st["index"] = "running"
             /\ st["aggregating"] = "error"
             /\ \A e \in Before \ {"aggregating"} : st[e] = "done"
<1>1. ASSUME NEW n \in 0..5, NEW s \in Stages, Rank(s) = n + 1
      PROVE  Shown(WithStage(Running(n), s, "error"))
  BY <1>1, ErrorIsShown, RankInjective
<1>2. Shown(WithStage(Running(5), "aggregating", "error"))
  BY ErrorIsShown, RankValues DEF Stages
<1>3. ASSUME NEW st \in FailedStages, st # InitialStages
      PROVE  Shown(st)
  <2>1. CASE st = WithStage(Running(2), "parsing", "error")
    BY <2>1, <1>1, RankValues DEF Stages
  <2>2. CASE st = WithStage(Running(3), "aggregating", "error")
    BY <2>2, <1>1, RankValues DEF Stages
  <2>3. CASE st = WithStage(Running(5), "aggregating", "error")
    BY <2>3, <1>2
  <2>4. CASE st = WithStage(Running(5), "index", "error")
    BY <2>4, <1>1, RankValues DEF Stages
  <2> QED BY <1>3, <2>1, <2>2, <2>3, <2>4, InitialStagesDone DEF FailedStages
<1>4. IInv => FailureIsShown
  BY <1>3 DEF IInv, Safe, StagesInv, FailureIsShown
<1> QED BY <1>4, InvariantHolds, PTL

(* What the stages show follows the run at every commit: in order while an *)
(* analysis is in progress, and in one of the two ways above when it has   *)
(* failed.                                                                 *)
THEOREM StagesAlwaysFollowTheRun == Spec => []StagesFollowTheRun
BY TypeCorrect, StagesAdvanceInOrder, FailuresAreShown, PTL DEF StagesFollowTheRun

(* A completed or failed row is never rewritten, whatever late step of     *)
(* whatever task or call comes after it.                                   *)
THEOREM FinalStays == Spec => FinalStatusStays
<1> DEFINE Stays == \A r \in Rows : status[r] \in {"completed", "failed"} =>
                      status'[r] \in {status[r], "absent"}
<1>1. ASSUME IInv, NEW r \in Requests, StartStep(r) PROVE Stays
  <2>1. CASE StartLock(r) \/ StartCheck(r) \/ StartEnqueue(r)
    BY <2>1 DEF StartLock, StartCheck, StartEnqueue, dbVars
  <2>2. CASE StartInsert(r)
    BY <1>1, <2>2 DEF StartInsert, IInv, Safe, TypeOK, RowInv
  <2>3. CASE StartUnavailable(r)
    BY <1>1, <2>3 DEF StartUnavailable, IInv, Safe, TypeOK, BusyInv, Busy
  <2> QED BY <1>1, <2>1, <2>2, <2>3 DEF StartStep
<1>2. ASSUME IInv, NEW t \in Requests, TaskStep(t) PROVE Stays
  <2>1. CASE UNCHANGED status
    BY <2>1
  <2>2. CASE BeginRun(t) \/ MarkAnalyzing(t) \/ Complete(t) \/ MarkFailed(t)
    <3>1. /\ target[t] = t /\ status[t] \in {"queued", "running"}
          /\ \E s \in RowStatus : status' = [status EXCEPT ![t] = s]
      BY <1>2, <2>2 DEF BeginRun, MarkAnalyzing, Complete, MarkFailed, FailRow,
         RowStatus, IInv, Safe, BusyInv, Busy, Live, LivePCs, WorkingPCs
    <3> QED BY <1>2, <3>1 DEF IInv, TypeOK
  <2> QED
    BY <1>2, <2>1, <2>2 DEF TaskStep, PickLatest, SetStage,
       LocateRoot, ParseFiles, ParseFails, ClearFacts, StoreFacts, StoreFails,
       DropChunks, StoreChunks, IndexFails, AbandonDeleted, dbVars
<1>3. ASSUME Environment PROVE Stays
  BY <1>3 DEF Environment, AddReference, DeleteRepository, RemoveUploads,
     Restart, dbVars
<1>4. IInv /\ [Next]_vars => [Stays]_vars
  BY <1>1, <1>2, <1>3 DEF Next
<1> QED BY <1>4, InvariantHolds, PTL DEF Spec, FinalStatusStays

------------------------------------------------------------------------------
(* The refinement.                                                         *)

(* The results published are those of the row whose facts and chunks are   *)
(* stored alone.                                                           *)
LEMMA PublishedValue ==
  /\ \A r \in Rows : facts = {r} /\ chunks = {r} => Published = r
  /\ facts = {} \/ chunks = {} => Published = None
BY DEF Published

(* The same after a step.                                                  *)
LEMMA PublishedNext ==
  /\ \A r \in Rows : facts' = {r} /\ chunks' = {r} => Published' = r
  /\ facts' = {} \/ chunks' = {} => Published' = None
BY DEF Published

(* What a step must leave alone for the mapped state to stay.              *)
LEMMA Stutters ==
  ASSUME UNCHANGED <<repository, status, latest, request, facts, chunks>>
  PROVE  UNCHANGED Job!jobVars
BY DEF Job!jobVars, JobState, Submitted, Published

(* A step of start_analysis submits a job, fails one, or is invisible.     *)
LEMMA StartStepRefines ==
  ASSUME IInv, NEW r \in Requests, StartStep(r)
  PROVE  [Job!Next]_Job!jobVars
<1>1. CASE StartLock(r) \/ StartCheck(r) \/ StartEnqueue(r)
  <2>1. UNCHANGED <<JobState, latest, Published>>
    BY <1>1 DEF StartLock, StartCheck, StartEnqueue, dbVars, JobState,
       Published
  <2>2. Submitted' = Submitted
    BY <1>1 DEF IInv, TypeOK, StartLock, StartCheck, StartEnqueue, Submitted
  <2> QED BY <2>1, <2>2 DEF Job!jobVars
<1>2. CASE StartInsert(r)
  <2>1. r \in Rows /\ request[r] = "clear" /\ repository # "deleted" /\ lock = r
    BY <1>2, RowsAssumption DEF StartInsert, IInv, Safe, LockInv
  <2>2. ~ Job!InProgress /\ JobState # "deleted"
    <3>1. latest # None => ~ InProgress(latest)
      BY <2>1 DEF IInv, Safe, LockInv
    <3>2. latest # None => status[latest] \in RowStatus
      BY DEF IInv, TypeOK
    <3> QED BY <2>1, <3>1, <3>2 DEF InProgress, RowStatus, JobState,
       Job!InProgress
  <2>3. r \notin Submitted /\ Submitted' = Submitted \union {r}
    BY <1>2, <2>1 DEF IInv, TypeOK, StartInsert, Submitted
  <2>4. JobState' = "queued" /\ latest' = r
    BY <1>2, <2>1, RowsAssumption DEF IInv, TypeOK, StartInsert, JobState
  <2>5. UNCHANGED Published
    BY <1>2 DEF StartInsert, Published
  <2>6. Job!Submit(r)
    BY <2>2, <2>3, <2>4, <2>5 DEF Job!Submit
  <2> QED BY <2>1, <2>6 DEF Job!Next
<1>3. CASE StartUnavailable(r)
  <2>1. latest = r /\ r \in Rows /\ status[r] = "queued" /\ repository # "deleted"
    BY <1>3, RowsAssumption DEF StartUnavailable, IInv, Safe, BusyInv, Busy
  <2>2. JobState = "queued" /\ JobState' = "failed"
    BY <1>3, <2>1, RowsAssumption DEF StartUnavailable, IInv, TypeOK, JobState
  <2>3. UNCHANGED <<latest, Submitted, Published>>
    BY <1>3 DEF StartUnavailable, IInv, TypeOK, Submitted, Published
  <2>4. Job!Fail
    BY <2>2, <2>3 DEF Job!Fail, Job!InProgress
  <2> QED BY <2>4 DEF Job!Next
<1> QED BY <1>1, <1>2, <1>3 DEF StartStep

(* A step of the task begins its job, withdraws or publishes its results,  *)
(* ends it, or is invisible.                                               *)
LEMMA TaskStepRefines ==
  ASSUME IInv, NEW t \in Requests, TaskStep(t)
  PROVE  [Job!Next]_Job!jobVars
<1>1. CASE PickLatest(t) \/ SetStage(t) \/ LocateRoot(t) \/ ParseFiles(t)
           \/ ParseFails(t) \/ StoreFails(t) \/ IndexFails(t) \/ AbandonDeleted(t)
  BY <1>1, Stutters DEF PickLatest, SetStage, LocateRoot, ParseFiles,
     ParseFails, StoreFails, IndexFails, AbandonDeleted, dbVars
<1>2. ASSUME task[t] \in {"picked", "aggregating", "cleared", "graphed", "indexing", "dropped", "indexed", "failing"},
             repository # "deleted"
      PROVE  /\ t \in Rows /\ latest = t /\ target[t] = t /\ JobState = status[t]
             /\ status[t] = IF task[t] = "picked" THEN "queued" ELSE "running"
  BY <1>2, RowsAssumption DEF IInv, Safe, BusyInv, Busy, Live, LivePCs,
     WorkingPCs, JobState
<1>3. ASSUME UNCHANGED request PROVE UNCHANGED Submitted
  BY <1>3 DEF Submitted
<1>4. ASSUME UNCHANGED <<facts, chunks>> PROVE UNCHANGED Published
  BY <1>4 DEF Published
<1>5. ASSUME NEW s \in RowStatus, status' = [status EXCEPT ![t] = s], UNCHANGED latest,
             latest = t, t \in Rows, repository' # "deleted"
      PROVE  JobState' = s
  BY <1>5, RowsAssumption DEF IInv, TypeOK, JobState
<1>6. CASE BeginRun(t)
  <2>1. JobState = "queued" /\ JobState' = "running"
    BY <1>2, <1>5, <1>6 DEF BeginRun, RowStatus
  <2>2. Job!Begin
    BY <1>3, <1>4, <1>6, <2>1 DEF BeginRun, Job!Begin
  <2> QED BY <2>2 DEF Job!Next
<1>7. CASE ClearFacts(t)
  <2>1. UNCHANGED <<JobState, latest, Submitted>> /\ JobState = "running"
    BY <1>2, <1>3, <1>7 DEF ClearFacts, JobState
  <2>2. Published' = None \/ UNCHANGED Published
    BY <1>4, <1>7, PublishedNext DEF ClearFacts
  <2>3. Job!Withdraw \/ UNCHANGED Job!jobVars
    BY <2>1, <2>2 DEF Job!Withdraw, Job!jobVars
  <2> QED BY <2>3 DEF Job!Next
<1>8. CASE StoreFacts(t) \/ DropChunks(t)
  <2>1. UNCHANGED <<JobState, latest, Submitted>>
    BY <1>3, <1>8 DEF StoreFacts, DropChunks, JobState
  <2>2. chunks = {} /\ chunks' = {}
    BY <1>8 DEF IInv, Safe, ResultsInv, StoreFacts, DropChunks
  <2>3. UNCHANGED Published
    BY <2>2, PublishedValue, PublishedNext
  <2> QED BY <2>1, <2>3 DEF Job!jobVars
<1>9. CASE MarkAnalyzing(t)
  <2>1. JobState = "running" /\ JobState' = "running"
    BY <1>2, <1>5, <1>9 DEF MarkAnalyzing, RowStatus
  <2> QED BY <1>3, <1>4, <1>9, <2>1 DEF MarkAnalyzing, Job!jobVars
<1>10. CASE StoreChunks(t)
  <2>1. t \in Rows /\ latest = t /\ JobState = "running" /\ UNCHANGED <<JobState, latest, Submitted>>
    BY <1>2, <1>3, <1>10 DEF StoreChunks, JobState
  <2>2. facts' = {t} /\ chunks' = {t}
    BY <1>2, <1>10 DEF IInv, Safe, ResultsInv, StoreChunks
  <2>3. Published' = latest
    BY <2>1, <2>2, PublishedNext
  <2>4. Job!Publish
    BY <2>1, <2>3 DEF Job!Publish
  <2> QED BY <2>4 DEF Job!Next
<1>11. CASE Complete(t)
  <2>1. t \in Rows /\ latest = t /\ JobState = "running" /\ JobState' = "completed"
    BY <1>2, <1>5, <1>11 DEF Complete, RowStatus
  <2>2. Published = latest
    BY <1>11, <2>1, PublishedValue DEF IInv, Safe, ResultsInv, Complete
  <2>3. Job!Succeed
    BY <1>3, <1>4, <1>11, <2>1, <2>2 DEF Complete, Job!Succeed
  <2> QED BY <2>3 DEF Job!Next
<1>12. CASE MarkFailed(t)
  <2>1. JobState = "running" /\ JobState' = "failed"
    BY <1>2, <1>5, <1>12 DEF MarkFailed, FailRow, RowStatus
  <2>2. Job!Fail
    BY <1>3, <1>4, <1>12, <2>1 DEF MarkFailed, FailRow, Job!Fail,
       Job!InProgress
  <2> QED BY <2>2 DEF Job!Next
<1> QED
  BY <1>1, <1>6, <1>7, <1>8, <1>9, <1>10, <1>11, <1>12 DEF TaskStep

(* Of the environment's steps only a deletion is visible.                  *)
LEMMA EnvironmentRefines ==
  ASSUME IInv, Environment
  PROVE  [Job!Next]_Job!jobVars
<1>1. CASE AddReference \/ RemoveUploads
  BY <1>1, Stutters DEF AddReference, RemoveUploads, dbVars
<1>2. CASE DeleteRepository
  <2>1. JobState # "deleted" /\ JobState' = "deleted" /\ latest' = None
    BY <1>2 DEF IInv, TypeOK, RowStatus, DeleteRepository, JobState
  <2>2. Published' = None /\ UNCHANGED Submitted
    BY <1>2, PublishedNext DEF DeleteRepository, Submitted
  <2>3. Job!Delete
    BY <2>1, <2>2 DEF Job!Delete
  <2> QED BY <2>3 DEF Job!Next
<1>3. CASE Restart
  <2>1. UNCHANGED <<JobState, latest, Published>>
    BY <1>3 DEF Restart, dbVars, JobState, Published
  <2>2. \A r \in Requests : request'[r] \in {"inserted", "answered"} <=> request[r] \in {"inserted", "answered"}
    BY <1>3 DEF Restart, IInv, TypeOK, RequestPCs
  <2>3. UNCHANGED Submitted
    BY <2>2 DEF Submitted
  <2> QED BY <2>1, <2>3 DEF Job!jobVars
<1> QED BY <1>1, <1>2, <1>3 DEF Environment

(* Every step of the pipeline is one of the job, or invisible.             *)
LEMMA StepRefines == IInv /\ [Next]_vars => [Job!Next]_Job!jobVars
<1>1. ASSUME IInv, Next PROVE [Job!Next]_Job!jobVars
  BY <1>1, StartStepRefines, TaskStepRefines, EnvironmentRefines DEF Next
<1>2. ASSUME UNCHANGED vars PROVE [Job!Next]_Job!jobVars
  BY <1>2, Stutters DEF vars
<1> QED BY <1>1, <1>2

(* The pipeline implements AnalysisJob: at most one job in progress, a job *)
(* succeeds only with its own results published, no final state is left    *)
(* but by a new submission, however calls, tasks, deletions and restarts   *)
(* are interleaved.                                                        *)
THEOREM PipelineImplementsJob == Spec => JobSpec
<1>1. Init => Job!Init
  <2>1. ASSUME Init PROVE Job!Init
    <3>1. JobState = "none" /\ latest = None /\ Submitted = {}
      BY <2>1 DEF Init, JobState, Submitted
    <3>2. Published = None
      BY <2>1, PublishedValue DEF Init
    <3> QED BY <3>1, <3>2 DEF Job!Init
  <2> QED BY <2>1
<1> QED BY <1>1, StepRefines, InvariantHolds, PTL DEF Spec, JobSpec, Job!Spec

------------------------------------------------------------------------------
(* Beside summaries.  A summary that inserts a row breaks IInv, and with   *)
(* it what the pipeline promises; a deletion is final all the same, by a   *)
(* smaller invariant that no summary breaks.                               *)

(* A call holds the row lock of a repository that is there.                *)
Held ==
  /\ \A r \in Requests : request[r] \in {"locked", "clear"} => lock = r
  /\ lock # None => repository # "deleted"

Gone == Held /\ NothingSurvivesDelete

(* The inductive invariant of the pipeline with summaries.                 *)
SummaryIInv ==
  /\ SummaryTypeOK /\ Targeted /\ Gone
  /\ NoneInserted => IInv

(* Every step of the pipeline preserves the smaller invariant.             *)
LEMMA GoneStays ==
  ASSUME TypeOK, Gone, Next
  PROVE  Gone'
<1>1. ASSUME NEW r \in Requests, StartStep(r) PROVE Gone'
  <2>1. CASE StartLock(r) \/ StartCheck(r)
    BY <2>1, RowsAssumption DEF TypeOK, Gone, Held, NothingSurvivesDelete, StartLock,
       StartCheck, dbVars, RowFree
  <2>2. CASE StartInsert(r)
    <3>1. lock = r /\ repository # "deleted" /\ repository' = repository
      BY <2>2, RowsAssumption DEF Gone, Held, StartInsert
    <3>2. Held'
      BY <2>2, <3>1 DEF TypeOK, Gone, Held, StartInsert
    <3> QED BY <3>1, <3>2 DEF Gone, NothingSurvivesDelete
  <2>3. CASE StartEnqueue(r) \/ StartUnavailable(r)
    BY <2>3 DEF TypeOK, Gone, Held, NothingSurvivesDelete, StartEnqueue,
       StartUnavailable, dbVars, RowFree
  <2> QED BY <1>1, <2>1, <2>2, <2>3 DEF StartStep
<1>2. ASSUME NEW t \in Requests, TaskStep(t) PROVE Gone'
  <2>1. UNCHANGED <<request, lock>>
    BY <1>2 DEF TaskStep, PickLatest, BeginRun, SetStage, LocateRoot, ParseFiles,
       ParseFails, ClearFacts, StoreFacts, StoreFails, MarkAnalyzing, DropChunks,
       StoreChunks, IndexFails, Complete, MarkFailed, FailRow, AbandonDeleted
  <2>2. \/ UNCHANGED <<repository, status, latest, facts, chunks, references>>
        \/ repository # "deleted" /\ repository' # "deleted"
    BY <1>2 DEF TaskStep, PickLatest, BeginRun, SetStage, LocateRoot, ParseFiles,
       ParseFails, ClearFacts, StoreFacts, StoreFails, MarkAnalyzing, DropChunks,
       StoreChunks, IndexFails, Complete, MarkFailed, FailRow, AbandonDeleted, dbVars
  <2> QED BY <2>1, <2>2 DEF Gone, Held, NothingSurvivesDelete
<1>3. ASSUME Environment PROVE Gone'
  <2>1. CASE AddReference \/ RemoveUploads
    BY <2>1 DEF Gone, Held, NothingSurvivesDelete, AddReference, RemoveUploads, dbVars
  <2>2. CASE DeleteRepository
    BY <2>2 DEF Gone, Held, NothingSurvivesDelete, DeleteRepository, RowFree
  <2>3. CASE Restart
    <3>1. \A r \in Requests : request'[r] \notin {"locked", "clear"}
      BY <2>3 DEF TypeOK, Restart
    <3> QED BY <2>3, <3>1 DEF Gone, NothingSurvivesDelete, Held, Restart, dbVars
  <2> QED BY <1>3, <2>1, <2>2, <2>3 DEF Environment
<1> QED BY <1>1, <1>2, <1>3 DEF Next

(* A step of the pipeline and the summaries is one of the pipeline, which  *)
(* leaves no more summaries behind than had inserted a row before; or it   *)
(* is one of a summary.                                                    *)
LEMMA StepsApart ==
  ASSUME SummaryTypeOK, SummaryNext
  PROVE  \/ /\ Next
            /\ reader' \in [Readers -> ReaderPCs]
            /\ \A s \in Readers : reader'[s] = "inserted" <=> reader[s] = "inserted"
         \/ \E s \in Readers : SummaryStep(s)
<1>1. CASE RestartAll
  <2>1. Next
    BY <1>1 DEF RestartAll, Next, Environment
  <2>2. /\ reader' \in [Readers -> ReaderPCs]
        /\ \A s \in Readers : reader'[s] = "inserted" <=> reader[s] = "inserted"
    BY <1>1 DEF RestartAll, SummaryTypeOK, ReaderPCs
  <2> QED BY <2>1, <2>2
<1>2. CASE \E r \in Requests : (StartStep(r) \/ TaskStep(r)) /\ UNCHANGED reader
  BY <1>2 DEF SummaryTypeOK, Next
<1>3. CASE (AddReference \/ DeleteRepository \/ RemoveUploads) /\ UNCHANGED reader
  BY <1>3 DEF SummaryTypeOK, Next, Environment
<1> QED BY <1>1, <1>2, <1>3 DEF SummaryNext

(* A summary either changes nothing but its own place, and is then no      *)
(* insertion; or it inserts its row, of a repository that is there.        *)
LEMMA SummaryStepIs ==
  ASSUME SummaryTypeOK, NEW s \in Readers, SummaryStep(s)
  PROVE  /\ SummaryTypeOK'
         /\ reader[s] # "inserted" /\ \A q \in Readers \ {s} : reader'[q] = reader[q]
         /\ UNCHANGED <<repository, lock, request, task, target>>
         /\ \/ reader'[s] # "inserted" /\ UNCHANGED vars
            \/ reader'[s] = "inserted" /\ repository # "deleted"
<1>1. reader[s] # "inserted" /\ s \in Rows
  BY ReadersAssumption DEF SummaryStep, SummaryStart, SummaryLookup, SummaryUpdate, SummaryInsert
<1>2. PICK pc \in ReaderPCs : Turn(s, pc)
  BY DEF SummaryStep, SummaryStart, SummaryLookup, SummaryUpdate, SummaryInsert, ReaderPCs
<1>3. reader'[s] = pc /\ \A q \in Readers \ {s} : reader'[q] = reader[q]
  BY <1>2 DEF SummaryTypeOK, Turn
<1>4. reader' \in [Readers -> ReaderPCs]
  BY <1>2 DEF SummaryTypeOK, Turn
<1>5. CASE UNCHANGED vars /\ reader'[s] # "inserted"
  BY <1>1, <1>3, <1>4, <1>5 DEF SummaryTypeOK, TypeOK, vars
<1>6. CASE /\ Turn(s, "inserted") /\ repository # "deleted"
           /\ status' = [status EXCEPT ![s] = "completed"]
           /\ latest' \in IF latest = None THEN {s} ELSE {s, latest}
           /\ UNCHANGED <<repository, stages, facts, chunks, references,
                          uploads, lock, request, taskVars>>
  <2>1. reader'[s] = "inserted"
    BY <1>6 DEF SummaryTypeOK, Turn
  <2>2. TypeOK'
    BY <1>1, <1>6 DEF SummaryTypeOK, TypeOK, RowStatus, taskVars
  <2> QED BY <1>1, <1>3, <1>4, <1>6, <2>1, <2>2 DEF SummaryTypeOK, taskVars
<1>7. \/ UNCHANGED vars /\ (Turn(s, "done") \/ Turn(s, "computing") \/ Turn(s, "inserting")
                               \/ Turn(s, "updating"))
      \/ /\ Turn(s, "inserted") /\ repository # "deleted"
         /\ status' = [status EXCEPT ![s] = "completed"]
         /\ latest' \in IF latest = None THEN {s} ELSE {s, latest}
         /\ UNCHANGED <<repository, stages, facts, chunks, references,
                        uploads, lock, request, taskVars>>
  BY DEF SummaryStep, SummaryStart, SummaryLookup, SummaryUpdate, SummaryInsert
<1>8. ASSUME NEW q \in ReaderPCs, Turn(s, q) PROVE reader'[s] = q
  BY <1>8 DEF SummaryTypeOK, Turn
<1> QED BY <1>5, <1>6, <1>7, <1>8 DEF ReaderPCs

(* Every step preserves it.                                                *)
LEMMA SummaryNextSafe ==
  ASSUME SummaryIInv, [SummaryNext]_summaryVars
  PROVE  SummaryIInv' /\ (NoneInserted' => NoneInserted /\ [Next]_vars)
<1>1. CASE UNCHANGED summaryVars
  <2>1. UNCHANGED vars /\ UNCHANGED reader
    BY <1>1 DEF summaryVars
  <2>2. NoneInserted' = NoneInserted
    BY <2>1 DEF NoneInserted
  <2>3. NoneInserted => IInv'
    BY <2>1, NextSafe DEF SummaryIInv
  <2>4. SummaryTypeOK' /\ Targeted' /\ Gone'
    BY <2>1 DEF SummaryIInv, SummaryTypeOK, TypeOK, Targeted, Gone, Held,
       NothingSurvivesDelete, vars
  <2> QED BY <2>1, <2>2, <2>3, <2>4 DEF SummaryIInv
<1>2. CASE /\ Next
           /\ reader' \in [Readers -> ReaderPCs]
           /\ \A s \in Readers : reader'[s] = "inserted" <=> reader[s] = "inserted"
  <2>1. NoneInserted' => NoneInserted
    BY <1>2 DEF NoneInserted
  <2>2. NoneInserted => IInv'
    BY <1>2, NextSafe DEF SummaryIInv
  <2>3. TypeOK' /\ Targeted'
    BY <1>2, StartStepType, TaskStepType, EnvironmentType
       DEF SummaryIInv, SummaryTypeOK, Next
  <2>4. Gone'
    BY <1>2, GoneStays DEF SummaryIInv, SummaryTypeOK
  <2> QED BY <1>2, <2>1, <2>2, <2>3, <2>4 DEF SummaryIInv, SummaryTypeOK
<1>3. ASSUME NEW s \in Readers, SummaryStep(s)
      PROVE  SummaryIInv' /\ (NoneInserted' => NoneInserted /\ [Next]_vars)
  <2>1. /\ SummaryTypeOK'
        /\ reader[s] # "inserted" /\ \A q \in Readers \ {s} : reader'[q] = reader[q]
        /\ UNCHANGED <<repository, lock, request, task, target>>
        /\ \/ reader'[s] # "inserted" /\ UNCHANGED vars
           \/ reader'[s] = "inserted" /\ repository # "deleted"
    BY <1>3, SummaryStepIs DEF SummaryIInv
  <2>2. Targeted' /\ Held'
    BY <2>1 DEF SummaryIInv, Targeted, Gone, Held
  <2>3. CASE reader'[s] # "inserted" /\ UNCHANGED vars
    <3>1. NoneInserted' => NoneInserted
      BY <2>1 DEF NoneInserted
    <3>2. NoneInserted => IInv'
      BY <2>3, NextSafe DEF SummaryIInv
    <3>3. NothingSurvivesDelete'
      BY <2>3 DEF SummaryIInv, Gone, NothingSurvivesDelete, vars
    <3> QED BY <2>1, <2>2, <2>3, <3>1, <3>2, <3>3 DEF SummaryIInv, Gone
  <2>4. CASE reader'[s] = "inserted" /\ repository # "deleted"
    <3>1. ~ NoneInserted' /\ NothingSurvivesDelete'
      BY <2>1, <2>4 DEF NoneInserted, NothingSurvivesDelete
    <3> QED BY <2>1, <2>2, <3>1 DEF SummaryIInv, Gone
  <2> QED BY <2>1, <2>3, <2>4
<1> QED BY <1>1, <1>2, <1>3, StepsApart DEF SummaryIInv

(* The invariant of the pipeline with summaries, for any calls, any        *)
(* readers, with or without restarts.                                      *)
THEOREM SummaryInvariantHolds == SummarySpec => []SummaryIInv
<1>1. SummaryInit => SummaryIInv
  <2> SUFFICES ASSUME SummaryInit PROVE SummaryIInv
    OBVIOUS
  <2>1. IInv
    BY InitSafe DEF SummaryInit
  <2>2. SummaryTypeOK
    BY <2>1 DEF SummaryInit, SummaryTypeOK, ReaderPCs, IInv
  <2> QED BY <2>1, <2>2 DEF SummaryIInv, IInv, Safe, Gone, Held, LockInv
<1>2. SummaryIInv /\ [SummaryNext]_summaryVars => SummaryIInv'
  BY SummaryNextSafe
<1> QED BY <1>1, <1>2, PTL DEF SummarySpec

(* A summary that stores itself in the latest row disturbs nothing the     *)
(* pipeline promises, whenever it comes and however long it took; and one  *)
(* that inserts a row leaves none behind a deletion (summary.py:249-266).  *)
THEOREM SummariesAlwaysHarmless == SummarySpec => []SummariesAreHarmless
<1>1. IInv => AtMostOneInProgress /\ OneTaskAtATime /\ StatusesAgree
  BY DEF IInv, Safe, RowInv, AtMostOneInProgress, BusyInv, Busy, OneTaskAtATime
<1>2. SummaryIInv => SummariesAreHarmless
  BY <1>1, WholeWhenCompleted DEF SummaryIInv, Gone, SummariesAreHarmless, UpdatesAreHarmless
<1> QED BY <1>2, SummaryInvariantHolds, PTL

==============================================================================
