-------------------------- MODULE AnalysisPipeline ---------------------------
(***************************************************************************)
(* The analysis pipeline of one repository: POST .../analyze (start), the  *)
(* background task that parses, aggregates and indexes, and the database   *)
(* rows they share (repositories, analyses, facts, chunks).                *)
(*                                                                         *)
(* Every action is one committed transaction (set_stage commits eagerly)   *)
(* or one read a later decision depends on; whatever runs between two      *)
(* commits can be interrupted by any other handler, by a deletion of the   *)
(* repository, or by the death of the process.                             *)
(*                                                                         *)
(* The database is PostgreSQL, the deployed one: FOR UPDATE on the         *)
(* repositories row excludes every other writer of that row and, through   *)
(* the foreign keys, every insert of a row that refers to it; foreign keys *)
(* of proposals and test cases to entities are enforced.                   *)
(*                                                                         *)
(* A definition introduced by "Fault:" is a seeded bug: no action uses it; *)
(* substituted for the definition that follows it, it must be caught by    *)
(* the property PROJECT.json pairs it with.                                *)
(***************************************************************************)
EXTENDS Naturals

CONSTANTS
  Requests,        \* POST .../analyze calls
  Rows,            \* rows of the analyses table; a call's row bears its name
  None,            \* no row, no lock holder
  MayCrash,        \* may the process die and be restarted?
  DurableUploads   \* does the upload directory survive a restart?

ASSUME RowsAssumption == Requests \subseteq Rows /\ None \notin Rows
ASSUME SwitchesAssumption == {MayCrash, DurableUploads} \subseteq BOOLEAN

------------------------------------------------------------------------------
(* The stages of pipeline_state, in the order the task goes through them.  *)

Stages == {"uploaded", "scanned", "parsing", "aggregating", "graph", "index"}

Rank(s) == CASE s = "uploaded"    -> 1
             [] s = "scanned"     -> 2
             [] s = "parsing"     -> 3
             [] s = "aggregating" -> 4
             [] s = "graph"       -> 5
             [] s = "index"       -> 6

StageStates == {"absent", "pending", "running", "done", "error"}

NoStages      == [s \in Stages |-> "absent"]     \* the column's default, {}
InitialStages == [s \in Stages |-> "pending"]

(* Fault: every transition starts from the initial dictionary.             *)
WithStageForgets(st, s, state) == [InitialStages EXCEPT ![s] = state]

(* Fault: the word for a failed row is stored as the state of its stage.   *)
WithStageTypo(st, s, state) ==
  [(IF st = NoStages THEN InitialStages ELSE st)
     EXCEPT ![s] = IF state = "error" THEN "failed" ELSE state]

(* set_stage and mark_failed copy the dictionary and replace one entry.    *)
WithStage(st, s, state) ==
  [(IF st = NoStages THEN InitialStages ELSE st) EXCEPT ![s] = state]

(* First stage that is not done.                                           *)
CurrentStage(st) ==
  IF st = NoStages THEN "none"
  ELSE IF \A s \in Stages : st[s] = "done" THEN "completed"
  ELSE CHOOSE s \in Stages :
         /\ st[s] # "done"
         /\ \A e \in Stages : Rank(e) < Rank(s) => st[e] = "done"

(* The plain stage transitions of the task: where it is, what it records,  *)
(* and where it goes on.                                                   *)
StageSteps == {
  [from |-> "begun",      stage |-> "uploaded",    state |-> "done",    to |-> "uploaded"],
  [from |-> "uploaded",   stage |-> "scanned",     state |-> "done",    to |-> "scanned"],
  [from |-> "scanned",    stage |-> "parsing",     state |-> "running", to |-> "parsing"],
  [from |-> "parsed",     stage |-> "parsing",     state |-> "done",    to |-> "merging"],
  [from |-> "merging",    stage |-> "aggregating", state |-> "running", to |-> "aggregating"],
  [from |-> "stored",     stage |-> "aggregating", state |-> "done",    to |-> "aggregated"],
  [from |-> "aggregated", stage |-> "graph",       state |-> "done",    to |-> "graphed"],
  [from |-> "analyzing",  stage |-> "index",       state |-> "running", to |-> "indexing"],
  [from |-> "embedded",   stage |-> "index",       state |-> "done",    to |-> "indexed"] }

------------------------------------------------------------------------------
VARIABLES
  repository,  \* repositories.status, or "deleted" when there is no such row
  status,      \* analyses.status of each row, or "absent"
  stages,      \* analyses.pipeline_state of each row
  latest,      \* the row latest_analysis returns
  facts,       \* the rows whose runs' entities, calls, imports... are stored
  chunks,      \* the rows whose runs' search chunks are stored
  references,  \* the runs whose entities a proposal or a test case refers to
  uploads,     \* is the upload directory on disk?
  lock,        \* the call that holds the repositories row FOR UPDATE
  request,     \* where each call to start_analysis is
  task,        \* where the background task of each call is
  target,      \* the analyses row each task works on
  cause        \* the stage a failing task is about to blame

dbVars   == <<repository, status, stages, latest, facts, chunks, references>>
taskVars == <<task, target, cause>>
vars     == <<repository, status, stages, latest, facts, chunks, references,
              uploads, lock, request, task, target, cause>>

RepositoryStatus == {"uploaded", "parsing", "analyzing", "analyzed", "failed", "deleted"}
RowStatus  == {"absent", "queued", "running", "completed", "failed"}
RequestPCs == {"idle", "locked", "clear", "rejected", "inserted", "answered"}
WorkingPCs == {"picked", "begun", "uploaded", "scanned", "parsing", "rooted", "parsed",
               "merging", "aggregating", "cleared", "stored", "aggregated", "graphed",
               "analyzing", "indexing", "dropped", "embedded", "indexed", "failing"}
LivePCs    == WorkingPCs \union {"enqueued"}
TaskPCs    == LivePCs \union {"none", "ended"}

TypeOK ==
  /\ repository \in RepositoryStatus
  /\ status \in [Rows -> RowStatus]
  /\ stages \in [Rows -> [Stages -> StageStates]]
  /\ latest \in Rows \union {None}
  /\ facts \subseteq Rows
  /\ chunks \subseteq Rows
  /\ references \subseteq Rows
  /\ uploads \in BOOLEAN
  /\ lock \in Requests \union {None}
  /\ request \in [Requests -> RequestPCs]
  /\ task \in [Requests -> TaskPCs]
  /\ target \in [Requests -> Rows \union {None}]
  /\ cause \in [Requests -> Stages]

(* A repository that has just been ingested and never analysed.            *)
Init ==
  /\ repository = "uploaded"
  /\ status = [r \in Rows |-> "absent"]
  /\ stages = [r \in Rows |-> NoStages]
  /\ latest = None
  /\ facts = {}
  /\ chunks = {}
  /\ references = {}
  /\ uploads = TRUE
  /\ lock = None
  /\ request = [r \in Requests |-> "idle"]
  /\ task = [t \in Requests |-> "none"]
  /\ target = [t \in Requests |-> None]
  /\ cause = [t \in Requests |-> "parsing"]

InProgress(r) == status[r] \in {"queued", "running"}
Live(t)       == task[t] \in LivePCs

(* Commits that write the repositories row, or insert rows that refer to   *)
(* it, wait for the call that holds it FOR UPDATE.                         *)
RowFree == lock = None
------------------------------------------------------------------------------
(* POST /repositories/{id}/analyze                                         *)

(* Fault: the row is read without FOR UPDATE.                              *)
StartLockUnlocked(r) ==
  /\ request[r] = "idle"
  /\ request' = [request EXCEPT ![r] = "locked"]
  /\ UNCHANGED <<dbVars, uploads, lock, taskVars>>

(* SELECT ... FOR UPDATE: 404 without the row, else wait for it and hold   *)
(* it until the transaction ends.                                          *)
StartLock(r) ==
  /\ request[r] = "idle"
  /\ \/ /\ repository = "deleted"
        /\ request' = [request EXCEPT ![r] = "rejected"]
        /\ UNCHANGED lock
     \/ /\ repository # "deleted"
        /\ RowFree
        /\ request' = [request EXCEPT ![r] = "locked"]
        /\ lock' = r
  /\ UNCHANGED <<dbVars, uploads, taskVars>>

(* Fault: only "running" counts as in progress.                            *)
StartCheckRunningOnly(r) ==
  /\ request[r] = "locked"
  /\ \/ /\ latest # None /\ status[latest] = "running"
        /\ request' = [request EXCEPT ![r] = "rejected"]
        /\ lock' = None
     \/ /\ latest # None => status[latest] # "running"
        /\ request' = [request EXCEPT ![r] = "clear"]
        /\ UNCHANGED lock
  /\ UNCHANGED <<dbVars, uploads, taskVars>>

(* Fault: the 409 leaves the transaction open.                             *)
StartCheckLeak(r) ==
  /\ request[r] = "locked"
  /\ \/ /\ latest # None /\ InProgress(latest)
        /\ request' = [request EXCEPT ![r] = "rejected"]
     \/ /\ latest # None => ~ InProgress(latest)
        /\ request' = [request EXCEPT ![r] = "clear"]
  /\ UNCHANGED <<dbVars, uploads, lock, taskVars>>

(* latest_analysis: 409 while the latest row is queued or running; the     *)
(* refusal ends the transaction.                                           *)
StartCheck(r) ==
  /\ request[r] = "locked"
  /\ \/ /\ latest # None /\ InProgress(latest)
        /\ request' = [request EXCEPT ![r] = "rejected"]
        /\ lock' = None
     \/ /\ latest # None => ~ InProgress(latest)
        /\ request' = [request EXCEPT ![r] = "clear"]
        /\ UNCHANGED lock
  /\ UNCHANGED <<dbVars, uploads, taskVars>>

StartInsert(r) ==
  /\ request[r] = "clear"
  /\ status' = [status EXCEPT ![r] = "queued"]
  /\ stages' = [stages EXCEPT ![r] = InitialStages]
  /\ latest' = r
  /\ request' = [request EXCEPT ![r] = "inserted"]
  /\ lock' = None
  /\ UNCHANGED <<repository, facts, chunks, references, uploads, taskVars>>

(* After the commit: hand the task to the process's background tasks and   *)
(* answer 202.  A row deleted meanwhile makes the refresh raise (500).     *)
StartEnqueue(r) ==
  /\ request[r] = "inserted"
  /\ \/ /\ repository # "deleted"
        /\ task' = [task EXCEPT ![r] = "enqueued"]
     \/ /\ repository = "deleted"
        /\ UNCHANGED task
  /\ request' = [request EXCEPT ![r] = "answered"]
  /\ UNCHANGED <<dbVars, uploads, lock, target, cause>>

(* add_task raised: the row and the repository are failed, answer 503.     *)
StartUnavailable(r) ==
  /\ request[r] = "inserted"
  /\ repository # "deleted"
  /\ RowFree
  /\ status' = [status EXCEPT ![r] = "failed"]
  /\ repository' = "failed"
  /\ request' = [request EXCEPT ![r] = "answered"]
  /\ UNCHANGED <<stages, latest, facts, chunks, references, uploads, lock, taskVars>>

StartStep(r) ==
  StartLock(r) \/ StartCheck(r) \/ StartInsert(r) \/ StartEnqueue(r) \/ StartUnavailable(r)

------------------------------------------------------------------------------
(* run_analysis_task.  It is given the repository's id only.               *)

Goto(t, pc) == task' = [task EXCEPT ![t] = pc]

(* An exception the driver catches: roll back, then blame a stage.         *)
Raise(t, stage) ==
  /\ Goto(t, "failing")
  /\ cause' = [cause EXCEPT ![t] = stage]
  /\ UNCHANGED target

(* It works on whichever row is latest when it starts, unless that row is  *)
(* running already: then it is a duplicate, and returns.                   *)
PickLatest(t) ==
  /\ task[t] = "enqueued"
  /\ latest # None
  /\ IF status[latest] = "running"
     THEN Goto(t, "ended") /\ UNCHANGED target
     ELSE Goto(t, "picked") /\ target' = [target EXCEPT ![t] = latest]
  /\ UNCHANGED <<dbVars, uploads, lock, request, cause>>

BeginRun(t) ==
  /\ task[t] = "picked"
  /\ repository # "deleted"
  /\ RowFree
  /\ status' = [status EXCEPT ![target[t]] = "running"]
  /\ repository' = "parsing"
  /\ Goto(t, "begun")
  /\ UNCHANGED <<stages, latest, facts, chunks, references, uploads, lock, request, target, cause>>

SetStage(t) ==
  /\ repository # "deleted"
  /\ \E step \in StageSteps :
       /\ task[t] = step.from
       /\ stages' = [stages EXCEPT ![target[t]] = WithStage(@, step.stage, step.state)]
       /\ Goto(t, step.to)
  /\ UNCHANGED <<repository, status, latest, facts, chunks, references,
                 uploads, lock, request, target, cause>>

(* Fault: the task waits for the directory to come back.                   *)
LocateRootWaits(t) ==
  /\ task[t] = "parsing"
  /\ uploads
  /\ Goto(t, "rooted")
  /\ UNCHANGED <<dbVars, uploads, lock, request, target, cause>>

(* repository_root lists the upload directory, outside any try: when the   *)
(* directory is gone the exception ends the task and nothing is recorded.  *)
LocateRoot(t) ==
  /\ task[t] = "parsing"
  /\ Goto(t, IF uploads THEN "rooted" ELSE "ended")
  /\ UNCHANGED <<dbVars, uploads, lock, request, target, cause>>

(* Unreadable and unparseable files are skipped; any other exception of    *)
(* the parse loop fails the parsing stage.                                 *)
ParseFiles(t) ==
  /\ task[t] = "rooted"
  /\ Goto(t, "parsed")
  /\ UNCHANGED <<dbVars, uploads, lock, request, target, cause>>

ParseFails(t) ==
  /\ task[t] = "rooted"
  /\ Raise(t, "parsing")
  /\ UNCHANGED <<dbVars, uploads, lock, request>>

(* delete_analysis_facts: chunks, inheritances, calls, entities, imports.  *)
(* Refactor proposals and test cases keep their foreign keys to entities,  *)
(* so the DELETE is refused while there are any.                           *)
ClearFacts(t) ==
  /\ task[t] = "aggregating"
  /\ repository # "deleted"
  /\ \/ /\ references \intersect facts = {}
        /\ facts' = {}
        /\ chunks' = {}
        /\ Goto(t, "cleared")
        /\ UNCHANGED <<target, cause>>
     \/ /\ references \intersect facts # {}
        /\ Raise(t, "aggregating")
        /\ UNCHANGED <<facts, chunks>>
  /\ UNCHANGED <<repository, status, stages, latest, references, uploads, lock, request>>

(* store_parse_results commits once, at its end.                           *)
StoreFacts(t) ==
  /\ task[t] = "cleared"
  /\ repository # "deleted"
  /\ RowFree
  /\ facts' = facts \union {target[t]}
  /\ Goto(t, "stored")
  /\ UNCHANGED <<repository, status, stages, latest, chunks, references,
                 uploads, lock, request, target, cause>>

(* Fault: the wrong stage is blamed.                                       *)
StoreFailsAsIndex(t) ==
  /\ task[t] = "cleared"
  /\ Raise(t, "index")
  /\ UNCHANGED <<dbVars, uploads, lock, request>>

StoreFails(t) ==
  /\ task[t] = "cleared"
  /\ Raise(t, "aggregating")
  /\ UNCHANGED <<dbVars, uploads, lock, request>>

(* The repository is "analyzing" and the row stays "running" until the     *)
(* search index is complete.                                               *)
MarkAnalyzing(t) ==
  /\ task[t] = "graphed"
  /\ repository # "deleted"
  /\ RowFree
  /\ repository' = "analyzing"
  /\ status' = [status EXCEPT ![target[t]] = "running"]
  /\ Goto(t, "analyzing")
  /\ UNCHANGED <<stages, latest, facts, chunks, references, uploads, lock, request, target, cause>>

(* create_index: drop the chunks, embed, store the new chunks.             *)
DropChunks(t) ==
  /\ task[t] = "indexing"
  /\ repository # "deleted"
  /\ chunks' = {}
  /\ Goto(t, "dropped")
  /\ UNCHANGED <<repository, status, stages, latest, facts, references,
                 uploads, lock, request, target, cause>>

StoreChunks(t) ==
  /\ task[t] = "dropped"
  /\ repository # "deleted"
  /\ RowFree
  /\ chunks' = chunks \union {target[t]}
  /\ Goto(t, "embedded")
  /\ UNCHANGED <<repository, status, stages, latest, facts, references,
                 uploads, lock, request, target, cause>>

(* Fault: the exception is logged and the run goes on without an index.    *)
IndexFailsSilently(t) ==
  /\ task[t] = "dropped"
  /\ Goto(t, "embedded")
  /\ UNCHANGED <<dbVars, uploads, lock, request, target, cause>>

(* The embedder raises, or a flush does.  After a failed flush the session *)
(* refuses the handler's own read of repository.id, which raises in its    *)
(* turn, so it is _aggregate's caller that handles it, as "aggregating".   *)
IndexFails(t) ==
  /\ task[t] = "dropped"
  /\ \E stage \in {"index", "aggregating"} : Raise(t, stage)
  /\ UNCHANGED <<dbVars, uploads, lock, request>>

Complete(t) ==
  /\ task[t] = "indexed"
  /\ repository # "deleted"
  /\ RowFree
  /\ repository' = "analyzed"
  /\ status' = [status EXCEPT ![target[t]] = "completed"]
  /\ Goto(t, "ended")
  /\ UNCHANGED <<stages, latest, facts, chunks, references, uploads, lock, request, target, cause>>

(* _fail, in a session of its own: the stage to "error", the row failed.   *)
FailRow(t) ==
  /\ task[t] = "failing"
  /\ repository # "deleted"
  /\ RowFree
  /\ stages' = [stages EXCEPT ![target[t]] = WithStage(@, cause[t], "error")]
  /\ status' = [status EXCEPT ![target[t]] = "failed"]
  /\ UNCHANGED <<latest, facts, chunks, references, uploads, lock, request, target, cause>>

(* Fault: the repositories row is left alone.                              *)
MarkFailedRowOnly(t) == FailRow(t) /\ Goto(t, "ended") /\ UNCHANGED repository

(* Fault: no return after a failed index stage.                            *)
MarkFailedFallsThrough(t) ==
  /\ FailRow(t)
  /\ repository' = "failed"
  /\ Goto(t, IF cause[t] = "index" THEN "indexed" ELSE "ended")

(* The repository fails with the row.                                      *)
MarkFailed(t) ==
  /\ FailRow(t)
  /\ repository' = "failed"
  /\ Goto(t, "ended")

(* The rows are gone: whatever the task reads or writes next raises, and   *)
(* _fail finds nothing to mark.                                            *)
AbandonDeleted(t) ==
  /\ Live(t)
  /\ repository = "deleted"
  /\ Goto(t, "ended")
  /\ UNCHANGED <<dbVars, uploads, lock, request, target, cause>>

TaskStep(t) ==
  \/ PickLatest(t) \/ BeginRun(t) \/ SetStage(t) \/ LocateRoot(t)
  \/ ParseFiles(t) \/ ParseFails(t) \/ ClearFacts(t) \/ StoreFacts(t) \/ StoreFails(t)
  \/ MarkAnalyzing(t) \/ DropChunks(t) \/ StoreChunks(t) \/ IndexFails(t) \/ Complete(t)
  \/ MarkFailed(t) \/ AbandonDeleted(t)
------------------------------------------------------------------------------
(* The rest of the system, as the pipeline sees it.                        *)

(* propose_refactor, or a test run matched to an entity, commits a row     *)
(* that refers to an entity stored now.                                    *)
AddReference ==
  /\ repository # "deleted"
  /\ RowFree
  /\ \E f \in facts \ references : references' = references \union {f}
  /\ UNCHANGED <<repository, status, stages, latest, facts, chunks,
                 uploads, lock, request, taskVars>>

(* DELETE /repositories/{id}: one transaction that removes every row, with *)
(* no regard for a run in progress.  (Losing a race against an insert it   *)
(* rolls back and changes nothing.)                                        *)
DeleteRepository ==
  /\ repository # "deleted"
  /\ RowFree
  /\ repository' = "deleted"
  /\ status' = [r \in Rows |-> "absent"]
  /\ stages' = [r \in Rows |-> NoStages]
  /\ latest' = None
  /\ facts' = {}
  /\ chunks' = {}
  /\ references' = {}
  /\ UNCHANGED <<uploads, lock, request, taskVars>>

(* ... and then the directory, which may fail.                             *)
RemoveUploads ==
  /\ repository = "deleted"
  /\ uploads
  /\ uploads' = FALSE
  /\ UNCHANGED <<dbVars, lock, request, taskVars>>

(* The process dies and is started again: calls and background tasks in    *)
(* flight are lost, open transactions roll back, committed rows stay.      *)
(* Nothing at start-up looks at them.                                      *)
Restart ==
  /\ MayCrash
  /\ request' = [r \in Requests |-> CASE request[r] \in {"locked", "clear"} -> "rejected"
                                     [] request[r] = "inserted"           -> "answered"
                                     [] OTHER                             -> request[r]]
  /\ task' = [t \in Requests |-> IF Live(t) THEN "ended" ELSE task[t]]
  /\ lock' = None
  /\ uploads' \in {uploads, uploads /\ DurableUploads}
  /\ UNCHANGED <<dbVars, target, cause>>

Environment == AddReference \/ DeleteRepository \/ RemoveUploads \/ Restart

Next ==
  \/ \E r \in Requests : StartStep(r) \/ TaskStep(r)
  \/ Environment

(* A call being served and a task in the thread pool keep going until they *)
(* end; clients need not call, and nothing outside is owed.                *)
Served(r) == request[r] # "idle" /\ StartStep(r)

Fairness == \A r \in Requests : WF_vars(Served(r)) /\ WF_vars(TaskStep(r))

Spec     == Init /\ [][Next]_vars
FairSpec == Spec /\ Fairness

------------------------------------------------------------------------------
(* Safety.                                                                 *)

(* Two overlapping calls never both get past "no analysis in progress":    *)
(* at no time are two rows of the repository queued or running.            *)
AtMostOneInProgress ==
  \A q, r \in Rows : InProgress(q) /\ InProgress(r) => q = r

(* Nor do two tasks ever work on the repository's facts at once, however   *)
(* starts, failures, deletions and restarts are interleaved.               *)
OneTaskAtATime ==
  \A t, u \in Requests : Live(t) /\ Live(u) => t = u

(* The documented mutual exclusion, of the rows and of the tasks behind    *)
(* them (routes/pipeline.py:40-60, tasks.py:69-84).                        *)
OneAnalysisAtATime == AtMostOneInProgress /\ OneTaskAtATime

(* What a client that has seen "completed" then reads is the product of    *)
(* that very run: every stage done, its facts and its chunks, no others.   *)
CompletedIsWhole ==
  latest # None /\ status[latest] = "completed" =>
    /\ CurrentStage(stages[latest]) = "completed"
    /\ facts = {latest}
    /\ chunks = {latest}

(* The two status columns the status endpoint reports side by side, in two *)
(* tables, never contradict each other.                                    *)
StatusesAgree ==
  latest # None =>
    repository \in CASE status[latest] = "queued"    -> {"uploaded", "analyzed", "failed"}
                     [] status[latest] = "running"   -> {"parsing", "analyzing"}
                     [] status[latest] = "completed" -> {"analyzed"}
                     [] status[latest] = "failed"    -> {"failed"}
                     [] OTHER                        -> {}

(* While an analysis is in progress its stages advance in order: a stage   *)
(* is started only when all those before it are done.                      *)
StagesInOrder ==
  \A r \in Rows : InProgress(r) =>
    \A s \in Stages :
      /\ stages[r][s] \in {"pending", "running", "done"}
      /\ stages[r][s] # "pending" =>
           \A e \in Stages : Rank(e) < Rank(s) => stages[r][e] = "done"

(* The last stage an analysis has got to.                                  *)
Reached(st) ==
  CHOOSE s \in Stages :
    /\ st[s] # "pending"
    /\ \A e \in Stages : st[e] # "pending" => Rank(e) <= Rank(s)

(* A failed analysis has its error at the last stage it got to, with every *)
(* stage before it done, unless no stage was begun (the task was not       *)
(* enqueued).  There is one exception: after a failed statement in         *)
(* create_index the handler of the index stage raises as well, and the     *)
(* analysis is left with "index" running and the error, for a failure that *)
(* was the index's, at "aggregating" (tasks.py:190-192, 142-145).          *)
FailureIsShown ==
  \A r \in Rows : status[r] = "failed" /\ stages[r] # InitialStages =>
    LET reached == Reached(stages[r])
        Before  == {e \in Stages : Rank(e) < Rank(reached)}
    IN  \/ /\ stages[r][reached] = "error"
           /\ \A e \in Before : stages[r][e] = "done"
        \/ /\ reached = "index" /\ stages[r]["index"] = "running"
           /\ stages[r]["aggregating"] = "error"
           /\ \A e \in Before \ {"aggregating"} : stages[r][e] = "done"

(* What GET pipeline shows of the stages follows the run: they are words   *)
(* it knows, they advance in order, and a failure is shown as the last     *)
(* stage's or in the one way a failing handler leaves it                   *)
(* (services/pipeline.py:32-75, tasks.py:140-206).                         *)
StagesFollowTheRun == TypeOK /\ StagesInOrder /\ FailureIsShown

(* No proposal or test case refers to an entity that has been deleted: the *)
(* foreign keys see to it.                                                 *)
ReferencesResolve == references \subseteq facts

(* A task that outlives its repository resurrects nothing: its writes need *)
(* the rows.                                                               *)
NothingSurvivesDelete ==
  repository = "deleted" =>
    /\ latest = None
    /\ \A r \in Rows : status[r] = "absent"
    /\ facts \union chunks \union references = {}

(* Stated by docs/07-task-breakdown.md:23 ("live status endpoint reports   *)
(* correct stage"): a failed analysis does not report a stage as running.  *)
(* False in the one case that FailureIsShown excepts.                      *)
NoStageLeftRunning ==
  \A r \in Rows : status[r] = "failed" => \A s \in Stages : stages[r][s] # "running"

(* Stated by DECISIONS.md:101 ("re-analysis deletes prior facts first") and *)
(* tests/test_pipeline.py:216: an analysis that got past parsing does not  *)
(* end with the facts of an earlier one still stored.                      *)
RerunReplacesFacts ==
  latest # None /\ ~ InProgress(latest) /\ stages[latest]["parsing"] = "done" =>
    facts \subseteq {latest}

(* A row that is completed or failed is final until it is deleted: no late *)
(* task, and no second failure, rewrites it.                               *)
FinalStatusStays ==
  [][\A r \in Rows : status[r] \in {"completed", "failed"} =>
       status'[r] \in {status[r], "absent"}]_vars

(* The pipeline implements AnalysisJob: the job is the latest row, and a   *)
(* run's results are published when facts and chunks are both its own.     *)
JobState ==
  IF repository = "deleted" THEN "deleted"
  ELSE IF latest = None THEN "none" ELSE status[latest]

Submitted == {r \in Requests : request[r] \in {"inserted", "answered"}}

Published ==
  IF \E r \in Rows : facts = {r} /\ chunks = {r}
  THEN CHOOSE r \in Rows : facts = {r} /\ chunks = {r}
  ELSE None

Job == INSTANCE AnalysisJob WITH
  Jobs <- Rows, job <- JobState, owner <- latest, submitted <- Submitted, results <- Published

JobSpec == Job!Spec

------------------------------------------------------------------------------
(* Liveness.                                                               *)

(* Nobody is left who would move the row on.                               *)
Orphaned(r) ==
  /\ InProgress(r)
  /\ \A t \in Requests : ~ Live(t) /\ request[t] # "inserted"

(* Every accepted analysis ends.  (Only while the process does not die.)   *)
EveryAnalysisEnds ==
  \A r \in Rows : InProgress(r) ~> ~ InProgress(r)

(* Whatever happens, an analysis ends unless its task has died: none waits *)
(* for ever on the row lock, or on another task.                           *)
EveryAnalysisEndsOrIsOrphaned ==
  \A r \in Rows : InProgress(r) ~> (~ InProgress(r) \/ Orphaned(r))
==============================================================================
