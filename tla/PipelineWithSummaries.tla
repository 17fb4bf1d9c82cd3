------------------------ MODULE PipelineWithSummaries ------------------------
(***************************************************************************)
(* AnalysisPipeline together with GET .../summary (and GET .../report,     *)
(* which generates the same summary): a read that stores what it computed  *)
(* in the latest analyses row and, when the repository has none yet,       *)
(* inserts a row of its own with status "completed" and no stages.         *)
(***************************************************************************)
EXTENDS AnalysisPipeline

CONSTANT Readers  \* GET .../summary calls; a row one inserts bears its name

ASSUME ReadersAssumption ==
  Readers \subseteq Rows /\ Readers \intersect Requests = {}

VARIABLE reader    \* where each call is

summaryVars == <<vars, reader>>

ReaderPCs == {"idle", "computing", "updating", "inserting", "inserted", "done"}

SummaryTypeOK == TypeOK /\ reader \in [Readers -> ReaderPCs]

SummaryInit == Init /\ reader = [s \in Readers |-> "idle"]

Turn(s, pc) == reader' = [reader EXCEPT ![s] = pc]

(* Read the repository and its facts and ask the LLM for an overview,      *)
(* which takes seconds; 404 without the repository.                        *)
SummaryStart(s) ==
  /\ reader[s] = "idle"
  /\ Turn(s, IF repository = "deleted" THEN "done" ELSE "computing")
  /\ UNCHANGED vars

(* Only then is the latest analyses row looked up.                         *)
SummaryLookup(s) ==
  /\ reader[s] = "computing"
  /\ Turn(s, IF latest = None THEN "inserting" ELSE "updating")
  /\ UNCHANGED vars

(* Fault: the whole row is written back, not the summary column alone.     *)
SummaryUpdateWholeRow(s) ==
  /\ reader[s] = "updating"
  /\ Turn(s, "done")
  /\ IF latest # None THEN status' = [status EXCEPT ![latest] = "completed"]
                      ELSE UNCHANGED status
  /\ UNCHANGED <<repository, stages, latest, facts, chunks, references,
                 uploads, lock, request, taskVars>>

(* UPDATE of the summary column alone: status and stages keep the values   *)
(* the task gave them.  Without the row the flush raises.                  *)
SummaryUpdate(s) ==
  /\ reader[s] = "updating"
  /\ Turn(s, "done")
  /\ UNCHANGED vars

(* Fault: the insert does not need the repository (foreign keys off).      *)
SummaryInsertUnchecked(s) ==
  /\ reader[s] = "inserting"
  /\ Turn(s, "inserted")
  /\ RowFree
  /\ status' = [status EXCEPT ![s] = "completed"]
  /\ latest' \in IF latest = None THEN {s} ELSE {s, latest}
  /\ UNCHANGED <<repository, stages, facts, chunks, references,
                 uploads, lock, request, taskVars>>

(* INSERT of a "completed" row.  Its created_at is taken before the insert *)
(* can be made to wait for a call that holds the repositories row, so a    *)
(* row inserted since the lookup may be the later or the earlier one.      *)
(* Without the repository the foreign key refuses the row.                 *)
SummaryInsert(s) ==
  /\ reader[s] = "inserting"
  /\ \/ /\ repository = "deleted"
        /\ Turn(s, "done")
        /\ UNCHANGED vars
     \/ /\ repository # "deleted"
        /\ Turn(s, "inserted")
        /\ RowFree
        /\ status' = [status EXCEPT ![s] = "completed"]
        /\ latest' \in IF latest = None THEN {s} ELSE {s, latest}
        /\ UNCHANGED <<repository, stages, facts, chunks, references,
                       uploads, lock, request, taskVars>>

SummaryStep(s) ==
  SummaryStart(s) \/ SummaryLookup(s) \/ SummaryUpdate(s) \/ SummaryInsert(s)

(* A restart loses the calls in flight here too.                           *)
RestartAll ==
  /\ Restart
  /\ reader' = [s \in Readers |-> IF reader[s] \in {"idle", "inserted"}
                                THEN reader[s] ELSE "done"]

SummaryNext ==
  \/ \E r \in Requests : (StartStep(r) \/ TaskStep(r)) /\ UNCHANGED reader
  \/ (AddReference \/ DeleteRepository \/ RemoveUploads) /\ UNCHANGED reader
  \/ RestartAll
  \/ \E s \in Readers : SummaryStep(s)

SummarySpec == SummaryInit /\ [][SummaryNext]_summaryVars

(* As in AnalysisPipeline: what is being served or run goes on to its end. *)
SummaryFairness ==
  /\ \A r \in Requests : /\ WF_summaryVars(Served(r) /\ UNCHANGED reader)
                        /\ WF_summaryVars(TaskStep(r) /\ UNCHANGED reader)
  /\ \A s \in Readers : WF_summaryVars(reader[s] # "idle" /\ SummaryStep(s))

FairSummarySpec == SummarySpec /\ SummaryFairness

------------------------------------------------------------------------------
(* No summary has inserted a row: each was asked for when the repository   *)
(* had an analyses row already, or is not done.                            *)
NoneInserted == \A s \in Readers : reader[s] # "inserted"

(* A summary that stores itself in the latest row disturbs nothing that    *)
(* the pipeline promises, whenever it comes and however long it took.      *)
UpdatesAreHarmless ==
  NoneInserted => /\ AtMostOneInProgress
                  /\ OneTaskAtATime
                  /\ CompletedIsWhole
                  /\ StatusesAgree

(* Summaries are harmless: the ones that update disturb nothing, and the   *)
(* ones that insert leave nothing behind a deletion (summary.py:249-266).  *)
SummariesAreHarmless ==
  SummaryTypeOK /\ NothingSurvivesDelete /\ UpdatesAreHarmless

(* Even when a summary's row has let two tasks work on one repository, on  *)
(* one row or on two, none of them waits for ever: every task returns.     *)
EveryTaskEnds == \A t \in Requests : Live(t) ~> ~ Live(t)
==============================================================================
