----------------------------- MODULE AnalysisJob -----------------------------
(***************************************************************************)
(* What the analysis of one repository promises its clients, with none of  *)
(* the machinery: no locks, tasks, stages, sessions or crashes.            *)
(*                                                                         *)
(* A repository has at most one job in progress.  A job is submitted,      *)
(* begins, and succeeds or fails once.  The published results (graph facts *)
(* and search index together) belong to one job; only a job that is        *)
(* running may withdraw them or replace them by its own, and it succeeds   *)
(* only after it has published its own.                                    *)
(*                                                                         *)
(* AnalysisPipeline implements this specification (its property Job).      *)
(***************************************************************************)
CONSTANTS Jobs,   \* identities of jobs
          None    \* "no job"

VARIABLES
  job,        \* state of the latest job, or "none", or "deleted"
  owner,      \* the latest job
  submitted,  \* every job there has been
  results     \* the job whose complete results are published, or None

jobVars == <<job, owner, submitted, results>>

InProgress == job \in {"queued", "running"}

Init ==
  /\ job = "none"
  /\ owner = None
  /\ submitted = {}
  /\ results = None

(* A job is only ever submitted while no other one is in progress.         *)
Submit(j) ==
  /\ ~ InProgress
  /\ job # "deleted"
  /\ j \notin submitted
  /\ job' = "queued"
  /\ owner' = j
  /\ submitted' = submitted \union {j}
  /\ UNCHANGED results

Begin ==
  /\ job = "queued"
  /\ job' = "running"
  /\ UNCHANGED <<owner, submitted, results>>

Withdraw ==
  /\ job = "running"
  /\ results' = None
  /\ UNCHANGED <<job, owner, submitted>>

Publish ==
  /\ job = "running"
  /\ results' = owner
  /\ UNCHANGED <<job, owner, submitted>>

Succeed ==
  /\ job = "running"
  /\ results = owner
  /\ job' = "completed"
  /\ UNCHANGED <<owner, submitted, results>>

Fail ==
  /\ InProgress
  /\ job' = "failed"
  /\ UNCHANGED <<owner, submitted, results>>

Delete ==
  /\ job # "deleted"
  /\ job' = "deleted"
  /\ owner' = None
  /\ results' = None
  /\ UNCHANGED submitted

Next ==
  \/ \E j \in Jobs : Submit(j)
  \/ Begin \/ Withdraw \/ Publish \/ Succeed \/ Fail \/ Delete

Spec == Init /\ [][Next]_jobVars
==============================================================================
