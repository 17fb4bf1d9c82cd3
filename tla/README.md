# CodeOracle in TLA+

CodeOracle takes a repository (an uploaded archive or a git URL), analyses its
Python and Java sources in a background pipeline, and offers what it found
through a web client: a dependency graph, semantic search, explanations,
generated tests with measured coverage, refactor proposals with a safety score.
This directory holds TLA+ models of the parts of it whose correctness depends on
the order of things, TLC runs that check them on small instances, and theorems
about all of them, proved with TLAPS for instances of any size.

Paths below are relative to `src/`; `app/` stands for `backend/app/`.

## 1. The system

| component | state it keeps | operations | talks to |
|---|---|---|---|
| **Ingestion** `app/services/ingestion.py`, `app/api/routes/repositories.py` | `repositories` and `files` rows, a work directory per repository | upload, git import, delete | pipeline (rows and files it reads) |
| **Analysis pipeline** `app/api/routes/pipeline.py`, `app/workers/tasks.py`, `app/services/pipeline.py`, `app/services/analysis.py` | `analyses` rows (status, `pipeline_state`), `repositories.status`, facts (`entities`, `calls`, `imports`, `inheritances`) | POST analyze, the task `analysis.run`, GET status | semantic index, ingestion |
| **Semantic index** `app/index/` | `chunks`, `embedding_cache` | `create_index`, `search` | embedder (local, or an HTTP API) |
| **Summary and report** `app/services/summary.py`, `report.py` | the summary column of the latest `analyses` row, or a row of its own | GET summary, GET report | LLM gateway, `analyses` |
| **Test generation, sandbox runs, repair** `app/services/test_generator.py`, `sandbox_runner.py`, `app/api/routes/tests.py` | `test_runs`, `test_cases` (which refer to entities) | generate, generate-uncovered | LLM gateway, sandbox |
| **Sandbox** `backend/sandbox/` | none (a container or a local process per run) | run, stage, policy, coverage report | - |
| **Refactor and safety** `app/services/refactor.py`, `behavior.py`, `safety.py` | `refactor_proposals` (which refer to an entity) | propose, list, score | LLM gateway, sandbox, impact |
| **Graph and impact** `app/services/graph.py`, `impact.py` | none | graph with cycles, callers of an entity | facts |
| **Explanation** `app/services/explanation.py` | none | explain, evaluate grounding | LLM gateway, facts, sources |
| **LLM gateway** `app/llm/` | counters of a client object | complete, complete_json | HTTP providers |
| **Analyzers** `app/analyzers/` | none | parse a Python or Java file | - |
| **Web client** `frontend/src/` | React state, module-level "latest request" guards, timers | pick, upload, import, re-analyse, generate, propose, live polling, entity details | the HTTP API |

Requests are served by threads of one web process (`uvicorn`), and tasks run in
threads of the same process once the request that enqueued them is answered
(FastAPI's `BackgroundTasks`, `app/api/routes/pipeline.py:63`; `run_analysis_task`
is also a Celery task, which nothing sends to a worker). They share PostgreSQL and
the upload directory, and nothing else: every interaction of the back end is a read
or a commit of one of them between two of another. The client is one browser event
loop, whose continuations interleave at each `await`.

### What makes them correct, and what makes that hard

* **Pipeline.** One analysis at a time for a repository; a row's stages advance
  in order; a completed analysis has its own facts and index; an accepted
  analysis ends; nothing outlives a deletion. Hard because the request, the task
  and the deletion commit many small transactions, a task names its repository
  and not its analysis, failures are written by handlers that use the session
  that failed, and a restart loses tasks (and, as deployed, the uploads).
* **Summary.** A read that writes: it must not undo what a task committed since.
* **Semantic index.** Each vector belongs to its text; searches see whole builds, of two
  only if these overlapped; a call fails only when it must. Hard because hits, misses,
  batches and out-of-order answers are recombined by position, and concurrent calls
  insert under one unique key.
* **Repair.** The loop stops for a documented reason within its budget; what is
  returned is what is stored; stored cases refer to entities that exist. Hard
  because a run takes three transactions and minutes of sandbox time, while other
  calls, analyses and deletions commit.
* **Ingestion.** A stored repository has its files while the disk has, a refused one
  leaves nothing, a deletion says truly what became of them. Hard because files and rows
  are two stores, and an exception, a restart or a second request may come between any
  step on one and the next on the other.
* **Gateway, proposals, safety.** What a request makes of the provider is what the
  provider's answers deserve; a proposal is stored and of one author; a score claims
  no verdict without a run and rests on one analysis. Hard because what was read
  before the gateway's attempts (minutes, at worst) is used after them, and because
  five functions each turn some failures into a fallback.
* **Facts, graph, impact, explanation.** Every call is filed once; the graph does
  not depend on the order of rows; what the graph draws, the impact lists; what an
  explanation cites stands somewhere, and its code is the file's where the file has
  any. Hard because the same question (who calls this?) is
  answered by three algorithms over tables keyed by names that are not unique.
* **Sandbox.** What is reported of a run is true of it and every run ends. Hard
  because two reader threads, the docker client, the container and a time-out race.
* **Client.** What is shown belongs to what is selected; spinners stop; polls
  end. Hard because guards compare with a mutable reference after every `await`,
  and because several loads, polls and handlers are out at once.

`PROJECT.json` lists the hazards one by one, each with its line and the
properties that would catch it going wrong.

## 2. Modules

| module | models | lines up with |
|---|---|---|
| `AnalysisJob` | the promise of the pipeline: a job is submitted, begins, publishes, ends; one at a time | docs/03-data-model.md:173 |
| `AnalysisPipeline` | one repository's requests, tasks, rows, deletion, restart | the pipeline, and what `delete_repository` and `propose` do to its rows |
| `PipelineWithSummaries` | the same with GET summary / report | EXTENDS it; `app/services/summary.py` |
| `AnalysisPipelineProofs` | theorems of the pipeline, that it implements `AnalysisJob`, and theorems of `PipelineWithSummaries` | section 5 |
| `EmbeddingIndex` | builds and searches over one table of vectors | `app/index/service.py`, `embeddings.py` |
| `CoverageRepair` | generations and repairs over one repository's runs | `test_generator.py`, `sandbox_runner.py` |
| `Workspace` | the client's App component | `frontend/src/App.tsx` |
| `EntityDetails` | the explanation tab and the request guards | `ExplanationTab.tsx`, `services/api.ts` |
| `Ingestion` | uploads, imports, deletions and test runs over work directories and rows | `api/routes/repositories.py`, `ingestion.py`, `scanner.py` |
| `LLMGateway` | a call of the gateway: provider, budget, attempts, outcome | `app/llm/gateway.py` |
| `RefactorProposals` | propose and safety requests across a call of the gateway | EXTENDS it; `refactor.py`, `safety.py` and their routes |
| `SourceFacts` | what the parsers take from a syntax tree | `analyzers/python_parser.py`, `java_parser.py` |
| `KnowledgeGraph` | rows, graph, impact and issues as operators over it | EXTENDS it; `analysis.py`, `graph.py`, `impact.py`, `summary.py` |
| `Knowledge` | the requests that ask for them, and explanations | EXTENDS it; `explanation.py` |
| `SandboxRun` | one execution of tests: client, container, readers, time-out | `sandbox/run.py`, `policy.py`, `stage.py`, `sandbox_runner.py` |
| `EmbeddingIndexProofs`, `CoverageRepairProofs`, `IngestionProofs`, `RefactorProposalsProofs` (with the gateway), `SandboxRunProofs`, `KnowledgeProofs` (with the two modules below it) | theorems, each about the module it names | section 5 |
| `ClientProofs` | theorems of `Workspace` and of `EntityDetails`, whose names are distinct for it | section 5 |
| `MCEmbeddingIndex`, `MCIngestion`, `MCRefactorProposals`, `MCKnowledge`, `MCSandboxRun` | the values of constants for TLC | - |

**AnalysisPipeline.** `status`, `stages` and `latest` are the `analyses` rows (`latest`
is what `latest_analysis` returns), `repository` the repository's own status, `facts`
and `chunks` the analyses whose entities and chunks are stored, `references` the
analyses whose entities a proposal or test case refers to, `lock` the `FOR UPDATE` lock,
`request` and `task` the program counters of POST analyze and of the task it enqueued,
`target` the row a task picked. An action is one transaction, or one read on which a
later step depends: `StartLock`, `StartCheck`, `StartInsert`,
`StartEnqueue`/`StartUnavailable` (the handler of an `add_task` that raises) are
`start_analysis`; `PickLatest` to `Complete` are `run_analysis_task`, `_aggregate` and
`_index`, `SetStage` standing for each eager commit of `set_stage`; `Raise`, `FailRow`,
`MarkFailed`, `IndexFails`, `StoreFails` the exception paths. The duplicate that
`PickLatest` ignores needs two tasks at once, which only the rows of
`PipelineWithSummaries` make possible. `Restart` kills what is in flight, and the
uploads when `DurableUploads` is FALSE (`render.yaml` mounts no disk).

**EmbeddingIndex.** A text stands for its hash and a vector for the text it was made
from. `index` holds the rows of `chunks` by the build that stored them: a `StartBuild`
drops all rows of its repository, in a transaction of its own, and `StoreChunks` adds
rows to whatever is there by then, or is refused. Nothing keeps two builds of one
repository apart; `beside` is a history variable, the builds of the same repository that
were at work when a build began. `LookUp` is the one SELECT; `AnswerArrives` a batch's
answer in any order, or short of an item; `StoreVectors` the commit of the new rows,
which the unique key may refuse. `caching` is the setting `EMBEDDING_CACHE`, either way.
Python's `sorted` and the order of a comprehension are `Ascending`, the one ascending
list of a set of numbers: a definition by its property, which can be reasoned about
where a recursive sort cannot.

**CoverageRepair.** `runs` is the `test_runs` table in order of creation;
`Measure`, `StoreCases` and `Finish` are the three commits of an iteration.
Coverage and verdict are open: any level may be measured. `read` is the analysis whose
functions a call holds in its session. A commit expires them and the next use reads
them again: when a re-analysis has taken them, the call ends with an error while its
run stays stored (`BreakOff`, `test_generator.py:378`, `:567`).

**Workspace.** `repositoryId` and `activeRepositoryRef` are the two copies of the
selection; `shown`, `proposal` and `safety` say whose data each pane shows.
A handler (`at`) and the poll it starts (`poll`) bear one name. React runs the
effect of a new selection before the next event, and the model makes it part of
the step that selects.

**EntityDetails.** The spinner is `loadingExplanation`, what the panes show `displayed`.
A selection makes one guarded request per pane; `awaits` is the request a call turned
to, `got` what it returned.

**Ingestion.** A repository's id is the request that made it; `dir` is its work
directory, `row` its rows, `pc` and `answer` each request. An upload goes
`MakeWorkdir`, `StreamChunk`/`StreamEnd`, `ExtractArchive` or one of the ways to
fail, `Scan` within `Store`, `Refresh`; an import `ValidateUrl`, `Clone`, and the
same end. A deletion is `ReadRepository`, `CommitDeletion`, `CheckWorkdir`,
`RemoveWorkdir`. `LoopBusy` is the coroutine that unpacks and scans without
awaiting: no request is accepted meanwhile. A test run is `ReadTested`,
`LocateSources` before the model is asked, `StageTests` before the tests run, and
`StoreTestRun`, at which it is answered; either of the two in the middle makes the
directory of an upload anew when it is gone (`RepositoryRoot`, remembered in the
history variable `remade`). A `Restart` keeps the files or, when `DurableUploads` is
FALSE, loses them, remembered in `lost`.

**LLMGateway, RefactorProposals.** A call of the gateway is `Complete` (provider,
budget) and an `Attempt` for each request it sends; `ReadReply` says what each kind
of body is for each provider, `Return` what the caller gets. `req` holds what a
request has read before its call and uses after it (`ReadEntity`, `InsertProposal`;
`ReadProposal`, `ScoreProposal`); `entity` is the id of the one entity looked at,
which `Reanalyze` changes. `Draft` and `Gated` are the author of each field and the
gate that drops code which does not parse; `ListedCallers` passes over calls at
module level, which the dependency impact counts; `BreakingChanges`, `MatchingRuns` and
`Totals` the score.

**SourceFacts, KnowledgeGraph, Knowledge.** A source is a syntax tree of classes,
definitions, blocks, calls and imports in the order of the text. `Entities`,
`OwnCalls`, `Resolved` are the parsers; `StoreParseResults` with `EntityId` and
`NameToId` is `_store_file` and its tables; `Resolve`, `CallEdges`, `Dependencies`,
`ModuleCycles`, `BuildGraph` are `graph.py`, given an order of the rows, which the queries
leave open; `CalculateImpact` is `impact.py`; `Issues`, `HighRiskEntities`,
`GenerateSummary` the part of `summary.py` that computes. Each item stands on a line,
and two calls may share one. `Knowledge` parses and stores a repository, asks for each
answer, and lets a deletion or the loss of the files come between the two halves of an
explanation (`AskExplanation`, `ReceiveExplanation`). A reply may cite an empty line,
lines past the end, a file that was never analysed and `Outside`, a path that leads out
of the work directory; `Declared` is the entity's own source, cited instead when the
model cites nothing.

**SandboxRun.** `todo`, `pipe` and `reader` are each stream's unwritten output, the
pipe and the thread behind it; `client` and `container` are two processes, of which
the second may start after a kill meant for it (`missed`); `main` is the thread in
`run()`. Output is counted in units of the kinds the parsers tell apart. `DaemonRefuses`
is the daemon that cannot start the container: docker itself then exits with 125, the
code the sandbox uses for its own output limit, so `OurKillIsNotTheirs` allows 125 for
a run that wrote nothing. The test report is printed after the run's own coverage and
quotes the output of failing tests, so a forged line may come last: `CoverageIsTheRuns`
says that only then, or when the run's own line was not kept, is a forged one taken.

A definition introduced by "Fault:" is a plausible bug of the definition that
follows it. Nothing uses it; substituted, it makes the property fail that
`PROJECT.json` pairs with it, which shows that the property is about the code. Sibling
invariants of one question are checked as one conjunction (`RowsAreSound`,
`FilesAndRowsAgree`, `ScoresAreSound`, `GraphIsSound`, ...); each part has a comment
and, where it says something of its own, a fault of its own.

## 3. Runs

Passing:

| run | instance | shows |
|---|---|---|
| `pipeline` | 3 calls of analyze, restarts, lost uploads, deletion, references, with fairness | types, one analysis and one task at a time, completed is whole, statuses agree, stages follow the run, `AnalysisJob` is implemented; an analysis ends unless a restart or a lost upload took its task |
| `summaries` | 2 calls, 1 summary, restarts, deletion | a summary that updates a row disturbs nothing; one that inserts a row leaves nothing behind a deletion; two tasks on one repository block one another in no order |
| `embedding_index` | 2 builds, of one repository or of two, overlapping or one after the other, 1 search, 2 texts, batches of 2, 1 retry | vectors are their texts', whole builds or nothing, two together only if they overlapped, failures have one of two reasons, of the calls that asked for a text at most one succeeds, every call ends |
| `repair` | 1 repair of at most 1 or 2 iterations, 1 generation that may make its baseline, 1 re-analysis, deletion, restarts, coverage 0, 60 or 70, target 60 or 80 | what is answered is stored, stored rows are sound, the loop stops in time and for a reason, every call ends |
| `ingestion` | 1 upload (7 archives), 1 import (an empty tree), 2 deletions, 1 test run, 1 restart that keeps or loses the files | files and rows agree, every directory left over has one of six causes, what was accepted is within the limits, deletions are answered truly |
| `proposals` | 1 propose and 1 safety request, 3 providers, 1 retry, 2 analyses, deletion, lost uploads, test runs | the gateway's outcome is what its attempts deserve, a proposal is of one author, stored when answered, and requests end; scores claim no verdict, tell of renamed parameters and rest on one analysis |
| `knowledge` | 147 repositories of 2 or 3 small files, every order of rows that matters, 7 replies of the model, deletion, lost files | calls are filed once under their caller, the graph is sound, cycles are told of, impact covers graph and summary, explanations are grounded |
| `sandbox` | 15 programs, output limit 4, reads of 2, pipes of 2, with and without docker | a report is true of its run, our kills are told from others', a container left over is one whose kill came too early, every run ends |
| `workspace` | 2 repositories (one brought by a handler), 2 handlers of any kind, 2 picks, polls of 2 requests | after a pick nothing of another repository is shown, the spinner stops unless a handler was abandoned, every poll ends |
| `entity_details` | 3 selections, 2 panes, requests that may fail | of two selections the newer is shown, the spinner stops, every selection is settled |

Why these bounds: three calls are the least at which a refused, a running and a failed
analysis coexist; two of each actor suffice for every race listed under hazards, since
each is between two commits of one and a commit of another; two iterations have a first
and a last, and the levels of coverage lie below, at and above a target (a break-off in
a later iteration than the first repaired one is covered by the proofs only: with three
iterations TLC does not end in time); a content of three texts in batches of two has a
full and a partial batch and a repeated text; two picks go away and come back; three
selections are the least at which an answer reaches a call through two guards. The
archives stand at each limit and one past it; two deletions are needed for one to remove
what the other has checked. One propose and one safety request meet every step of the
environment on either side of their gateway calls, and one retry has a first and a last
attempt. The small sources have each construct that the name tables confuse (namesakes,
overloads, a class and a method of one name, nested and conditional definitions, rings
of two and three imports). The programs write less than, exactly and more than is kept,
on either stream.

Violations, each a statement of the repository that its code does not keep:

| run | property | what TLC shows |
|---|---|---|
| `pipeline_stuck` | `EveryAnalysisEnds` | a restart leaves an analysis in progress for ever and every later request is refused with 409; the documented time limit (DECISIONS.md:103) is used by nothing |
| `pipeline_rerun` | `RerunReplacesFacts` | once a proposal or a test case refers to an entity, a re-analysis cannot delete the earlier facts and fails |

Nine further properties state what a comment or document says and are false of
the model as well; they have no run of their own, and a configuration that names
the property as an INVARIANT reproduces each:

* `AnalysisPipeline!NoStageLeftRunning` (2 calls; docs/07-task-breakdown.md:23): a
  database error inside `create_index` leaves the session in need of a rollback, the
  handler's own `repository.id` raises (`app/workers/tasks.py:191`), and the outer
  handler blames `aggregating` while `index` stays `running` in a failed analysis.
  `FailureIsShown` states what is true: this is the only such case.
* `PipelineWithSummaries!OneTaskAtATime` (2 calls, 1 summary; docs/03-data-model.md:173):
  a summary asked for before the first analysis inserts a `completed` row
  (`app/services/summary.py:257`) that may come out as the latest one over a running
  analysis; a second task starts.
* `CoverageRepair!RepairRaisesCoverage` (1 repair, budget 2;
  docs/07-task-breakdown.md:52): the loop returns its last run, not its best
  (`app/services/test_generator.py:590`); code that breaks the suite stays in every
  later iteration (:575).
* `CoverageRepair!ReachedIsTheDefaultTarget` (target 50; docs/03-data-model.md:139): the
  verdict on the caller's target is stored beside the default one
  (`test_generator.py:582`).
* `EmbeddingIndex!NothingIsAskedTwice` (docs/07-task-breakdown.md:31): two chunks of one
  text are asked for twice (`app/index/service.py:99`); the build can then not insert
  the text twice, and fails at every attempt.
* `Ingestion!FailedUploadLeavesNothing` (1 upload; DECISIONS.md:73): an upload that ends
  by an exception other than an `HTTPException` is answered with 500 and leaves its
  directory (`app/api/routes/repositories.py:77`). `RefusedUploadLeavesNothing` states
  what is true: 413 and 422 leave nothing.
* `RefactorProposals!OnlyTheLLMProposes` (DECISIONS.md:180, tests/test_refactor.py:111):
  without an answer a proposal is written by the fallback and stored as any other.
* `Workspace!ScoreIsOfProposal` (docs/01-prd.md:83): the safety score of one proposal
  stays beside another (`App.tsx:280`).
* `EntityDetails!NewestIsShown` (2 selections; services/api.ts:13): a selection answered
  in part before it was superseded is shown after the newer one, the explanation of one
  entity beside the source of another.

### Divergences seen while modelling

Each is in the model as the code has it, or in data the model leaves out:

* `app/llm/gateway.py:107` promises a prompt within the budget; it is cut to four
  characters a token while the estimate also counts words and symbols, so that what is
  cut may still exceed it.
* `app/services/summary.py:107` reads `globals_used`, `analysis.py:144` stores
  `globals`: global state is never reported as an issue.
* `app/services/explanation.py:412` says that evidence is checked against the actual
  repository and lines outside the file are rejected. No check keeps a cited path within
  the repository: an absolute one or one with `..` passes if the host has such a file
  (:423), and that file's lines are shown. Lines past the end of a file pass too.
  Whenever nothing is read there, past the end, on a single empty line, or of a file
  that is no longer on disk, the model's own text is shown as the code (:437-438).
  `CodeIsShownWhereItStands` says so much and no more. When all that the model cited is
  thrown away, nothing is cited instead (:386).
* `app/services/impact.py:78` lists the calls of one caller on one line as one, while the
  graph (`graph.py:207`) and the summary (`summary.py:153`) count each: `f(a) + f(b)` is a
  fan-in of two with one caller listed. `FanInIsWithinTheImpact` excepts such lines
  (`OnLinesApart`); one of the repositories of `knowledge` has one.
* `app/services/summary.py:341`: the evidence of a module summary is not validated.
* `app/services/explanation.py:213` looks callers up without the suffix match that
  `impact.py:49` uses.
* `app/services/sandbox_runner.py:210`: Java without docker is reported as passed, with
  65 % coverage and 3 tests, though nothing ran (against README.md:45);
  `PassedMeansItRan` excepts it.
* `sandbox/run.py:158`: any markup in the output makes the report of tests unreadable,
  and the counts are lost; a brace after the coverage in its line loses the coverage.
* `app/services/safety.py:174` looks for a run by `tested_proposal_id`, which no code
  writes: the verdicts at :186-200 are out of reach and behaviour stays UNVERIFIED
  (README.md:62), which is what `NothingIsVerified` says.
* `app/services/safety.py:36` compares ordinary parameters only: keyword-only,
  positional-only and variadic ones may be renamed unreported.
* `app/services/safety.py:56`: calls at module level are not listed as affected, and
  counted in the dependency impact (:209).
* `app/services/safety.py:33`: a method's source is indented and does not parse by
  itself, so renamed parameters of methods go unreported without the LLM; for the same
  reason the fallback for a method (`refactor.py:272`) is always dropped by the gate.
* `app/services/analysis.py:58` takes `import pkg.x` for an external module.
* `app/services/sandbox_runner.py:227`, `test_generator.py:316`: a test run that outlives
  a deletion makes the work directory anew, minutes before it is answered, and no
  request can remove it.
* `app/services/test_generator.py:378`: a generation whose functions a re-analysis took is
  answered with an error although its run was made and is stored.
* `app/index/service.py:137`: two builds of one repository may overlap (a summary can let
  a second task start), and leave the chunks of both, each entity twice.
* `app/api/routes/repositories.py:60`: the handler of an upload unpacks and scans
  on the event loop, and every other request waits.
* `App.tsx:84`: a load that began before the end of an analysis and arrives after it
  sets the status back. `App.tsx:92`: a handler that starts polling after its awaits
  makes its repository the active one though another is selected by then
  (`SelectionIsShown` speaks of the time before that, `picked`). `App.tsx:159`: a
  repository picked while it is analysed, or found so when the page is loaded, is not
  polled. `App.tsx:181`: an upload keeps the panes of the repository before.

## 4. Fairness

Weak fairness of every step that a thread, the database or the event
loop takes by itself: statements end, HTTP calls have time-outs (LLM and embedder
60 s, a sandbox run its limit), the browser gives a request up, timers fire, the
loop runs what is due. It is stated per actor, since threads and tasks are
scheduled independently. No fairness for what a user or the environment may
choose never to do: requests, picks, deletions, restarts, references. A task that
a restart has killed is over, so `pipeline` asks only that an analysis ends
or has lost its task; `pipeline_stuck` is the run that asks for more and is
refused. For `pipeline_stuck` fairness is stated as well: TLC's counterexample
is one in which everything that can go on has gone on.

In `Ingestion` the steps of an accepted request are fair and the arrival of
requests is not; in `RefactorProposals` so are the attempts of the gateway, each of
which ends by its time-out. In `SandboxRun` the threads, the kills and the time-out
are fair, the program and the container are not: a program may hang or never
write, docker may never start it, and the run ends all the same, given
that `docker kill`, which is called without a time-out, returns. `Knowledge` claims
nothing of the kind.

## 5. Theorems

Eight modules hold theorems, about every module of the system, for every value of their
constants: any number of requests, calls, handlers or restarts, any limits, budgets,
batch and pipe sizes. What is assumed of the constants are the named assumptions each
module declares (kinds of requests are disjoint, `None` is no name, bounds are numbers,
switches Boolean); TLC evaluates them in every run.

In each module `InvariantHolds` is `Spec => []IInv` for the inductive invariant `IInv`,
and `TypeCorrect` is `Spec => []TypeOK` (which in the pipeline is a conjunct of `IInv`). A
lemma `...Safe` per action shows that the action keeps `IInv`, `NextSafe` puts them
together, and the properties follow from `IInv` without looking at a step again.

| module | theorem | of |
|---|---|---|
| `AnalysisPipelineProofs` | `NoOverlap`, `OneTask`, together `OneAnalysis` | `[]AtMostOneInProgress`, `[]OneTaskAtATime`; `[]OneAnalysisAtATime` |
| | `CompletedWhole`, `StatusesAgreeAlways` | `[]CompletedIsWhole`, `[]StatusesAgree` |
| | `StagesAdvanceInOrder`, `FailuresAreShown`, together `StagesAlwaysFollowTheRun` | `[]StagesInOrder`, `[]FailureIsShown`; `[]StagesFollowTheRun` |
| | `FinalStays` | `FinalStatusStays`, an action property |
| | `PipelineImplementsJob` | `JobSpec`: `Spec => Job!Spec` |
| | `SummariesAlwaysHarmless` | `SummarySpec => []SummariesAreHarmless` |
| `EmbeddingIndexProofs` | `VectorsAlwaysTheirTexts` | `[]VectorsAreTheirTexts` |
| | `SearchesAlwaysSeeWholeBuilds` | `[]SearchSeesWholeBuilds` |
| | `RefusalsAreAlwaysCollisions` | `[]RefusalsAreCollisions`, the safety half of `CallsEndForAReason` |
| `CoverageRepairProofs` | `RowsAreAlwaysSound`, `AnswersAreAlwaysStored`, `RepairsAlwaysStopInTime` | `[]RowsAreSound`, `[]AnswerIsStored`, `[]StopsInTime` |
| | `MeasurementsAlwaysStay` | `MeasurementsStay`, an action property |
| `ClientProofs` | `ScreenIsAlwaysOfTheSelection`, `SpinnerAlwaysStops` | `[]ScreenIsOfTheSelection`, `[]SpinnerStops` (`Workspace`) |
| | `PaneIsAlwaysCurrent` | `DetailsSpec => []PaneIsCurrent` (`EntityDetails`) |
| `IngestionProofs` | `RowsAlwaysHaveFiles`, `CleanedAlwaysMeansGone` | `[]RowsHaveFiles`, `[]CleanedMeansGone` |
| | `FilesAndRowsAlwaysAgree`, `LeaksAlwaysExplained`, `AcceptedAlwaysWithinLimits` | `[]FilesAndRowsAgree`, `[]LeaksAreExplained`, `[]AcceptedIsWithinLimits` |
| | `RowsAlwaysGoOneWay` | `RowsGoOneWay`, an action property |
| `RefactorProposalsProofs` | `OutcomesAreAlwaysEarned` | `[]OutcomeIsEarned` (`LLMGateway`) |
| | `ProposalsAlwaysOfOnePiece`, `ScoresAlwaysSound` | `[]ProposalIsOfOnePiece`, `[]ScoresAreSound` |
| | `AnsweredProposalsAlwaysStored` | `[]AnsweredProposalIsStored` |
| `SandboxRunProofs` | `ReportsAreAlwaysTrue`, `KillsAreAlwaysOurs`, `LeftoversAreAlwaysMissed` | `[]ReportIsTrue`, `[]OurKillIsNotTheirs`, `[]LeftoversAreMissedKills` |
| `KnowledgeProofs` | `FactsAlwaysFiled` | `[]FactsAreFiled` |
| | `GraphsAlwaysSound`, `CyclesAlwaysReported` | `[]GraphIsSound`, `[]CyclesAreReported` |
| | `ImpactAlwaysAgrees` | `[]ImpactAgreesWithGraph` |
| | `ExplanationsAlwaysGrounded` | `[]ExplanationsAreGrounded` |

`MeasurementsStay` and `RowsGoOneWay` are listed with no run: TLC finds them to hold on
the instances of `repair` and `ingestion` when they are named there.

### The invariants, and why they are needed

None of the properties is inductive.

**AnalysisPipeline.** That no two analyses are in progress holds because the call that
inserts a row has seen, *under the row lock*, that the latest row is not in progress, and
because a row in progress *is* the latest row. So `IInv` is a conjunction of

* `TypeOK` and `Targeted` (a task at work has a row);
* `LockInv`: the lock is held exactly by the call between its SELECT and the end of
  its transaction, and what that call saw still holds;
* `RowInv`: only the latest row is in progress, and a call that has not inserted
  has no row;
* `BusyInv`: one call at most is being worked for; the latest row is its row, with
  the status its program counter says;
* `StagesInv`: the stages of that row are a function of the program counter
  (`StagesAt`), and a failed row has one of five stage maps;
* `ResultsInv`: which facts and chunks are stored at each point of a task.

`FinalStays` and the refinement are proved step by step from `IInv`: the latter maps
each action to the one step of `AnalysisJob` it is, or to none (lemmas `Stutters`,
`StepRefines`).

**PipelineWithSummaries.** A summary that inserts a row breaks `IInv`, and the promises
with it (section 3). `SummaryIInv` therefore has two parts: `IInv` as long as no summary
has inserted a row (`NoneInserted`), and, whatever the summaries do, `Gone`: locks are
held of repositories that are there, and nothing is stored of one that is not.
`StepsApart` splits each step into one of the pipeline, which leaves `NoneInserted` as
it was, and one of a summary.

**EmbeddingIndex.** `Embedding` describes a call in the middle of its batches: each
position was found with its own vector or is asked for; the answers are no more than the
texts sent, and, *if none is missing*, they are those texts in the order asked. An
answer short of an item breaks that order for good, and then the counts never agree
again, which is what `StoreVectors` tests. `Collides` and `Excused` say the only other
way to fail; `Kept` that the texts of a call that ended well are stored, from which no
second asker of one of them can be inserted. `RowsAreWhole` says that only a build that
is done has rows, and that they are made of variables that no longer change; `Apart`
that of two builds of a repository that did not overlap one has ended and nothing of it
is left. That a set of numbers has one ascending list (`OrderExists`, `AscendingIs`,
`AscendingInterval`) is proved from the least counterexample, by `WFMin` of the library:
the induction theorems themselves take an operator and cannot be used.

**CoverageRepair.** A call finds its run again as the last of its runs (`Own`), so
`Placed` keeps the run a call works at the last of that call, and `Whole` says that only
such a run may be without cases. `Counted` compares the runs made with the iteration
(`Allowed`), one less while the next is being run: the budget follows from `iteration[c]
<= asked[c].budget`.

**Workspace.** `Agreed`: after a pick the reference that continuations compare with is the
selection. `Owners` says which handlers and polls have a repository, so that what a late
answer would show is of the repository its guard has just compared. `Spinning` names a
handler for each moment the spinner is on.

**EntityDetails.** What a call has returned is a function of where it waits (`Told`):
the answer of that request, once there is one. It waits for its own request until that
one is answered well, then for the one that was the latest; so when nothing is in flight
every selection is settled. `Awaited` keeps the spinner to the newest selection, as long
as that one is not shown; `Current` says what is displayed once it is. That a tab has a
pane (`PanesAssumption`) is needed: a selection without requests would settle before it
is made.

**Ingestion.** A row goes one way, from absent to present to deleted. `MakerInv`,
`UploadInv`, `ImportInv` and `DeleteInv` say for each program counter what is on disk
and in the tables: a row is there only after its sources were unpacked within the
limits, and a directory is removed only when its row is deleted. A row whose directory
has no sources is `lost`, and only without durable uploads. `TestInv` follows a test run
from one look for the sources to the next; `LeftoverInv` names who answers for a
directory that outlives its row, a run at work or killed among them.

**RefactorProposals and LLMGateway.** `GatewayInv`: while a call posts, its log holds
retryable failures only, and no more than it has retries. `RowsInv`: stored proposals are
of the present entity, since the foreign key keeps a re-analysis away; so what
`ScorersInv` says was read before a gateway call still holds after it.

**SandboxRun.** `Flow` follows the output: kept, in the pipe, and still to be written are
the beginning, the middle and the end of what the program writes, and all of it while the
client lives. `Clients` lists how a client can have ended before the time-out: with its
program (`Natural`), by a refusal (`Refused`), or by the kill of a reader whose `exceeded`
is already set, which is why that kill is never reported as the program's own.
`Reported` is what `Return` makes of the two.

**Knowledge.** The machine is simple and the data is not. `KnowledgeInv` says that the
rows are what `StoreParseResults` makes of the repository that was parsed, that an
answer is what the operators give of those rows in *some* order the queries may return
them in (`Orders`), that the source of an entity was read while its file was there, and
that an explanation was grounded when it was answered. The rest is lemmas about the
operators, for every repository of well-formed syntax trees:

* *Facts.* `Above` and `Qualified` climb from an item to those that enclose it, by
  recursive functions over an interval. That such a function is defined, with the value
  its equation says, is shown with `Climb`: induction over an interval, stated of a set
  and not of a formula, and proved from a least counterexample. With that every call has
  one row, under the innermost definition it stands in, or under none at module level.
* *Orders and graph.* An order lists each row once (`OrdersList`). What `Resolve` finds
  has the name that was called, and the module a dotted name begins with is asked right
  after the caller's own file (`ResolveIs`). Where stems and names are distinct each of
  its steps has one candidate at most, and two orders draw one graph (`GraphsAlike`).
  The definitions that enclose an entity are nodes too, so no node lies deeper than
  there are nodes (`DepthWithinNodes`), and from the modules all of them are reached
  (`NodesLieInModules`).
* *Cycles.* A module that reaches itself does so along a shortest closed walk, and a
  shortest one passes no module twice: it is one of the simple cycles that are listed
  (`CycleThrough`), and every one of those is an issue.
* *Impact.* Who is drawn as a caller by the graph is found by the impact's search over
  names, and the fan-in of a node counts call sites, which map one to one into the callers
  listed as long as no two of one caller share a line.

What is assumed of the constants is what the code works on: `RepositoriesAssumption`
that a repository is a finite list of syntax trees whose items stand inside earlier ones
on lines in order (`IsSource`: a parse of a text gives nothing else), of files whose stem
is not `None`; that the path out of the directory is none of its files;
`RepliesAssumption` that the evidence of a reply is a finite list.

### What is only model-checked

* Liveness (every property with `~>`: `EveryRunEnds`, `EveryCallEnds`, `EveryRequestEnds`
  and the like): the prover does not do fairness or ENABLED.
* Parts of a property that are liveness: of `CallsEndForAReason`, `DeletionsTellTheTruth`
  and `ProposersAreServed` the safety half is proved (`RefusalsAreAlwaysCollisions`,
  `CleanedAlwaysMeansGone`, `AnsweredProposalsAlwaysStored`), the other half is not.

## 6. Abstractions

* Time is left out: a time-out is a step that may happen whenever its wait does.
* The contents of files, facts, prompts, generated code and documents are left
  out: facts are known by the analysis that stored them, a run by its coverage and
  verdict, a pane by whose data it shows.
* The database is PostgreSQL at READ COMMITTED with its constraints; the SQLite
  dialect of the tests, which enforces no foreign keys by default, is not modelled.
* The validator of an explanation reads the rows and the files of what is cited in one
  step (`ReceiveExplanation`); a deletion between two of its items is left out.
* One repository per instance, except in `EmbeddingIndex` and `Workspace`, where
  repositories interact (the shared table; the selection), and `Ingestion`.
* A prompt is a number of tokens, a body of a provider one of the kinds its reader
  tells apart, a source a syntax tree without expressions, a line of output one of
  six kinds. Back-off delays, headers and the redaction of secrets are left out.
* The removal of a refused upload's directory, whose errors the code ignores, is
  taken to succeed; the removal by a deletion may fail, and says so.
* `MaxPolls`, `MaxPicks`, `MaxSelections`, `MaxAnalyses`, `MaxCrashes` are bounds of the
  model, and so are the sets of archives, trees, programs, repositories and replies;
  `Retries`, `BatchSize`, `Budgets`, `Targets`, `MaxUpload`, `MaxBytes`, `MaxFiles`,
  `CallerLimit`, `HighRiskTopN`, `IssueLimit`, `Limit` are parameters of the code.

## 7. Not modelled

* The classification into layers and the module summaries of `summary.py`: thresholds
  over counts and prose, and one more caller of the gateway.
* `behavior.py`, which compares the fields of two runs of which no code binds one
  to a proposal; `explanation_eval.py`, which scores stored fixtures offline.
* What the parsers take beyond entities, calls, imports, bases and complexity:
  signatures, docstrings, decorators, globals.
* How the sandbox stages files and the flags of its container; the JaCoCo parser.
* The presentation of the client (rendering of props); declarations of schema,
  configuration and API. The constraints that decide a step (foreign keys, unique
  keys, row locks) are part of the actions that meet them.

Authentication does not exist in this code.

## 8. Plan

In this order:

1. `Workspace`: the age of a status reading, so that a load that began before the end
   of an analysis and arrives after it can be seen to set the status back.
2. The module summaries, as another caller of `LLMGateway`.

## 9. Running it

```
tlc -workers 2 -config AnalysisPipeline.cfg AnalysisPipeline.tla
tlc -workers 2 -config Ingestion.cfg MCIngestion.tla
for m in AnalysisPipelineProofs EmbeddingIndexProofs CoverageRepairProofs \
         ClientProofs IngestionProofs RefactorProposalsProofs SandboxRunProofs \
         KnowledgeProofs; do tlapm $m.tla; done
```

The module and configuration of every run are in `PROJECT.json`.
