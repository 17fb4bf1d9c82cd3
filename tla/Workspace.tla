------------------------------ MODULE Workspace ------------------------------
(***************************************************************************)
(* The web client's App component: which repository is selected, what its  *)
(* panes show, and the handlers and polls that go on behind them.          *)
(*                                                                         *)
(* The selection is kept twice: repositoryId, which is rendered, and       *)
(* activeRepositoryRef, which continuations compare with their own         *)
(* repository when they wake up.  An upload or import, a re-analysis, a    *)
(* test generation and a refactor proposal are handlers that await the     *)
(* server; the first two end by starting a live poll.  A handler starts at *)
(* most one poll, which bears the handler's name.                          *)
(*                                                                         *)
(* The browser runs one event at a time.  The effect of a new repositoryId *)
(* (remember it as active, load its data) runs before the next event.      *)
(***************************************************************************)
EXTENDS Naturals

CONSTANTS
  Listed,      \* repositories there are when the page is opened
  Brought,     \* repositories that may be uploaded or imported
  Handlers,    \* calls of a handler by the user
  None,        \* no repository, no proposal, no timer
  MaxPicks,    \* bound: repositories picked in the selector
  MaxPolls     \* a poll's time, in status requests

Repositories == Listed \union Brought

ASSUME IdentityAssumption == /\ Listed \intersect Brought = {}
                             /\ None \notin Repositories \union Handlers
ASSUME BoundsAssumption == MaxPicks \in Nat /\ MaxPolls \in Nat \ {0}

VARIABLES
  repositoryId,         \* the repository that is selected
  activeRepositoryRef,  \* the repository continuations act for
  shown,                \* whose test run, and whose status, is shown
  analyzing,            \* does the status that is shown say "running"?
  proposal,             \* the handler whose proposal is shown
  safety,               \* the handler whose safety score is shown
  loading,              \* the spinner, which disables most buttons
  listing,              \* is the list the page asked for outstanding?
  of, at,               \* the repository of each handler, and where it is
  poll, polls,          \* where its poll is, and its status requests
  pollingRef,           \* the timer that stopLivePolling clears
  loads,                \* loadRepositoryData calls in flight
  picks,                \* repositories picked so far
  picked                \* history: the panes were emptied for the selection

selection == <<repositoryId, activeRepositoryRef, picks, picked>>
panes     == <<shown, analyzing, proposal, safety>>
polling   == <<poll, polls, pollingRef>>
vars == <<selection, panes, loading, listing, of, at, polling, loads>>

(* The panes loadRepositoryData fills.  (The summary is one more that is    *)
(* filled as the test run is, and by nothing else.)                        *)
Panes == {"tests", "status"}

HandlerPCs == {"idle", "bringing", "triggering", "generating", "proposing",
               "scoring", "done", "abandoned"}
PollPCs    == {"none", "fetching", "waiting", "refreshing", "listing", "ended"}

TypeOK ==
  /\ {repositoryId, activeRepositoryRef} \subseteq Repositories \union {None}
  /\ shown \in [Panes -> Repositories \union {None}]
  /\ {loading, listing, analyzing, picked} \subseteq BOOLEAN
  /\ analyzing => shown["status"] # None
  /\ {proposal, safety, pollingRef} \subseteq Handlers \union {None}
  /\ of \in [Handlers -> Repositories \union {None}]
  /\ at \in [Handlers -> HandlerPCs]
  /\ poll \in [Handlers -> PollPCs]
  /\ polls \in [Handlers -> 0..MaxPolls]
  /\ loads \in [Repositories -> Nat]
  /\ picks \in 0..MaxPicks

Init ==
  /\ repositoryId = None /\ activeRepositoryRef = None
  /\ shown = [p \in Panes |-> None] /\ analyzing = FALSE
  /\ proposal = None /\ safety = None
  /\ loading = FALSE /\ listing = TRUE
  /\ of = [h \in Handlers |-> None] /\ at = [h \in Handlers |-> "idle"]
  /\ poll = [h \in Handlers |-> "none"] /\ polls = [h \in Handlers |-> 0]
  /\ pollingRef = None
  /\ loads = [r \in Repositories |-> 0]
  /\ picks = 0 /\ picked = TRUE

------------------------------------------------------------------------------
(* Selecting.                                                              *)

Goto(h, pc) == at' = [at EXCEPT ![h] = pc]
PollGoto(h, pc) == poll' = [poll EXCEPT ![h] = pc]

(* setRepositoryId, and the effect of a new one.                           *)
SetRepository(id) ==
  /\ repositoryId' = id
  /\ activeRepositoryRef' = id
  /\ loads' = IF id \in {None, repositoryId} THEN loads
              ELSE [loads EXCEPT ![id] = @ + 1]

(* clearTimeout: the poll whose timer pollingRef holds wakes up no more.   *)
Stopped == IF pollingRef # None /\ poll[pollingRef] = "waiting"
           THEN [poll EXCEPT ![pollingRef] = "ended"] ELSE poll

(* The page's own list arrives (or not): the first repository is selected  *)
(* unless a repository is active already.                                  *)
ListArrives ==
  /\ listing
  /\ listing' = FALSE
  /\ \/ UNCHANGED <<repositoryId, activeRepositoryRef, loads>>
     \/ /\ activeRepositoryRef = None
        /\ \E r \in Listed : SetRepository(r)
  /\ UNCHANGED <<picks, picked, panes, loading, of, at, polling>>

(* The selector offers what the page's list named and what was brought.    *)
Offered == {of[h] : h \in Handlers} \union {None}
             \union IF listing THEN {} ELSE Listed

(* Fault: the pane of the status is emptied, and what it said is kept.     *)
EmptyPanesButAnalyzing ==
  /\ shown' = [p \in Panes |-> None] /\ UNCHANGED analyzing
  /\ proposal' = None /\ safety' = None

EmptyPanes ==
  /\ shown' = [p \in Panes |-> None] /\ analyzing' = FALSE
  /\ proposal' = None /\ safety' = None

(* Another repository, or none, is picked: every pane is emptied.          *)
Pick ==
  /\ picks < MaxPicks
  /\ picks' = picks + 1
  /\ \E id \in Offered : id # repositoryId /\ SetRepository(id)
  /\ poll' = Stopped /\ pollingRef' = None
  /\ EmptyPanes
  /\ picked' = TRUE
  /\ UNCHANGED <<loading, listing, of, at, polls>>

(* What setTestRunData and setPipelineStatus show for id;                  *)
(* an answer that failed or was empty leaves its pane as it is.            *)
Show(id, ps) ==
  /\ shown' = [p \in Panes |-> IF p \in ps THEN id ELSE shown[p]]
  /\ analyzing' \in IF "status" \in ps THEN BOOLEAN ELSE {analyzing}
  /\ UNCHANGED <<proposal, safety>>

(* Fault: nobody asks whether the repository is still active.              *)
LoadedUnguarded(id) == \E ps \in SUBSET Panes : Show(id, ps)

(* What the answers to loadRepositoryData(id) do.                          *)
Loaded(id) ==
  IF activeRepositoryRef = id THEN \E ps \in SUBSET Panes : Show(id, ps)
                              ELSE UNCHANGED panes

LoadReturns(id) ==
  /\ loads[id] > 0
  /\ loads' = [loads EXCEPT ![id] = @ - 1]
  /\ Loaded(id)
  /\ UNCHANGED <<selection, loading, listing, of, at, polling>>

------------------------------------------------------------------------------
(* Live polling.                                                           *)

(* startLivePolling: the handler's repository becomes the active one,      *)
(* whichever is selected by now.                                           *)
StartLivePolling(h) ==
  /\ activeRepositoryRef' = of[h]
  /\ picked' = (picked /\ repositoryId = of[h])
  /\ poll' = [Stopped EXCEPT ![h] = "fetching"]
  /\ polls' = [polls EXCEPT ![h] = 1]
  /\ pollingRef' = None

(* The next status request is due in POLL_INTERVAL_MS.                     *)
Retry(h) == PollGoto(h, "waiting") /\ pollingRef' = h

(* The status arrives, or does not.  At the end of the analysis the data   *)
(* are loaded once more; else, and after a failure, the poll goes on.      *)
StatusReturns(h) ==
  /\ poll[h] = "fetching"
  /\ \/ /\ activeRepositoryRef # of[h]
        /\ PollGoto(h, "ended")
        /\ UNCHANGED <<panes, pollingRef>>
     \/ /\ activeRepositoryRef = of[h]
        /\ Retry(h)
        /\ Show(of[h], {"status"}) \/ UNCHANGED panes
     \/ /\ activeRepositoryRef = of[h]
        /\ PollGoto(h, "refreshing") /\ pollingRef' = None
        /\ Show(of[h], {"status"}) /\ ~ analyzing'
  /\ UNCHANGED <<selection, loading, listing, of, at, polls, loads>>

RefreshReturns(h) ==
  /\ poll[h] = "refreshing"
  /\ PollGoto(h, IF activeRepositoryRef = of[h] THEN "listing" ELSE "ended")
  /\ Loaded(of[h])
  /\ UNCHANGED <<selection, loading, listing, of, at, polls, pollingRef, loads>>

(* The list of repositories; when it fails the poll starts over, though    *)
(* the analysis has ended.                                                 *)
ListReturns(h) ==
  /\ poll[h] = "listing"
  /\ \/ PollGoto(h, "ended") /\ UNCHANGED pollingRef
     \/ activeRepositoryRef = of[h] /\ Retry(h)
  /\ UNCHANGED <<selection, panes, loading, listing, of, at, polls, loads>>

(* Fault: the poll never gives up.                                         *)
TimerFiresForEver(h) ==
  /\ poll[h] = "waiting"
  /\ PollGoto(h, IF activeRepositoryRef = of[h] THEN "fetching" ELSE "ended")
  /\ UNCHANGED <<selection, panes, loading, listing, of, at, polls, pollingRef, loads>>

(* The timer fires: the poll ends when another repository is active, or    *)
(* when MAX_POLL_DURATION_MS have passed, which MaxPolls requests take if  *)
(* not fewer.                                                              *)
TimerFires(h) ==
  /\ poll[h] = "waiting"
  /\ \/ /\ activeRepositoryRef # of[h]
        /\ PollGoto(h, "ended")
        /\ UNCHANGED <<polls, pollingRef>>
     \/ /\ activeRepositoryRef = of[h]
        /\ PollGoto(h, "ended") /\ pollingRef' = None
        /\ UNCHANGED polls
     \/ /\ activeRepositoryRef = of[h]
        /\ polls[h] < MaxPolls
        /\ PollGoto(h, "fetching") /\ polls' = [polls EXCEPT ![h] = @ + 1]
        /\ UNCHANGED pollingRef
  /\ UNCHANGED <<selection, panes, loading, listing, of, at, loads>>

------------------------------------------------------------------------------
(* Handlers.                                                               *)

Start(h, id, pc) ==
  /\ at[h] = "idle"
  /\ of' = [of EXCEPT ![h] = id]
  /\ Goto(h, pc)
  /\ loading' = TRUE

(* A handler ends: the spinner stops.                                      *)
Finish(h) == Goto(h, "done") /\ loading' = FALSE

(* Generation and proposal stop the spinner only for the active            *)
(* repository.                                                             *)
FinishIfActive(h) ==
  IF activeRepositoryRef = of[h] THEN Finish(h)
                                 ELSE Goto(h, "abandoned") /\ UNCHANGED loading

(* A file is chosen, or Enter pressed in the field of an import: the       *)
(* spinner prevents neither.                                               *)
StartBring(h) ==
  /\ Start(h, None, "bringing")
  /\ UNCHANGED <<selection, panes, listing, polling, loads>>

(* The new repository is selected and analyze asked for; the panes keep    *)
(* what they show.                                                         *)
BringReturns(h) ==
  /\ at[h] = "bringing"
  /\ \/ /\ \E r \in Brought \ {of[g] : g \in Handlers} :
             of' = [of EXCEPT ![h] = r] /\ SetRepository(r)
        /\ Goto(h, "triggering")
        /\ picked' = FALSE
        /\ UNCHANGED loading
     \/ Finish(h) /\ UNCHANGED <<of, repositoryId, activeRepositoryRef, loads, picked>>
  /\ UNCHANGED <<picks, panes, listing, polling>>

StartTrigger(h) ==
  /\ repositoryId # None /\ ~ loading /\ ~ analyzing
  /\ Start(h, repositoryId, "triggering")
  /\ UNCHANGED <<selection, panes, listing, polling, loads>>

(* Fault: the spinner is stopped on success only.                          *)
TriggerReturnsUnfinished(h) ==
  /\ at[h] = "triggering"
  /\ \/ StartLivePolling(h) /\ Finish(h)
     \/ Goto(h, "done") /\ UNCHANGED <<activeRepositoryRef, picked, polling, loading>>
  /\ UNCHANGED <<repositoryId, picks, panes, listing, of, loads>>

(* analyze was accepted, or refused because one is in progress, and is     *)
(* polled; or it failed.                                                   *)
TriggerReturns(h) ==
  /\ at[h] = "triggering"
  /\ StartLivePolling(h) \/ UNCHANGED <<activeRepositoryRef, picked, polling>>
  /\ Finish(h)
  /\ UNCHANGED <<repositoryId, picks, panes, listing, of, loads>>

StartGenerate(h) ==
  /\ repositoryId # None /\ ~ loading
  /\ Start(h, repositoryId, "generating")
  /\ UNCHANGED <<selection, panes, listing, polling, loads>>

GenerateReturns(h) ==
  /\ at[h] = "generating"
  /\ FinishIfActive(h)
  /\ \/ activeRepositoryRef = of[h] /\ Show(of[h], {"tests"})
     \/ UNCHANGED panes
  /\ UNCHANGED <<selection, listing, of, polling, loads>>

(* From the refactor tab, or from the explanation and graph tabs, which    *)
(* the spinner does not disable.                                           *)
StartPropose(h) ==
  /\ repositoryId # None
  /\ Start(h, repositoryId, "proposing")
  /\ proposal' = None /\ safety' = None
  /\ UNCHANGED <<selection, shown, analyzing, listing, polling, loads>>

(* The proposal is shown and its safety score asked for; or none was made. *)
ProposeReturns(h) ==
  /\ at[h] = "proposing"
  /\ \/ /\ activeRepositoryRef = of[h]
        /\ proposal' = h
        /\ Goto(h, "scoring") /\ UNCHANGED loading
     \/ FinishIfActive(h) /\ UNCHANGED proposal
  /\ UNCHANGED <<selection, shown, analyzing, safety, listing, of, polling, loads>>

ScoreReturns(h) ==
  /\ at[h] = "scoring"
  /\ FinishIfActive(h)
  /\ \/ activeRepositoryRef = of[h] /\ safety' = h
     \/ UNCHANGED safety
  /\ UNCHANGED <<selection, shown, analyzing, proposal, listing, of, polling, loads>>

------------------------------------------------------------------------------
(* What the user does, and what the server's answers and timers do.        *)
UserStep ==
  \/ Pick
  \/ \E h \in Handlers : \/ StartBring(h) \/ StartTrigger(h)
                         \/ StartGenerate(h) \/ StartPropose(h)

HandlerReturns(h) ==
  \/ BringReturns(h) \/ TriggerReturns(h) \/ GenerateReturns(h)
  \/ ProposeReturns(h) \/ ScoreReturns(h)

PollStep(h) ==
  StatusReturns(h) \/ RefreshReturns(h) \/ ListReturns(h) \/ TimerFires(h)

Next ==
  \/ UserStep
  \/ ListArrives
  \/ \E r \in Repositories : LoadReturns(r)
  \/ \E h \in Handlers : HandlerReturns(h) \/ PollStep(h)

Spec == Init /\ [][Next]_vars

(* Requests are answered or given up, timers fire; the user may stop.      *)
Fairness ==
  /\ \A h \in Handlers : WF_vars(HandlerReturns(h)) /\ WF_vars(PollStep(h))
  /\ \A r \in Repositories : WF_vars(LoadReturns(r))

FairSpec == Spec /\ Fairness

------------------------------------------------------------------------------
(* From the pick of a repository until an upload or a late re-analysis     *)
(* moves on, every pane is empty or shows that repository: no load, poll,  *)
(* generation or proposal begun for another one, however late, shows here. *)
SelectionIsShown ==
  picked =>
    /\ \A p \in Panes : shown[p] \in {None, repositoryId}
    /\ \A h \in {proposal, safety} \ {None} : of[h] = repositoryId

(* The panes are those of the selection, and a status that is being        *)
(* analysed is on the screen (App.tsx:48-65, :159-180).                    *)
ScreenIsOfTheSelection == TypeOK /\ SelectionIsShown

(* No handler is at work.                                                  *)
Idle == \A h \in Handlers : at[h] \in {"idle", "done", "abandoned"}

(* When no handler is at work the spinner is off, unless the user left the *)
(* repository of a generation or proposal: then it may stay on.            *)
SpinnerStops == Idle => ~ loading \/ \E h \in Handlers : at[h] = "abandoned"

(* docs/01-prd.md:83, "Refactor proposals carry a computed safety score":  *)
(* the score that stays beside a proposal is that proposal's.              *)
ScoreIsOfProposal ==
  Idle /\ proposal # None /\ safety # None => safety = proposal

(* Every poll ends, the ones that stopLivePolling has lost sight of too,   *)
(* and though the analysis or the server never ends or answers.            *)
EveryPollEnds ==
  \A h \in Handlers : poll[h] = "fetching" ~> poll[h] = "ended"
==============================================================================
