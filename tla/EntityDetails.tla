---------------------------- MODULE EntityDetails ----------------------------
(***************************************************************************)
(* The explanation tab of the web client, and the "latest request wins"    *)
(* guards of its API module.                                               *)
(*                                                                         *)
(* Selecting an entity asks for its explanation, its impact and its source *)
(* at once.  Each request is guarded: a call whose request is not the      *)
(* latest one of its kind when it is answered does not return the answer,  *)
(* but the latest request, and so whatever that one is answered.  When its *)
(* three calls are settled, the selection shows what they returned; a call *)
(* that failed returned nothing, and its pane keeps what it had.           *)
(*                                                                         *)
(* The browser runs one event at a time, and every continuation of settled *)
(* promises before the next event.  Of the selections that one answer has  *)
(* settled the newest is shown first: its own call was registered before   *)
(* the older calls turned to its request.  The order of the older ones is  *)
(* left open.                                                              *)
(*                                                                         *)
(* The tab is a part of the page of Workspace, and its names differ from   *)
(* those of that module: theorems about the two stand in ClientProofs.     *)
(***************************************************************************)
EXTENDS Naturals

CONSTANTS
  MaxSelections,  \* bound: entities the user selects
  DetailPanes,    \* the guarded requests of one selection
  MayFail,        \* may a request fail?
  Pending,        \* a call that is not settled
  Nothing         \* what a failed call returns

ASSUME SelectionsAssumption == MaxSelections \in Nat \ {0}
ASSUME PanesAssumption == DetailPanes # {}
ASSUME FailAssumption == MayFail \in BOOLEAN

Selections == 1..MaxSelections

ASSUME OutcomesAssumption == Pending # Nothing /\ {Pending, Nothing} \intersect Nat = {}

VARIABLES
  newest,     \* the latest selection; its requests are the latest of each kind
  request,    \* the state of each selection's requests
  awaits,     \* the selection whose request each call is waiting for
  got,        \* what each call returned
  displayed,  \* the selection each pane shows, or 0
  applied,    \* the selections whose calls were all settled and shown
  loadingExplanation  \* the spinner

detailVars == <<newest, request, awaits, got, displayed, applied, loadingExplanation>>

DetailsTypeOK ==
  /\ newest \in 0..MaxSelections
  /\ request \in [Selections -> [DetailPanes -> {"none", "flying", "ok", "failed"}]]
  /\ awaits \in [Selections -> [DetailPanes -> 0..MaxSelections]]
  /\ got \in [Selections -> [DetailPanes -> Selections \union {Pending, Nothing}]]
  /\ displayed \in [DetailPanes -> 0..MaxSelections]
  /\ applied \subseteq Selections
  /\ loadingExplanation \in BOOLEAN

DetailsInit ==
  /\ newest = 0
  /\ request = [n \in Selections |-> [p \in DetailPanes |-> "none"]]
  /\ awaits = [n \in Selections |-> [p \in DetailPanes |-> 0]]
  /\ got = [n \in Selections |-> [p \in DetailPanes |-> Pending]]
  /\ displayed = [p \in DetailPanes |-> 0]
  /\ applied = {}
  /\ loadingExplanation = FALSE

Settled(n) == \A p \in DetailPanes : got[n][p] # Pending

(* Continuations are due: no other event is handled before them.           *)
Due == \E n \in Selections : Settled(n) /\ n \notin applied

Select ==
  /\ newest < MaxSelections
  /\ ~ Due
  /\ newest' = newest + 1
  /\ request' = [request EXCEPT ![newest'] = [p \in DetailPanes |-> "flying"]]
  /\ awaits' = [awaits EXCEPT ![newest'] = [p \in DetailPanes |-> newest']]
  /\ loadingExplanation' = TRUE
  /\ UNCHANGED <<got, displayed, applied>>

Answer(outcome, n) == IF outcome = "ok" THEN n ELSE Nothing

(* Fault: no guard, every call returns what its own request is answered.   *)
ReturnedUnguarded(m, p, n, outcome) == Answer(outcome, n)

(* What call m returns when the request n it waits for is answered: the    *)
(* answer, unless n is its own request, was answered well, and is not the  *)
(* latest any more; then what the latest one was answered, once it is.     *)
Returned(m, p, n, outcome) ==
  IF m # n \/ n = newest \/ outcome = "failed" THEN Answer(outcome, n)
  ELSE IF request[newest][p] = "flying" THEN Pending
  ELSE Answer(request[newest][p], newest)

(* Fault: a superseded call is answered by nobody.                         *)
RespondDropsStale(n, p) ==
  /\ request[n][p] = "flying"
  /\ ~ Due
  /\ \E outcome \in {"ok"} \union (IF MayFail THEN {"failed"} ELSE {}) :
       /\ request' = [request EXCEPT ![n][p] = outcome]
       /\ got' = [got EXCEPT ![n][p] = IF n = newest THEN Answer(outcome, n) ELSE Pending]
  /\ UNCHANGED <<newest, awaits, displayed, applied, loadingExplanation>>

(* A request is answered, or fails, and every call that waits for it goes  *)
(* on: it returns, or turns to the latest request.                         *)
Respond(n, p) ==
  /\ request[n][p] = "flying"
  /\ ~ Due
  /\ \E outcome \in {"ok"} \union (IF MayFail THEN {"failed"} ELSE {}) :
       /\ request' = [request EXCEPT ![n][p] = outcome]
       /\ got' = [m \in Selections |->
                    IF awaits[m][p] = n /\ got[m][p] = Pending
                    THEN [got[m] EXCEPT ![p] = Returned(m, p, n, outcome)]
                    ELSE got[m]]
       /\ awaits' = [awaits EXCEPT ![n][p] = IF outcome = "ok" THEN newest ELSE n]
  /\ UNCHANGED <<newest, displayed, applied, loadingExplanation>>

(* Fault: the spinner is left to the next selection.                       *)
ApplyKeepsLoading(n) ==
  /\ Settled(n)
  /\ n \notin applied
  /\ applied' = applied \union {n}
  /\ displayed' = [p \in DetailPanes |-> IF got[n][p] = Nothing THEN displayed[p] ELSE got[n][p]]
  /\ UNCHANGED <<newest, request, awaits, got, loadingExplanation>>

(* Fault: what a failed call returned is shown too.                        *)
ApplyShowsFailed(n) ==
  /\ Settled(n)
  /\ n \notin applied
  /\ applied' = applied \union {n}
  /\ displayed' = got[n]
  /\ loadingExplanation' = FALSE
  /\ UNCHANGED <<newest, request, awaits, got>>

(* Promise.all: the three calls of a selection are settled.                *)
Apply(n) ==
  /\ Settled(n)
  /\ n \notin applied
  /\ newest \notin applied => n = newest \/ ~ Settled(newest)
  /\ applied' = applied \union {n}
  /\ displayed' = [p \in DetailPanes |-> IF got[n][p] = Nothing THEN displayed[p] ELSE got[n][p]]
  /\ loadingExplanation' = FALSE
  /\ UNCHANGED <<newest, request, awaits, got>>

DetailsNext ==
  \/ Select
  \/ \E n \in Selections : Apply(n) \/ \E p \in DetailPanes : Respond(n, p)

DetailsSpec == DetailsInit /\ [][DetailsNext]_detailVars

(* The server answers, or the browser gives the request up; and the event  *)
(* loop runs what is due.                                                  *)
DetailsFairness ==
  \A n \in Selections : /\ WF_detailVars(Apply(n))
                        /\ \A p \in DetailPanes : WF_detailVars(Respond(n, p))

FairDetailsSpec == DetailsSpec /\ DetailsFairness

------------------------------------------------------------------------------
(* Nothing is awaited and nothing is due.                                  *)
Quiet ==
  /\ ~ Due
  /\ \A n \in Selections, p \in DetailPanes : request[n][p] # "flying"

(* frontend/src/services/api.ts:13: the guards "prevent slow responses     *)
(* from an older user action from overwriting the result of a newer        *)
(* action": when all is quiet every pane shows the newest selection, never *)
(* the explanation of one entity beside the source of another.             *)
NewestIsShown == Quiet => \A p \in DetailPanes : displayed[p] = newest

(* Two selections, no request failed, and no answer to the older one came  *)
(* in before it was superseded.  (Of three, the first may be waiting for a *)
(* request of the second, whose answer it returns without another look.)   *)
Unmixed ==
  /\ newest <= 2
  /\ \A n \in Selections, p \in DetailPanes :
       /\ request[n][p] # "failed"
       /\ n < newest => request[n][p] # "ok" \/ awaits[n][p] # n

(* The part of it that holds: of two selections, the first superseded      *)
(* before any of its answers came, the second is shown, however the        *)
(* answers were ordered.                                                   *)
SupersededIsNotShown == Unmixed => NewestIsShown

(* When all is quiet the spinner is off, whichever selection stopped it.   *)
(* (While the newest selection is still being answered it may be off too:  *)
(* an older one whose calls returned in part before, in part after it was  *)
(* superseded is shown first, a mixture.)                                  *)
SpinnerIsOff == Quiet => ~ loadingExplanation

(* What the pane shows when all is quiet: the second of two selections,    *)
(* whole, with the spinner off, and never what a failed call returned      *)
(* (ExplanationTab.tsx:59-83, api.ts:236-246).                             *)
PaneIsCurrent == DetailsTypeOK /\ SupersededIsNotShown /\ SpinnerIsOff

(* Every selection is settled, the superseded ones too: no call waits for  *)
(* ever on another (api.ts:232-282).                                       *)
EverySelectionSettles ==
  \A n \in Selections : newest >= n ~> n \in applied
==============================================================================
