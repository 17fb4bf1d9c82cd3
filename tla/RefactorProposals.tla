------------------------- MODULE RefactorProposals -------------------------
(***************************************************************************)
(* Refactor proposals and their safety score.  A propose request reads an  *)
(* entity, asks the gateway, and inserts the proposal it returns; a safety *)
(* request reads a proposal, asks the gateway which changes break callers, *)
(* and then scores it.  Both hold what they read across the gateway's      *)
(* attempts, while the repository is analysed again, tested or deleted.    *)
(***************************************************************************)
EXTENDS LLMGateway

CONSTANTS Proposers,    \* propose requests; a proposal bears its request's name
          Scorers,      \* safety requests
          MaxAnalyses,  \* bound: the entity's id is the analysis that stored it
          Shapes,       \* how the entity's text parses: [language, indented]
          Facts,        \* what is known of it: its complexity, the calls of
                \* it, and those of them that stand in no function
          CallerLimit,  \* .limit(20) on the callers that are listed
          Replies,      \* proposals a model may write: [json, reasons, code, diffs]
          Reports       \* breaking changes it may write: [json, impacts]

ASSUME ProposalsAssumption ==
  /\ Proposers \intersect Scorers = {} /\ Calls = Proposers \union Scorers
  /\ Contents = Replies \union Reports
  /\ MaxAnalyses \in Nat \ {0} /\ CallerLimit \in Nat
  /\ None \notin Proposers /\ None \notin {200, 404, 500}
  /\ Shapes \subseteq [language : {"python", "java"}, indented : BOOLEAN]
  /\ Facts \subseteq [complexity : Nat, callers : Nat, moduleLevel : Nat]
  /\ \A f \in Facts : f.moduleLevel <= f.callers
  /\ Replies \subseteq [json : BOOLEAN, reasons : BOOLEAN, diffs : {"list", "null"},
                       code : {"same", "compatible", "renamed", "unseen", "invalid"}]
  /\ \A report \in Reports : report.impacts \in Seq({"HIGH", "MEDIUM", "LOW"})

VARIABLES shape, facts,  \* of the one entity looked at
          repository, entity, uploads, proposals, runs,
          req            \* what each request holds, and its answer

rowVars == <<shape, facts, repository, entity, uploads, proposals, runs>>
vars == <<gatewayVars, rowVars, req>>

Idle == [pc |-> "idle", of |-> None, source |-> FALSE, listed |-> 0,
         answer |-> None, score |-> None]

Init ==
  /\ GatewayInit
  /\ shape \in Shapes /\ facts \in Facts
  /\ repository = "present" /\ uploads = TRUE /\ entity = 1
  /\ proposals = {} /\ runs = {}
  /\ req = [r \in Calls |-> Idle]

Answer(r, code) == req' = [req EXCEPT ![r].pc = "answered", ![r].answer = code]

Least(a, b) == IF a <= b THEN a ELSE b
Most(a, b) == IF a >= b THEN a ELSE b

(* All calls of the entity are counted, those at module level too.         *)
CallerCount(e) == IF e = entity THEN facts.callers ELSE 0

(* The first CallerLimit calls, in no stated order, are taken, and those   *)
(* without a caller are skipped: how many remain depends on which came.    *)
Listings(count, moduleLevel) ==
  LET taken == Least(count, CallerLimit) IN
  {n \in 0 .. taken : n <= count - moduleLevel /\ taken <= n + moduleLevel}

ListedCallers(e) ==
  IF e = entity THEN Listings(facts.callers, facts.moduleLevel) ELSE {0}

(* ---- POST .../propose --------------------------------------------------- *)

(* The repository, the entity, its source and at most CallerLimit callers  *)
(* are read; 404 for a repository or an entity that is not there.          *)
ReadEntity(r, e) ==
  /\ req[r].pc = "idle"
  /\ UNCHANGED <<gatewayVars, rowVars>>
  /\ IF repository = "deleted" \/ e # entity
     THEN Answer(r, 404)
     ELSE \E n \in ListedCallers(e) :
            req' = [req EXCEPT ![r].pc = "asking", ![r].of = e,
                               ![r].source = uploads, ![r].listed = n]

(* _parse_llm_json keeps a reply only with a text and a list of reasons;   *)
(* differences that are not a list raise after both were taken.            *)
Usable(r) ==
  /\ result[r].kind = "reply" /\ result[r].provider # "mock"
  /\ result[r].content \in Replies /\ result[r].content.json

FromLLM(reply) ==
  [rationale |-> "llm", code |-> reply.code,
   diffs |-> IF reply.diffs = "list" THEN "llm" ELSE "none"]

(* The modernisation is a comment or docstring put before the source: it   *)
(* does not parse in Python when the source is indented, as every method's *)
(* is; without the source a stub takes its place.                          *)
Fallback(source) ==
  [rationale |-> "fallback", diffs |-> "fallback",
   code |-> IF shape.language = "python" /\ shape.indented /\ source
            THEN "invalid" ELSE "fallback"]

(* Fault: differences the LLM reported for unchanged code are kept.        *)
DraftKeepingDiffs(r) ==
  LET reply == result[r].content
      draft == Fallback(req[r].source) IN
  IF ~Usable(r) \/ ~reply.reasons THEN draft
  ELSE IF reply.code = "same" THEN [draft EXCEPT !.diffs = FromLLM(reply).diffs]
  ELSE FromLLM(reply)

Draft(r) ==
  LET reply == result[r].content IN
  IF Usable(r) /\ reply.reasons /\ reply.code # "same"
  THEN FromLLM(reply) ELSE Fallback(req[r].source)

(* Fault: the gate only records that the code does not parse.              *)
GatedByWarning(draft) ==
  [rationale |-> draft.rationale, diffs |-> draft.diffs,
   code |-> draft.code, retained |-> draft.code = "invalid"]

(* _validate_syntax: code that does not parse gives way to the original    *)
(* and a line is added to the rationale.                                   *)
Gated(draft) ==
  [rationale |-> draft.rationale, diffs |-> draft.diffs,
   code |-> IF draft.code = "invalid" THEN "same" ELSE draft.code,
   retained |-> draft.code = "invalid"]

Record(r) ==
  LET gated == Gated(Draft(r)) IN
  [id |-> r, entity |-> req[r].of, source |-> req[r].source,
   rationale |-> gated.rationale, code |-> gated.code, diffs |-> gated.diffs,
   retained |-> gated.retained]

(* Fault: the session is rolled back after a failed insert, so that the    *)
(* handler goes on and answers with what it did not store.                 *)
InsertProposalRollingBack(r) ==
  /\ req[r].pc = "asking" /\ phase[r] = "returned" /\ Forget(r)
  /\ UNCHANGED <<shape, facts, repository, entity, uploads, runs>>
  /\ proposals' = IF entity = req[r].of THEN proposals \union {Record(r)} ELSE proposals
  /\ Answer(r, 200)

(* Fault: a refused insert is tried until it succeeds.                     *)
InsertProposalRetrying(r) ==
  /\ req[r].pc = "asking" /\ phase[r] = "returned" /\ Forget(r)
  /\ UNCHANGED <<shape, facts, repository, entity, uploads, runs>>
  /\ entity = req[r].of
  /\ proposals' = proposals \union {Record(r)} /\ Answer(r, 200)

(* Insert and commit.  When the entity is gone the foreign key refuses;    *)
(* the handler swallows that, but the session then refuses to read the     *)
(* entity's columns for the response: 500.                                 *)
InsertProposal(r) ==
  /\ req[r].pc = "asking" /\ phase[r] = "returned" /\ Forget(r)
  /\ UNCHANGED <<shape, facts, repository, entity, uploads, runs>>
  /\ IF entity = req[r].of
     THEN proposals' = proposals \union {Record(r)} /\ Answer(r, 200)
     ELSE UNCHANGED proposals /\ Answer(r, 500)

(* ---- GET or POST .../safety -------------------------------------------- *)
ReadProposal(s, id) ==
  /\ req[s].pc = "idle"
  /\ UNCHANGED <<gatewayVars, rowVars>>
  /\ LET found == {p \in proposals : p.id = id} IN
     IF found = {} THEN Answer(s, 404)
     ELSE \E p \in found : \E n \in ListedCallers(p.entity) :
            req' = [req EXCEPT ![s].pc = "asking", ![s].of = p, ![s].listed = n]

(* Parameters are compared when both texts parse as Python and define a    *)
(* function: never for an indented source, nor without the source.  Only   *)
(* the names of ordinary parameters are: a change of keyword-only,         *)
(* positional-only or variadic ones, or of their order, goes "unseen".     *)
AstImpacts(p) ==
  IF shape.language = "python" /\ ~shape.indented /\ p.source /\ p.code = "renamed"
  THEN <<"HIGH">> ELSE <<>>

LLMImpacts(s) ==
  IF result[s].kind = "reply" /\ result[s].content \in Reports /\ result[s].content.json
  THEN result[s].content.impacts ELSE <<>>

(* Fault: an error of the gateway loses what the parameters showed.        *)
BreakingChangesOfLLM(s) ==
  IF result[s].kind = "reply" THEN AstImpacts(req[s].of) \o LLMImpacts(s) ELSE <<>>

BreakingChanges(s) == AstImpacts(req[s].of) \o LLMImpacts(s)

(* Fault: the latest run of the repository, whatever it tested.            *)
MatchingRunsOfRepository(p) == runs

MatchingRuns(p) == {t \in runs : t.proposal = p.id}

(* The evidence a test run gives; without one nothing is known.            *)
Evidence(p) ==
  IF MatchingRuns(p) = {}
  THEN [test |-> 0, confidence |-> "low", behavior |-> "UNVERIFIED"]
  ELSE LET t == CHOOSE t \in MatchingRuns(p) : TRUE IN
       IF t.status # "passed"
       THEN [test |-> 30, confidence |-> "medium", behavior |-> "BEHAVIOR_MUTATED"]
       ELSE [test |-> IF t.target THEN 100 ELSE 80,
             confidence |-> "high", behavior |-> "BEHAVIOR_PRESERVED"]

Count(impacts, kind) == Cardinality({i \in DOMAIN impacts : impacts[i] = kind})

Penalty(impacts) ==
  40 * Count(impacts, "HIGH") + 20 * Count(impacts, "MEDIUM") + 5 * Count(impacts, "LOW")

ApiCompatibility(impacts) == Most(0, 100 - Penalty(impacts))
DependencyImpact(callers) == Most(40, 100 - Least(60, callers * 12 + facts.complexity * 2))
BehavioralRisk(p) ==
  Most(30, 100 - Least(70, facts.complexity * 5 + (IF p.diffs = "none" THEN 0 ELSE 15)))

(* round(0.35 api + 0.25 test + 0.20 dependencies + 0.20 behaviour); a     *)
(* half goes the way the binary fractions happen to fall.                  *)
Totals(api, test, dep, beh) ==
  LET twentieths == 7 * api + 5 * test + 4 * dep + 4 * beh
  IN {n \in twentieths \div 20 .. twentieths \div 20 + 1 :
        20 * n - 10 <= twentieths /\ twentieths <= 20 * n + 10}

RiskLevel(total, confidence) ==
  CASE total >= 80 /\ confidence # "low" -> "low"
    [] total >= 50 -> "medium"
    [] OTHER -> "high"

(* Runs and callers are read again, after the gateway's attempts.          *)
ScoreProposal(s) ==
  LET p == req[s].of
      impacts == BreakingChanges(s)
      api == ApiCompatibility(impacts)
      evidence == Evidence(p)
      callers == CallerCount(p.entity)
  IN
  /\ req[s].pc = "asking" /\ phase[s] = "returned" /\ Forget(s)
  /\ UNCHANGED rowVars
  /\ \E total \in Totals(api, evidence.test, DependencyImpact(callers), BehavioralRisk(p)) :
       req' = [req EXCEPT ![s].pc = "answered", ![s].answer = 200,
                 ![s].score = [total |-> total, behavior |-> evidence.behavior,
                               api |-> api, callers |-> callers,
                               risk |-> RiskLevel(total, evidence.confidence)]]

(* ---- what else happens to the repository ------------------------------- *)

(* A finished re-analysis gives every entity a new id; while a proposal    *)
(* refers to an entity the foreign key refuses it.                         *)
ReanalyzeUnchecked ==
  /\ repository = "present" /\ entity < MaxAnalyses
  /\ entity' = entity + 1
  /\ UNCHANGED <<gatewayVars, req, shape, facts, repository, uploads, proposals, runs>>

Reanalyze ==
  /\ repository = "present" /\ entity < MaxAnalyses
  /\ \A p \in proposals : p.entity # entity
  /\ entity' = entity + 1
  /\ UNCHANGED <<gatewayVars, req, shape, facts, repository, uploads, proposals, runs>>

(* A sandbox run of the repository's tests; tested_proposal_id is written  *)
(* by no code.                                                             *)
RunTests(status) ==
  /\ repository = "present" /\ runs = {}
  /\ runs' = {[status |-> status, target |-> status = "passed", proposal |-> None]}
  /\ UNCHANGED <<gatewayVars, req, shape, facts, repository, entity, uploads, proposals>>

DeleteRepository ==
  /\ repository = "present"
  /\ repository' = "deleted" /\ entity' = 0
  /\ uploads' = FALSE /\ proposals' = {} /\ runs' = {}
  /\ UNCHANGED <<gatewayVars, req, shape, facts>>

(* A restart loses an upload directory that is not on a volume.            *)
LoseUploads ==
  /\ uploads /\ uploads' = FALSE
  /\ UNCHANGED <<gatewayVars, req, shape, facts, repository, entity, proposals, runs>>

Ask(r, p) ==
  /\ req[r].pc = "asking"
  /\ Complete(r, p)
  /\ UNCHANGED <<rowVars, req>>

AskAgain(r) == Attempt(r) /\ UNCHANGED <<rowVars, req>>

HandlerStep(r) ==
  \/ \E p \in Prompts : Ask(r, p)
  \/ AskAgain(r)
  \/ r \in Proposers /\ InsertProposal(r)
  \/ r \in Scorers /\ ScoreProposal(r)

Next ==
  \/ \E r \in Proposers, e \in 1 .. MaxAnalyses : ReadEntity(r, e)
  \/ \E s \in Scorers, id \in Proposers : ReadProposal(s, id)
  \/ \E r \in Calls : HandlerStep(r)
  \/ Reanalyze \/ DeleteRepository \/ LoseUploads
  \/ \E status \in {"passed", "failed"} : RunTests(status)

(* A request thread runs on; the client's time-out ends every attempt.     *)
Spec == Init /\ [][Next]_vars /\ \A r \in Calls : WF_vars(HandlerStep(r))
-----------------------------------------------------------------------------
TypeOK ==
  /\ GatewayTypeOK
  /\ shape \in Shapes /\ facts \in Facts
  /\ repository \in {"present", "deleted"} /\ entity \in 0 .. MaxAnalyses
  /\ uploads \in BOOLEAN
  /\ \A p \in proposals :
       /\ p.id \in Proposers /\ p.entity \in 1 .. MaxAnalyses
       /\ p.code \in {"same", "compatible", "renamed", "unseen", "fallback"}
  /\ \A r \in Calls : /\ req[r].pc \in {"idle", "asking", "answered"}
                      /\ req[r].answer \in {None, 200, 404, 500}
                      /\ r \in Scorers /\ req[r].answer = 200 => req[r].score.total \in 0 .. 100

(***************************************************************************)
(* A proposal answered with 200 can be fetched, scored and tested by its   *)
(* id for as long as the repository exists, although the handler swallows  *)
(* the exception of a failed insert (refactor.py:320-335).                 *)
(***************************************************************************)
AnsweredProposalIsStored ==
  \A r \in Proposers : req[r].answer = 200 /\ repository = "present" =>
    \E p \in proposals : p.id = r

(***************************************************************************)
(* The reasons, the code and the behavioural differences of a proposal     *)
(* come from one author, the differences possibly missing, and code that   *)
(* is the original says in its reasons that the proposed code was dropped  *)
(* (refactor.py:253-315).                                                  *)
(***************************************************************************)
ProposalIsOfOnePiece ==
  \A p \in proposals :
    /\ p.code # "same" => (p.code = "fallback" <=> p.rationale = "fallback")
    /\ p.diffs \in {p.rationale, "none"}
    /\ p.code = "same" <=> p.retained

(***************************************************************************)
(* Whatever runs of the repository are stored, passed ones among them, a   *)
(* score says UNVERIFIED and never calls the risk low, for none of them    *)
(* was a run of this proposal: no code writes tested_proposal_id, so that  *)
(* the verdicts of safety.py:186-200 are out of reach (README.md:62).      *)
(***************************************************************************)
NothingIsVerified ==
  \A s \in Scorers : req[s].answer = 200 =>
    req[s].score.behavior = "UNVERIFIED" /\ req[s].score.risk # "low"

(***************************************************************************)
(* A proposal that renames, adds or drops ordinary parameters of a         *)
(* function loses at least forty points of compatibility, whatever becomes *)
(* of the request to the LLM (safety.py:67-95, :130).                      *)
(***************************************************************************)
RenamesOfFunctionsAreReported ==
  \A s \in Scorers : req[s].answer = 200 =>
    LET p == req[s].of IN
    p.code = "renamed" /\ shape = [language |-> "python", indented |-> FALSE] /\ p.source
      => req[s].score.api <= 60

(***************************************************************************)
(* The callers a score lists as affected and the callers it counts in the  *)
(* dependency impact, read before and after the gateway's attempts, are    *)
(* those of one analysis, calls at module level being counted and not      *)
(* listed, unless the repository was deleted in between (safety.py:55-63,  *)
(* :209).                                                                  *)
(***************************************************************************)
ScoreIsOfOneAnalysis ==
  \A s \in Scorers : req[s].answer = 200 =>
    \/ req[s].listed \in Listings(req[s].score.callers, facts.moduleLevel)
    \/ repository = "deleted"

(***************************************************************************)
(* A score is sound: it claims no verdict for want of a run of its         *)
(* proposal, rests on one analysis and on what the comparison of           *)
(* parameters found, whatever the gateway and the steps around it did      *)
(* (safety.py:33-235).                                                     *)
(***************************************************************************)
ScoresAreSound ==
  TypeOK /\ NothingIsVerified /\ RenamesOfFunctionsAreReported /\ ScoreIsOfOneAnalysis

(***************************************************************************)
(* Every request is answered, however the provider fails: the attempts are *)
(* bounded and each of them ends (gateway.py:250-298).                     *)
(***************************************************************************)
EveryRequestEnds ==
  \A r \in Calls : req[r].pc = "asking" ~> req[r].pc = "answered"

(***************************************************************************)
(* A request ends, however the provider fails, and one that ends well has  *)
(* its proposal stored (gateway.py:250-298, refactor.py:320-335).          *)
(***************************************************************************)
ProposersAreServed == []AnsweredProposalIsStored /\ EveryRequestEnds

(***************************************************************************)
(* What DECISIONS.md:180 and test_refactor.py:111 promise: nothing is      *)
(* presented as a proposal unless the LLM answered.                        *)
(***************************************************************************)
OnlyTheLLMProposes ==
  \A p \in proposals : p.rationale = "llm"
=============================================================================
