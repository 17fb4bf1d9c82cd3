----------------------- MODULE RefactorProposalsProofs -----------------------
(***************************************************************************)
(* Theorems of RefactorProposals and of the gateway it asks, for any sets  *)
(* of requests, settings, prompts and replies, and any number of retries   *)
(* and analyses.                                                           *)
(*                                                                         *)
(* GatewayInv says what the log of a call holds at each of its phases:     *)
(* while it posts, retryable failures only, and no more than it has        *)
(* retries.  ProposalsInv ties what a request has read to the rows as they *)
(* are when it goes on: as long as the repository is there, a proposal is  *)
(* of the present entity (the foreign key keeps a re-analysis away), so    *)
(* what a score read before its call still holds after it.                 *)
(***************************************************************************)
EXTENDS RefactorProposals, FiniteSetTheorems, SequenceTheorems, TLAPS

(* ---- the gateway ------------------------------------------------------- *)
Retryable == {"status", "network", "notJson", "noKey"}
Entries == Bodies \union {"answer"}

(* What the calls that have returned were told.                            *)
Earned(c) ==
  LET last == log[c][Len(log[c])] IN
  /\ \A i \in 1 .. Len(log[c]) - 1 : log[c][i] \in Retryable
  /\ result[c].kind = "LLMAuthenticationError" <=> last = "refused"
  /\ result[c].kind = "LLMRetryableError" => Len(log[c]) = Retries + 1
  /\ last = "answer" => result[c].kind = "reply"

GatewayInv ==
  /\ settings \in Settings
  /\ phase \in [Calls -> {"idle", "posting", "returned", "forgotten"}]
  /\ log \in [Calls -> Seq(Entries)]
  /\ result \in [Calls -> Results]
  /\ \A c \in Calls :
       /\ Len(log[c]) <= Retries + 1
       /\ phase[c] \in {"idle", "forgotten"} => log[c] = <<>>
       /\ phase[c] = "posting" => /\ Len(log[c]) <= Retries
                                  /\ \A i \in 1 .. Len(log[c]) : log[c][i] \in Retryable
       /\ phase[c] = "returned" /\ log[c] # <<>> => Earned(c)

(* ---- proposals and scores ---------------------------------------------- *)
ProposalRows ==
  [id : Proposers, entity : 1 .. MaxAnalyses, source : BOOLEAN,
   rationale : {"llm", "fallback"}, code : {"same", "compatible", "renamed", "unseen", "fallback"},
   diffs : {"llm", "fallback", "none"}, retained : BOOLEAN]
RunRows == [status : {"passed", "failed"}, target : BOOLEAN, proposal : {None}]

Behaviors == {"UNVERIFIED", "BEHAVIOR_MUTATED", "BEHAVIOR_PRESERVED"}
Scores == [total : 0 .. 100, behavior : Behaviors, api : 0 .. 100, callers : Nat,
           risk : {"low", "medium", "high"}]

(* What a request may hold, given what it may be about.                    *)
Held(subjects) ==
  [pc : {"idle", "asking", "answered"}, of : subjects, source : BOOLEAN, listed : Nat,
   answer : {None, 200, 404, 500}, score : {None} \union Scores]

Typed ==
  /\ shape \in Shapes /\ facts \in Facts
  /\ repository \in {"present", "deleted"} /\ entity \in 0 .. MaxAnalyses
  /\ uploads \in BOOLEAN
  /\ proposals \subseteq ProposalRows /\ runs \subseteq RunRows
  /\ DOMAIN req = Calls
  /\ \A r \in Proposers : req[r] \in Held({None} \union 1 .. MaxAnalyses)
  /\ \A s \in Scorers : req[s] \in Held({None} \union ProposalRows)

(* A proposal has one author.                                              *)
OfOnePiece(p) ==
  /\ p.code # "same" => (p.code = "fallback" <=> p.rationale = "fallback")
  /\ p.diffs \in {p.rationale, "none"}
  /\ p.code = "same" <=> p.retained

(* Proposals are of the present entity; a deletion takes all rows.         *)
RowsInv ==
  /\ \A p \in proposals : OfOnePiece(p) /\ p.entity = entity
  /\ repository = "deleted" => entity = 0 /\ proposals = {} /\ runs = {}

ProposersInv ==
  \A r \in Proposers :
    /\ req[r].pc = "asking" => req[r].of \in 1 .. MaxAnalyses
    /\ req[r].pc # "answered" => req[r].answer = None
    /\ req[r].answer = 200 /\ repository = "present" => \E p \in proposals : p.id = r

(* A score is of its proposal, of one analysis, and says what is known.    *)
Sound(s) ==
  LET p == req[s].of
      score == req[s].score
  IN /\ score \in Scores
     /\ score.behavior = "UNVERIFIED" /\ score.risk # "low"
     /\ p.code = "renamed" /\ shape = [language |-> "python", indented |-> FALSE] /\ p.source
          => score.api <= 60
     /\ req[s].listed \in Listings(score.callers, facts.moduleLevel) \/ repository = "deleted"

ScorersInv ==
  \A s \in Scorers :
    /\ req[s].pc = "asking" =>
         /\ req[s].of \in ProposalRows
         /\ repository = "present" => req[s].of \in proposals
         /\ req[s].listed \in Listings(facts.callers, facts.moduleLevel)
    /\ req[s].pc # "answered" => req[s].answer = None
    /\ req[s].answer = 200 => Sound(s)

ProposalsInv == Typed /\ RowsInv /\ ProposersInv /\ ScorersInv

(* The inductive invariant.                                                *)
IInv == GatewayInv /\ ProposalsInv
------------------------------------------------------------------------------
(* The gateway.                                                            *)

(* Whatever the settings say, one of four providers is selected.           *)
LEMMA ProviderType ==
  Provider \in {"mock", "openai", "openrouter", "anthropic"}
BY DEF Provider, GetProvider

(* What an attempt makes of an answer: only a refused key ends the call as *)
(* an authentication error, and only what may pass is tried again.         *)
LEMMA ReadReplyType ==
  ASSUME NEW provider, NEW body \in Bodies
  PROVE  /\ ReadReply(provider, body) \in {"refuse", "retry", "escape", "blank"}
         /\ ReadReply(provider, body) = "refuse" <=> body = "refused"
         /\ ReadReply(provider, body) = "retry" => body \in Retryable
BY DEF ReadReply, ReadReplyAnthropic, ReadReplyOpenAI, Bodies, Retryable

(* What a call returns or raises is a result, of the kind it says.         *)
LEMMA ResultsType ==
  /\ \A content \in Contents \union {None} :
       Replied(content) \in Results /\ Replied(content).kind = "reply"
  /\ \A e \in {"TokenBudgetExceededError", "LLMAuthenticationError",
               "LLMRetryableError", "escaped"} :
       Raised(e) \in Results /\ Raised(e).kind = e
  /\ None \in Results
BY ProviderType DEF Results, Replied, Raised

(* What a log is after one more attempt.                                   *)
LEMMA LogGrows ==
  ASSUME GatewayInv, NEW c \in Calls, NEW e \in Entries, phase[c] = "posting",
         log' = [log EXCEPT ![c] = Append(@, e)]
  PROVE  /\ log' \in [Calls -> Seq(Entries)]
         /\ Len(log'[c]) = Len(log[c]) + 1 /\ Len(log[c]) \in Nat
         /\ log'[c][Len(log'[c])] = e /\ log'[c] # <<>>
         /\ \A i \in 1 .. Len(log'[c]) - 1 : log'[c][i] \in Retryable
         /\ e \in Retryable => \A i \in 1 .. Len(log'[c]) : log'[c][i] \in Retryable
         /\ \A d \in Calls \ {c} : log'[d] = log[d]
<1>1. log[c] \in Seq(Entries) /\ log'[c] = Append(log[c], e)
  BY DEF GatewayInv
<1>2. \A i \in 1 .. Len(log[c]) : log[c][i] \in Retryable
  BY DEF GatewayInv
<1>3. /\ Append(log[c], e) \in Seq(Entries) /\ Append(log[c], e) # <<>>
      /\ Len(Append(log[c], e)) = Len(log[c]) + 1
      /\ \A i \in 1 .. Len(log[c]) : Append(log[c], e)[i] = log[c][i]
      /\ Append(log[c], e)[Len(log[c]) + 1] = e
  BY <1>1, AppendProperties
<1>4. Len(log[c]) \in Nat
  BY <1>1, LenProperties
<1>5. log' \in [Calls -> Seq(Entries)] /\ \A d \in Calls \ {c} : log'[d] = log[d]
  BY <1>3 DEF GatewayInv
<1> QED BY <1>1, <1>2, <1>3, <1>4, <1>5

(* A call is fitted to the budget, or raises before anything is sent.      *)
LEMMA CompleteSafe ==
  ASSUME GatewayInv, NEW c \in Calls, NEW p, Complete(c, p)
  PROVE  GatewayInv'
<1>1. log' = log /\ settings' = settings /\ log[c] = <<>>
  BY DEF Complete, GatewayInv
<1>2. phase' \in [Calls -> {"idle", "posting", "returned", "forgotten"}]
  BY DEF Complete, Return, GatewayInv
<1>3. result' \in [Calls -> Results]
  BY ResultsType DEF Complete, Return, GatewayInv
<1>4. \A d \in Calls \ {c} : phase'[d] = phase[d] /\ result'[d] = result[d]
  BY DEF Complete, Return, GatewayInv
<1>5. Len(<<>>) = 0 /\ Retries \in Nat
  BY RetriesAssumption
<1> QED BY <1>1, <1>2, <1>3, <1>4, <1>5 DEF GatewayInv, Earned, Complete

(* An attempt that brings no content: the call ends as the answer          *)
(* deserves, or goes on while it has attempts left.                        *)
LEMMA AttemptFailsSafe ==
  ASSUME GatewayInv, NEW c \in Calls, NEW body \in Bodies, AttemptFails(c, body)
  PROVE  GatewayInv'
<1> DEFINE reading == ReadReply(Provider, body)
<1>1. /\ phase[c] = "posting" /\ settings' = settings
      /\ log' = [log EXCEPT ![c] = Append(@, body)]
  BY DEF AttemptFails
<1>2. /\ log' \in [Calls -> Seq(Entries)]
      /\ Len(log'[c]) = Len(log[c]) + 1 /\ Len(log[c]) \in Nat /\ Len(log[c]) <= Retries
      /\ log'[c][Len(log'[c])] = body /\ log'[c] # <<>>
      /\ \A i \in 1 .. Len(log'[c]) - 1 : log'[c][i] \in Retryable
      /\ body \in Retryable => \A i \in 1 .. Len(log'[c]) : log'[c][i] \in Retryable
      /\ \A d \in Calls \ {c} : log'[d] = log[d]
  BY <1>1, LogGrows DEF Entries, GatewayInv
<1>3. /\ reading \in {"refuse", "retry", "escape", "blank"}
      /\ reading = "refuse" <=> body = "refused"
      /\ reading = "retry" => body \in Retryable
      /\ body # "answer"
  BY ReadReplyType DEF Bodies
<1>4. \/ reading # "retry" /\ \E r \in Results :
           /\ Return(c, r)
           /\ r.kind = "LLMAuthenticationError" <=> reading = "refuse"
           /\ r.kind # "LLMRetryableError"
      \/ /\ reading = "retry" /\ Len(log[c]) < Retries /\ UNCHANGED <<phase, result>>
      \/ /\ reading = "retry" /\ ~ (Len(log[c]) < Retries)
         /\ Return(c, Raised("LLMRetryableError"))
  <2>1. CASE reading = "refuse"
    BY <2>1, ResultsType DEF AttemptFails
  <2>2. CASE reading = "escape"
    BY <2>2, ResultsType DEF AttemptFails
  <2>3. CASE reading = "blank"
    BY <2>3, ResultsType DEF AttemptFails
  <2>4. CASE reading = "retry"
    BY <2>4, ResultsType DEF AttemptFails
  <2> QED BY <1>3, <2>1, <2>2, <2>3, <2>4
<1>5. CASE reading # "retry"
  <2>1. PICK r \in Results : /\ Return(c, r)
                             /\ r.kind = "LLMAuthenticationError" <=> reading = "refuse"
                             /\ r.kind # "LLMRetryableError"
    BY <1>4, <1>5
  <2>2. /\ phase' = [phase EXCEPT ![c] = "returned"] /\ result' = [result EXCEPT ![c] = r]
    BY <2>1 DEF Return
  <2>3. Earned(c)'
    BY <1>2, <1>3, <2>1, <2>2 DEF Earned, GatewayInv
  <2>4. \A d \in Calls \ {c} : Earned(d) => Earned(d)'
    BY <1>2, <2>2 DEF Earned, GatewayInv
  <2> QED BY <1>1, <1>2, <2>2, <2>3, <2>4, RetriesAssumption DEF GatewayInv
<1>6. CASE reading = "retry" /\ Len(log[c]) < Retries
  <2>1. UNCHANGED <<phase, result>>
    BY <1>4, <1>6
  <2>2. \A d \in Calls \ {c} : Earned(d) => Earned(d)'
    BY <1>2, <2>1 DEF Earned
  <2> QED BY <1>1, <1>2, <1>3, <1>6, <2>1, <2>2, RetriesAssumption DEF GatewayInv
<1>7. CASE reading = "retry" /\ ~ (Len(log[c]) < Retries)
  <2>1. /\ phase' = [phase EXCEPT ![c] = "returned"]
        /\ result' = [result EXCEPT ![c] = Raised("LLMRetryableError")]
    BY <1>4, <1>7 DEF Return
  <2>2. Len(log'[c]) = Retries + 1
    BY <1>2, <1>7, RetriesAssumption
  <2>3. Earned(c)'
    BY <1>2, <1>3, <1>7, <2>1, <2>2, ResultsType DEF Earned, GatewayInv
  <2>4. \A d \in Calls \ {c} : Earned(d) => Earned(d)'
    BY <1>2, <2>1 DEF Earned, GatewayInv
  <2> QED BY <1>1, <1>2, <2>1, <2>2, <2>3, <2>4, ResultsType, RetriesAssumption DEF GatewayInv
<1> QED BY <1>3, <1>5, <1>6, <1>7

(* An attempt the model answers ends the call with what it wrote.          *)
LEMMA AttemptAnsweredSafe ==
  ASSUME GatewayInv, NEW c \in Calls, NEW content \in Contents, AttemptAnswered(c, content)
  PROVE  GatewayInv'
<1>1. /\ phase[c] = "posting" /\ settings' = settings
      /\ log' = [log EXCEPT ![c] = Append(@, "answer")]
      /\ phase' = [phase EXCEPT ![c] = "returned"]
      /\ result' = [result EXCEPT ![c] = Replied(content)]
  BY DEF AttemptAnswered, Return
<1>2. /\ log' \in [Calls -> Seq(Entries)]
      /\ Len(log'[c]) = Len(log[c]) + 1 /\ Len(log[c]) \in Nat /\ Len(log[c]) <= Retries
      /\ log'[c][Len(log'[c])] = "answer" /\ log'[c] # <<>>
      /\ \A i \in 1 .. Len(log'[c]) - 1 : log'[c][i] \in Retryable
      /\ \A d \in Calls \ {c} : log'[d] = log[d]
  BY <1>1, LogGrows DEF Entries, GatewayInv
<1>3. Earned(c)'
  BY <1>1, <1>2, ResultsType DEF Earned, GatewayInv
<1>4. \A d \in Calls \ {c} : Earned(d) => Earned(d)'
  BY <1>1, <1>2 DEF Earned, GatewayInv
<1> QED BY <1>1, <1>2, <1>3, <1>4, ResultsType, RetriesAssumption DEF GatewayInv

(* A call that is done with is forgotten.                                  *)
LEMMA ForgetSafe ==
  ASSUME GatewayInv, NEW c \in Calls, Forget(c)
  PROVE  GatewayInv'
<1>1. /\ phase' = [phase EXCEPT ![c] = "forgotten"] /\ log' = [log EXCEPT ![c] = <<>>]
      /\ result' = [result EXCEPT ![c] = None] /\ settings' = settings
  BY DEF Forget
<1>2. <<>> \in Seq(Entries) /\ Len(<<>>) = 0 /\ 0 <= Retries + 1
  BY EmptySeq, RetriesAssumption
<1>3. \A d \in Calls \ {c} : Earned(d) => Earned(d)'
  BY <1>1 DEF Earned, GatewayInv
<1> QED BY <1>1, <1>2, <1>3, ResultsType DEF GatewayInv
------------------------------------------------------------------------------
(* The score.                                                              *)

(* A finite sequence has so many items of a kind.                          *)
LEMMA CountType ==
  ASSUME NEW impacts \in Seq({"HIGH", "MEDIUM", "LOW"}), NEW kind
  PROVE  /\ Count(impacts, kind) \in Nat
         /\ (\E i \in 1 .. Len(impacts) : impacts[i] = kind) => Count(impacts, kind) >= 1
<1> DEFINE these == {i \in DOMAIN impacts : impacts[i] = kind}
<1>1. DOMAIN impacts = 1 .. Len(impacts) /\ Len(impacts) \in Nat
  BY LenProperties
<1>2. IsFiniteSet(1 .. Len(impacts))
  BY <1>1, FS_Interval
<1>3. these \in SUBSET (1 .. Len(impacts))
  BY <1>1
<1>4. IsFiniteSet(these)
  BY <1>2, <1>3, FS_Subset
<1>5. Cardinality(these) \in Nat
  BY <1>4, FS_CardinalityType
<1>6. (\E i \in 1 .. Len(impacts) : impacts[i] = kind) => Cardinality(these) # 0
  <2>1. (\E i \in 1 .. Len(impacts) : impacts[i] = kind) => these # {}
    BY <1>1
  <2> QED BY <2>1, <1>4, FS_EmptySet
<1>7. Count(impacts, kind) = Cardinality(these)
  BY DEF Count
<1> QED BY <1>5, <1>6, <1>7

(* The compatibility is a percentage, and one change of high impact takes  *)
(* at least forty points off it.                                           *)
LEMMA ApiCompatibilityRange ==
  ASSUME NEW impacts \in Seq({"HIGH", "MEDIUM", "LOW"})
  PROVE  /\ ApiCompatibility(impacts) \in 0 .. 100
         /\ (\E i \in 1 .. Len(impacts) : impacts[i] = "HIGH") => ApiCompatibility(impacts) <= 60
<1>1. /\ Count(impacts, "HIGH") \in Nat /\ Count(impacts, "MEDIUM") \in Nat
      /\ Count(impacts, "LOW") \in Nat
      /\ (\E i \in 1 .. Len(impacts) : impacts[i] = "HIGH") => Count(impacts, "HIGH") >= 1
  BY CountType
<1>2. /\ Penalty(impacts) \in Nat
      /\ Count(impacts, "HIGH") >= 1 => Penalty(impacts) >= 40
  BY <1>1 DEF Penalty
<1> DEFINE penalty == Penalty(impacts)
<1>3. ApiCompatibility(impacts) = IF 0 >= 100 - penalty THEN 0 ELSE 100 - penalty
  BY DEF ApiCompatibility, Most
<1>4. penalty \in Nat /\ (Count(impacts, "HIGH") >= 1 => penalty >= 40)
  BY <1>2
<1> HIDE DEF penalty
<1>5. ApiCompatibility(impacts) \in 0 .. 100
  BY <1>3, <1>4
<1>6. penalty >= 40 => ApiCompatibility(impacts) <= 60
  BY <1>3, <1>4
<1> QED BY <1>1, <1>4, <1>5, <1>6

(* What the comparison of parameters and the model find are impacts, and   *)
(* what the comparison finds is kept, whatever the gateway did.            *)
LEMMA BreakingChangesType ==
  ASSUME NEW s
  PROVE  /\ BreakingChanges(s) \in Seq({"HIGH", "MEDIUM", "LOW"})
         /\ AstImpacts(req[s].of) = <<"HIGH">> =>
              \E i \in 1 .. Len(BreakingChanges(s)) : BreakingChanges(s)[i] = "HIGH"
<1> DEFINE Kinds == {"HIGH", "MEDIUM", "LOW"}
<1>1. <<>> \in Seq(Kinds)
  BY EmptySeq
<1>2. <<"HIGH">> \in Seq(Kinds) /\ Len(<<"HIGH">>) = 1 /\ <<"HIGH">>[1] = "HIGH"
  OBVIOUS
<1>3. AstImpacts(req[s].of) \in Seq(Kinds)
  BY <1>1, <1>2 DEF AstImpacts
<1>4. LLMImpacts(s) \in Seq(Kinds)
  BY <1>1, ProposalsAssumption DEF LLMImpacts
<1>5. BreakingChanges(s) \in Seq(Kinds)
  BY <1>3, <1>4, ConcatProperties DEF BreakingChanges
<1>6. ASSUME AstImpacts(req[s].of) = <<"HIGH">>
      PROVE  \E i \in 1 .. Len(BreakingChanges(s)) : BreakingChanges(s)[i] = "HIGH"
  <2>1. BreakingChanges(s) = <<"HIGH">> \o LLMImpacts(s)
    BY <1>6 DEF BreakingChanges
  <2>2. /\ Len(<<"HIGH">> \o LLMImpacts(s)) = 1 + Len(LLMImpacts(s))
        /\ Len(LLMImpacts(s)) \in Nat
    BY <1>2, <1>4, ConcatProperties, LenProperties
  <2>3. (<<"HIGH">> \o LLMImpacts(s))[1] = "HIGH"
    BY <1>2, <1>4, <2>2, ConcatProperties
  <2> QED BY <2>1, <2>2, <2>3
<1> QED BY <1>5, <1>6

(* The parts of a score are percentages.                                   *)
LEMMA PartsRange ==
  ASSUME Typed, NEW callers \in Nat, NEW p \in ProposalRows
  PROVE  /\ DependencyImpact(callers) \in 0 .. 100
         /\ BehavioralRisk(p) \in 0 .. 100
<1>1. facts.complexity \in Nat
  BY ProposalsAssumption DEF Typed
<1>2. callers * 12 + facts.complexity * 2 \in Nat
  BY <1>1
<1>3. facts.complexity * 5 + (IF p.diffs = "none" THEN 0 ELSE 15) \in Nat
  BY <1>1
<1> QED BY <1>2, <1>3 DEF DependencyImpact, BehavioralRisk, Most, Least

(* A weighted mean of percentages, rounded, is one.                        *)
LEMMA TotalsRange ==
  ASSUME NEW api \in 0 .. 100, NEW test \in 0 .. 100,
         NEW dep \in 0 .. 100, NEW beh \in 0 .. 100
  PROVE  Totals(api, test, dep, beh) \subseteq 0 .. 100
<1> DEFINE twentieths == 7 * api + 5 * test + 4 * dep + 4 * beh
<1>1. twentieths \in 0 .. 2000
  OBVIOUS
<1>2. ASSUME NEW t \in 0 .. 2000, NEW n \in t \div 20 .. t \div 20 + 1, 20 * n - 10 <= t
      PROVE  n \in 0 .. 100
  <2>1. t \div 20 \in Int /\ t \div 20 >= 0
    OBVIOUS
  <2> QED BY <1>2, <2>1
<1> QED BY <1>1, <1>2 DEF Totals

(* No run is of a proposal: nothing is known of its behaviour.             *)
LEMMA NoEvidence ==
  ASSUME Typed, NEW p \in ProposalRows
  PROVE  Evidence(p) = [test |-> 0, confidence |-> "low", behavior |-> "UNVERIFIED"]
<1>1. \A t \in runs : t.proposal = None
  BY DEF Typed, RunRows
<1>2. p.id # None
  BY ProposalsAssumption DEF ProposalRows
<1>3. MatchingRuns(p) = {}
  BY <1>1, <1>2 DEF MatchingRuns
<1> QED BY <1>3 DEF Evidence
------------------------------------------------------------------------------
(* The steps of a request.                                                 *)

(* What is drafted has one author, and is never the original unchanged;    *)
(* what the gate makes the original is marked.                             *)
LEMMA RecordIsOfOnePiece ==
  ASSUME Typed, NEW r \in Proposers, req[r].of \in 1 .. MaxAnalyses
  PROVE  /\ Record(r) \in ProposalRows /\ OfOnePiece(Record(r))
         /\ Record(r).id = r /\ Record(r).entity = req[r].of
<1> DEFINE draft == Draft(r)
           Drafts == [rationale : {"llm", "fallback"}, diffs : {"llm", "fallback", "none"},
                      code : {"compatible", "renamed", "unseen", "fallback", "invalid"}]
<1>1. /\ Fallback(req[r].source) \in Drafts
      /\ Fallback(req[r].source).rationale = "fallback"
      /\ Fallback(req[r].source).diffs = "fallback"
      /\ Fallback(req[r].source).code \in {"fallback", "invalid"}
  BY DEF Fallback
<1>2. ASSUME NEW reply \in Replies, reply.code # "same"
      PROVE  /\ FromLLM(reply) \in Drafts
             /\ FromLLM(reply).rationale = "llm"
             /\ FromLLM(reply).diffs \in {"llm", "none"}
             /\ FromLLM(reply).code # "fallback"
  <2>1. reply.code \in {"same", "compatible", "renamed", "unseen", "invalid"}
    BY ProposalsAssumption
  <2> QED BY <1>2, <2>1 DEF FromLLM
<1>3. /\ draft \in Drafts
      /\ draft.diffs \in {draft.rationale, "none"}
      /\ draft.code # "invalid" => (draft.code = "fallback" <=> draft.rationale = "fallback")
  <2>1. CASE Usable(r) /\ result[r].content.reasons /\ result[r].content.code # "same"
    <3>1. result[r].content \in Replies /\ draft = FromLLM(result[r].content)
      BY <2>1 DEF Usable, Draft
    <3> QED BY <2>1, <3>1, <1>2
  <2>2. CASE ~ (Usable(r) /\ result[r].content.reasons /\ result[r].content.code # "same")
    <3>1. draft = Fallback(req[r].source)
      BY <2>2 DEF Draft
    <3> QED BY <3>1, <1>1
  <2> QED BY <2>1, <2>2
<1>4. req[r].source \in BOOLEAN
  BY DEF Typed, Held
<1> HIDE DEF draft
<1>5. Record(r) =
        [id |-> r, entity |-> req[r].of, source |-> req[r].source,
         rationale |-> draft.rationale,
         code |-> IF draft.code = "invalid" THEN "same" ELSE draft.code,
         diffs |-> draft.diffs, retained |-> draft.code = "invalid"]
  BY DEF Record, Gated, draft
<1>6. Record(r) \in ProposalRows
  BY <1>3, <1>4, <1>5 DEF ProposalRows
<1>7. OfOnePiece(Record(r))
  <2>1. /\ Record(r).rationale = draft.rationale /\ Record(r).diffs = draft.diffs
        /\ Record(r).code = IF draft.code = "invalid" THEN "same" ELSE draft.code
        /\ Record(r).retained = (draft.code = "invalid")
    BY <1>5
  <2>2. draft.code # "same"
    BY <1>3
  <2>3. CASE draft.code = "invalid"
    BY <1>3, <2>1, <2>3 DEF OfOnePiece
  <2>4. CASE draft.code # "invalid"
    BY <1>3, <2>1, <2>2, <2>4 DEF OfOnePiece
  <2> QED BY <2>3, <2>4
<1> QED BY <1>5, <1>6, <1>7

(* What is known of a caller count is a number.                            *)
LEMMA CallersType ==
  ASSUME Typed, NEW e
  PROVE  CallerCount(e) \in Nat /\ ListedCallers(e) \subseteq Nat
<1>1. facts.callers \in Nat /\ CallerLimit \in Nat
  BY ProposalsAssumption DEF Typed
<1>2. Least(facts.callers, CallerLimit) \in Nat
  BY <1>1 DEF Least
<1> QED BY <1>1, <1>2 DEF CallerCount, ListedCallers, Listings

(* A request is a proposer or a scorer, never both.                        *)
LEMMA Kinds ==
  /\ \A r \in Proposers : r \in Calls /\ r \notin Scorers
  /\ \A s \in Scorers : s \in Calls /\ s \notin Proposers
  /\ None \notin {200, 404, 500} /\ None \notin Proposers
BY ProposalsAssumption

(* The gateway's invariant speaks of the gateway only.                     *)
LEMMA GatewayFrame ==
  ASSUME GatewayInv, UNCHANGED gatewayVars
  PROVE  GatewayInv'
BY DEF GatewayInv, Earned, gatewayVars

(* What a request holds once it has read its subject.                      *)
LEMMA HeldAsking ==
  ASSUME NEW subjects, NEW held \in Held(subjects), NEW subject \in subjects,
         NEW listed \in Nat
  PROVE  [held EXCEPT !.pc = "asking", !.of = subject, !.listed = listed] \in Held(subjects)
BY DEF Held

LEMMA HeldReading ==
  ASSUME NEW subjects, NEW held \in Held(subjects), NEW subject \in subjects,
         NEW listed \in Nat, NEW source \in BOOLEAN
  PROVE  [held EXCEPT !.pc = "asking", !.of = subject, !.source = source, !.listed = listed]
           \in Held(subjects)
BY DEF Held

(* Requests stay typed when one of them moves on.                          *)
LEMMA RequestsTyped ==
  ASSUME Typed, NEW r \in Calls, DOMAIN req' = DOMAIN req,
         \A d \in Calls \ {r} : req'[d] = req[d],
         r \in Proposers => req'[r] \in Held({None} \union 1 .. MaxAnalyses),
         r \in Scorers => req'[r] \in Held({None} \union ProposalRows)
  PROVE  /\ DOMAIN req' = Calls
         /\ \A d \in Proposers : req'[d] \in Held({None} \union 1 .. MaxAnalyses)
         /\ \A d \in Scorers : req'[d] \in Held({None} \union ProposalRows)
<1>1. DOMAIN req' = Calls
  BY DEF Typed
<1>2. ASSUME NEW d \in Proposers PROVE req'[d] \in Held({None} \union 1 .. MaxAnalyses)
  BY Kinds DEF Typed
<1>3. ASSUME NEW d \in Scorers PROVE req'[d] \in Held({None} \union ProposalRows)
  BY Kinds DEF Typed
<1> QED BY <1>1, <1>2, <1>3

(* An unfinished request has no answer, and what one has read is typed.    *)
LEMMA ReadEntitySafe ==
  ASSUME IInv, NEW r \in Proposers, NEW e \in 1 .. MaxAnalyses, ReadEntity(r, e)
  PROVE  IInv'
<1>1. UNCHANGED <<gatewayVars, rowVars>> /\ req[r].pc = "idle"
  BY DEF ReadEntity
<1>2. ListedCallers(e) \subseteq Nat
  BY CallersType DEF IInv, ProposalsInv
<1>3. /\ DOMAIN req' = DOMAIN req /\ \A d \in Calls \ {r} : req'[d] = req[d]
      /\ req'[r] \in Held({None} \union 1 .. MaxAnalyses)
      /\ req'[r].answer # 200
      /\ req'[r].pc = "asking" => req'[r].of \in 1 .. MaxAnalyses /\ req'[r].answer = None
      /\ req'[r].pc \in {"asking", "answered"}
  <2>1. req[r] \in Held({None} \union 1 .. MaxAnalyses) /\ DOMAIN req = Calls /\ r \in Calls
    BY Kinds DEF IInv, ProposalsInv, Typed
  <2>2. uploads \in BOOLEAN /\ req[r].answer = None
    BY <1>1 DEF IInv, ProposalsInv, Typed, ProposersInv
  <2>3. CASE repository = "deleted" \/ e # entity
    BY <2>1, <2>2, <2>3, <1>1, Kinds DEF ReadEntity, Answer, Held
  <2>4. CASE ~ (repository = "deleted" \/ e # entity)
    <3>1. PICK n \in ListedCallers(e) :
            req' = [req EXCEPT ![r].pc = "asking", ![r].of = e,
                               ![r].source = uploads, ![r].listed = n]
      BY <2>4 DEF ReadEntity
    <3>2. n \in Nat
      BY <1>2
    <3>3. /\ DOMAIN req' = DOMAIN req /\ \A d \in Calls \ {r} : req'[d] = req[d]
          /\ req'[r] = [req[r] EXCEPT !.pc = "asking", !.of = e,
                                      !.source = uploads, !.listed = n]
      BY <2>1, <3>1
    <3>4. req'[r].pc = "asking" /\ req'[r].of = e /\ req'[r].answer = None
      BY <2>1, <2>2, <3>3 DEF Held
    <3>5. req'[r] \in Held({None} \union 1 .. MaxAnalyses)
      <4>1. e \in {None} \union 1 .. MaxAnalyses
        OBVIOUS
      <4>2. [req[r] EXCEPT !.pc = "asking", !.of = e, !.source = uploads, !.listed = n]
              \in Held({None} \union 1 .. MaxAnalyses)
        BY <4>1, <2>1, <2>2, <3>2, HeldReading
      <4> QED BY <3>3, <4>2
    <3> QED BY <3>3, <3>4, <3>5, Kinds
  <2> QED BY <2>3, <2>4
<1>4. Typed'
  <2>1. /\ DOMAIN req' = Calls
        /\ \A d \in Proposers : req'[d] \in Held({None} \union 1 .. MaxAnalyses)
        /\ \A d \in Scorers : req'[d] \in Held({None} \union ProposalRows)
    BY <1>3, Kinds, RequestsTyped DEF IInv, ProposalsInv
  <2> QED BY <1>1, <2>1 DEF IInv, ProposalsInv, Typed, rowVars
<1>5. RowsInv'
  BY <1>1 DEF IInv, ProposalsInv, RowsInv, rowVars
<1>6. ProposersInv'
  BY <1>1, <1>3, Kinds DEF IInv, ProposalsInv, ProposersInv, rowVars
<1>7. ScorersInv'
  BY <1>1, <1>3, Kinds DEF IInv, ProposalsInv, ScorersInv, Sound, rowVars
<1> QED BY <1>1, <1>4, <1>5, <1>6, <1>7, GatewayFrame DEF IInv, ProposalsInv

(* A proposal is answered with 200 exactly when it was stored.             *)
LEMMA InsertProposalSafe ==
  ASSUME IInv, NEW r \in Proposers, InsertProposal(r)
  PROVE  IInv'
<1>1. /\ UNCHANGED <<shape, facts, repository, entity, uploads, runs>>
      /\ req[r].pc = "asking" /\ Forget(r)
  BY DEF InsertProposal
<1>2. GatewayInv'
  BY <1>1, ForgetSafe, Kinds DEF IInv
<1>3. req[r].of \in 1 .. MaxAnalyses
  BY <1>1 DEF IInv, ProposalsInv, ProposersInv
<1>4. /\ Record(r) \in ProposalRows /\ OfOnePiece(Record(r))
      /\ Record(r).id = r /\ Record(r).entity = req[r].of
  BY <1>3, RecordIsOfOnePiece DEF IInv, ProposalsInv
<1>5. \/ entity = req[r].of /\ proposals' = proposals \union {Record(r)} /\ Answer(r, 200)
      \/ proposals' = proposals /\ Answer(r, 500)
  BY DEF InsertProposal
<1>6. /\ DOMAIN req' = DOMAIN req /\ \A d \in Calls \ {r} : req'[d] = req[d]
      /\ req'[r] \in Held({None} \union 1 .. MaxAnalyses)
      /\ req'[r].pc = "answered"
      /\ req'[r].answer = 200 => Record(r) \in proposals'
  <2>1. req[r] \in Held({None} \union 1 .. MaxAnalyses) /\ DOMAIN req = Calls /\ r \in Calls
    BY Kinds DEF IInv, ProposalsInv, Typed
  <2> QED BY <1>5, <2>1 DEF Answer, Held
<1>7. /\ proposals \subseteq proposals' /\ proposals' \subseteq ProposalRows
      /\ \A p \in proposals' : OfOnePiece(p) /\ p.entity = entity
  BY <1>4, <1>5 DEF IInv, ProposalsInv, Typed, RowsInv
<1>8. Typed'
  <2>1. /\ DOMAIN req' = Calls
        /\ \A d \in Proposers : req'[d] \in Held({None} \union 1 .. MaxAnalyses)
        /\ \A d \in Scorers : req'[d] \in Held({None} \union ProposalRows)
    BY <1>6, Kinds, RequestsTyped DEF IInv, ProposalsInv
  <2> QED BY <1>1, <1>7, <2>1 DEF IInv, ProposalsInv, Typed
<1>9. RowsInv'
  <2>1. \A p \in proposals' : OfOnePiece(p)' /\ p.entity = entity'
    BY <1>1, <1>7 DEF OfOnePiece
  <2>2. entity # req[r].of \/ repository # "deleted"
    BY <1>3, ProposalsAssumption DEF IInv, ProposalsInv, RowsInv
  <2>3. repository = "deleted" => entity = 0 /\ proposals' = {} /\ runs = {}
    BY <2>2, <1>5 DEF IInv, ProposalsInv, RowsInv
  <2> QED BY <2>1, <2>3, <1>1 DEF RowsInv, OfOnePiece
<1>10. ProposersInv'
  <2>1. ASSUME NEW d \in Proposers \ {r}
        PROVE  /\ req'[d].pc = "asking" => req'[d].of \in 1 .. MaxAnalyses
               /\ req'[d].pc # "answered" => req'[d].answer = None
               /\ req'[d].answer = 200 /\ repository' = "present" =>
                    \E p \in proposals' : p.id = d
    BY <1>1, <1>6, <1>7, Kinds DEF IInv, ProposalsInv, ProposersInv
  <2> QED BY <1>4, <1>6, <2>1 DEF ProposersInv
<1>11. ScorersInv'
  BY <1>1, <1>6, <1>7, Kinds DEF IInv, ProposalsInv, ScorersInv, Sound
<1> QED BY <1>2, <1>8, <1>9, <1>10, <1>11 DEF IInv, ProposalsInv

(* A score is asked for a proposal that is stored, of the present entity.  *)
LEMMA ReadProposalSafe ==
  ASSUME IInv, NEW s \in Scorers, NEW id \in Proposers, ReadProposal(s, id)
  PROVE  IInv'
<1>1. UNCHANGED <<gatewayVars, rowVars>> /\ req[s].pc = "idle"
  BY DEF ReadProposal
<1>2. /\ req[s] \in Held({None} \union ProposalRows) /\ DOMAIN req = Calls /\ s \in Calls
      /\ req[s].answer = None
  BY <1>1, Kinds DEF IInv, ProposalsInv, Typed, ScorersInv
<1>3. /\ DOMAIN req' = DOMAIN req /\ \A d \in Calls \ {s} : req'[d] = req[d]
      /\ req'[s] \in Held({None} \union ProposalRows)
      /\ req'[s].answer # 200
      /\ req'[s].pc = "asking" =>
           /\ req'[s].of \in proposals /\ req'[s].answer = None
           /\ req'[s].listed \in Listings(facts.callers, facts.moduleLevel)
      /\ req'[s].pc \in {"asking", "answered"}
  <2>1. CASE Answer(s, 404)
    BY <1>2, <2>1, Kinds DEF Answer, Held
  <2>2. CASE \E p \in proposals : \E n \in ListedCallers(p.entity) :
               req' = [req EXCEPT ![s].pc = "asking", ![s].of = p, ![s].listed = n]
    <3>1. PICK p \in proposals : \E n \in ListedCallers(p.entity) :
            req' = [req EXCEPT ![s].pc = "asking", ![s].of = p, ![s].listed = n]
      BY <2>2
    <3>0. PICK listed \in ListedCallers(p.entity) :
            req' = [req EXCEPT ![s].pc = "asking", ![s].of = p, ![s].listed = listed]
      BY <3>1
    <3>2. p \in ProposalRows /\ p.entity = entity
      BY DEF IInv, ProposalsInv, Typed, RowsInv
    <3>3. ListedCallers(p.entity) = Listings(facts.callers, facts.moduleLevel)
      BY <3>2 DEF ListedCallers
    <3>4. ListedCallers(p.entity) \subseteq Nat
      BY CallersType DEF IInv, ProposalsInv
    <3>5. req' = [req EXCEPT ![s] = [req[s] EXCEPT !.pc = "asking", !.of = p,
                                                   !.listed = listed]]
      BY <1>2, <3>0
    <3>6. listed \in Nat /\ listed \in Listings(facts.callers, facts.moduleLevel)
      BY <3>3, <3>4
    <3>7. /\ DOMAIN req' = DOMAIN req /\ \A d \in Calls \ {s} : req'[d] = req[d]
          /\ req'[s] = [req[s] EXCEPT !.pc = "asking", !.of = p, !.listed = listed]
      BY <1>2, <3>5
    <3>8. /\ req'[s].answer = None /\ req'[s].pc = "asking" /\ req'[s].of = p
          /\ req'[s].listed = listed
      BY <1>2, <3>7 DEF Held
    <3>9. req'[s] \in Held({None} \union ProposalRows)
      <4>1. p \in {None} \union ProposalRows /\ req[s] \in Held({None} \union ProposalRows)
        BY <1>2, <3>2
      <4>2. [req[s] EXCEPT !.pc = "asking", !.of = p, !.listed = listed]
              \in Held({None} \union ProposalRows)
        BY <4>1, <3>6, HeldAsking
      <4> QED BY <3>7, <4>2
    <3> QED BY <3>6, <3>7, <3>8, <3>9, Kinds
  <2>3. CASE {q \in proposals : q.id = id} = {}
    BY <2>1, <2>3 DEF ReadProposal
  <2>4. CASE {q \in proposals : q.id = id} # {}
    <3>1. \E p \in {q \in proposals : q.id = id} : \E n \in ListedCallers(p.entity) :
            req' = [req EXCEPT ![s].pc = "asking", ![s].of = p, ![s].listed = n]
      BY <2>4 DEF ReadProposal
    <3> QED BY <3>1, <2>2
  <2> QED BY <2>3, <2>4
<1>4. Typed'
  <2>1. /\ DOMAIN req' = Calls
        /\ \A d \in Proposers : req'[d] \in Held({None} \union 1 .. MaxAnalyses)
        /\ \A d \in Scorers : req'[d] \in Held({None} \union ProposalRows)
    BY <1>3, Kinds, RequestsTyped DEF IInv, ProposalsInv
  <2> QED BY <1>1, <2>1 DEF IInv, ProposalsInv, Typed, rowVars
<1>5. RowsInv'
  BY <1>1 DEF IInv, ProposalsInv, RowsInv, rowVars
<1>6. ProposersInv'
  BY <1>1, <1>3, Kinds DEF IInv, ProposalsInv, ProposersInv, rowVars
<1>7. ScorersInv'
  BY <1>1, <1>3, Kinds DEF IInv, ProposalsInv, Typed, ScorersInv, Sound, rowVars
<1> QED BY <1>1, <1>4, <1>5, <1>6, <1>7, GatewayFrame DEF IInv, ProposalsInv

(* A score is sound when it is given: the callers counted after the call   *)
(* are those listed before it, unless the repository is gone.              *)
LEMMA ScoreProposalSafe ==
  ASSUME IInv, NEW s \in Scorers, ScoreProposal(s)
  PROVE  IInv'
<1> DEFINE p == req[s].of
           api == ApiCompatibility(BreakingChanges(s))
           callers == CallerCount(p.entity)
           score(total) == [total |-> total, behavior |-> "UNVERIFIED", api |-> api,
                            callers |-> callers, risk |-> RiskLevel(total, "low")]
<1>1. UNCHANGED rowVars /\ req[s].pc = "asking" /\ Forget(s)
  BY DEF ScoreProposal
<1>2. GatewayInv'
  BY <1>1, ForgetSafe, Kinds DEF IInv
<1>3. /\ p \in ProposalRows
      /\ repository = "present" => p.entity = entity
      /\ req[s].listed \in Listings(facts.callers, facts.moduleLevel)
  BY <1>1 DEF IInv, ProposalsInv, ScorersInv, RowsInv
<1>4. Evidence(p) = [test |-> 0, confidence |-> "low", behavior |-> "UNVERIFIED"]
  BY <1>3, NoEvidence DEF IInv, ProposalsInv
<1>5. api \in 0 .. 100
  BY BreakingChangesType, ApiCompatibilityRange
<1>6. /\ p.code = "renamed" /\ shape = [language |-> "python", indented |-> FALSE] /\ p.source
      => api <= 60
  <2>1. ASSUME p.code = "renamed", shape = [language |-> "python", indented |-> FALSE],
               p.source
        PROVE  AstImpacts(p) = <<"HIGH">>
    BY <2>1 DEF AstImpacts
  <2> QED BY <2>1, BreakingChangesType, ApiCompatibilityRange
<1>7. callers \in Nat /\ (repository = "present" => callers = facts.callers)
  BY <1>3, CallersType DEF IInv, ProposalsInv, CallerCount
<1>8. PICK total \in Totals(api, 0, DependencyImpact(callers), BehavioralRisk(p)) :
        req' = [req EXCEPT ![s].pc = "answered", ![s].answer = 200, ![s].score = score(total)]
  <2>1. /\ Evidence(p).test = 0 /\ Evidence(p).confidence = "low"
        /\ Evidence(p).behavior = "UNVERIFIED"
    BY <1>4
  <2>2. \E total \in Totals(api, Evidence(p).test, DependencyImpact(callers),
                           BehavioralRisk(p)) :
          req' = [req EXCEPT ![s].pc = "answered", ![s].answer = 200,
                    ![s].score = [total |-> total, behavior |-> Evidence(p).behavior,
                                  api |-> api, callers |-> callers,
                                  risk |-> RiskLevel(total, Evidence(p).confidence)]]
    BY DEF ScoreProposal
  <2> QED BY <2>1, <2>2
<1>9. score(total) \in Scores /\ score(total).risk # "low"
  <2>1. DependencyImpact(callers) \in 0 .. 100 /\ BehavioralRisk(p) \in 0 .. 100
    BY <1>3, <1>7, PartsRange DEF IInv, ProposalsInv
  <2>2. 0 \in 0 .. 100
    OBVIOUS
  <2>3. total \in 0 .. 100
    BY <1>5, <2>1, <2>2, TotalsRange
  <2>4. RiskLevel(total, "low") \in {"medium", "high"}
    BY DEF RiskLevel
  <2> QED BY <1>5, <1>7, <2>3, <2>4 DEF Scores, Behaviors
<1> HIDE DEF api, callers
<1>10. /\ DOMAIN req' = DOMAIN req /\ \A d \in Calls \ {s} : req'[d] = req[d]
       /\ req'[s] \in Held({None} \union ProposalRows)
       /\ req'[s].pc = "answered" /\ req'[s].of = req[s].of
       /\ req'[s].listed = req[s].listed /\ req'[s].score = score(total)
  <2>1. req[s] \in Held({None} \union ProposalRows) /\ DOMAIN req = Calls /\ s \in Calls
    BY Kinds DEF IInv, ProposalsInv, Typed
  <2> QED BY <1>8, <1>9, <2>1 DEF Held
<1>11. Sound(s)'
  <2>1. repository \in {"present", "deleted"}
    BY DEF IInv, ProposalsInv, Typed
  <2>2. score(total).callers = callers /\ score(total).api = api
        /\ score(total).behavior = "UNVERIFIED"
    OBVIOUS
  <2>3. UNCHANGED <<shape, facts, repository>>
    BY <1>1 DEF rowVars
  <2> HIDE DEF score, p
  <2>4. req[s].of = p
    BY DEF p
  <2> QED BY <1>3, <1>6, <1>7, <1>9, <1>10, <2>1, <2>2, <2>3, <2>4 DEF Sound
<1>12. Typed'
  <2>1. /\ DOMAIN req' = Calls
        /\ \A d \in Proposers : req'[d] \in Held({None} \union 1 .. MaxAnalyses)
        /\ \A d \in Scorers : req'[d] \in Held({None} \union ProposalRows)
    BY <1>10, Kinds, RequestsTyped DEF IInv, ProposalsInv
  <2> QED BY <1>1, <2>1 DEF IInv, ProposalsInv, Typed, rowVars
<1>13. RowsInv'
  BY <1>1 DEF IInv, ProposalsInv, RowsInv, rowVars
<1>14. ProposersInv'
  BY <1>1, <1>10, Kinds DEF IInv, ProposalsInv, ProposersInv, rowVars
<1>15. ScorersInv'
  <2>1. \A d \in Scorers \ {s} : Sound(d) => Sound(d)'
    BY <1>1, <1>10, Kinds DEF Sound, rowVars
  <2> QED BY <1>1, <1>10, <1>11, <2>1, Kinds DEF IInv, ProposalsInv, ScorersInv, rowVars
<1> QED BY <1>2, <1>12, <1>13, <1>14, <1>15 DEF IInv, ProposalsInv
------------------------------------------------------------------------------
(* What else happens to the repository.                                    *)

(* The foreign key lets a re-analysis through only when there is no        *)
(* proposal: nobody then waits for a score.                                *)
LEMMA ReanalyzeSafe ==
  ASSUME IInv, Reanalyze
  PROVE  IInv'
<1>1. /\ UNCHANGED <<gatewayVars, req, shape, facts, repository, uploads, proposals, runs>>
      /\ repository = "present" /\ entity' = entity + 1 /\ entity < MaxAnalyses
      /\ \A p \in proposals : p.entity # entity
  BY DEF Reanalyze
<1>2. proposals = {}
  BY <1>1 DEF IInv, ProposalsInv, RowsInv
<1>3. entity' \in 0 .. MaxAnalyses
  BY <1>1, ProposalsAssumption DEF IInv, ProposalsInv, Typed
<1>4. Typed'
  BY <1>1, <1>3 DEF IInv, ProposalsInv, Typed
<1>5. RowsInv' /\ ProposersInv'
  BY <1>1, <1>2 DEF IInv, ProposalsInv, RowsInv, ProposersInv
<1>6. ScorersInv'
  BY <1>1, <1>2 DEF IInv, ProposalsInv, ScorersInv, Sound
<1> QED BY <1>1, <1>4, <1>5, <1>6, GatewayFrame DEF IInv, ProposalsInv

LEMMA RunTestsSafe ==
  ASSUME IInv, NEW status \in {"passed", "failed"}, RunTests(status)
  PROVE  IInv'
<1>1. /\ UNCHANGED <<gatewayVars, req, shape, facts, repository, entity, uploads, proposals>>
      /\ repository = "present"
      /\ runs' = {[status |-> status, target |-> status = "passed", proposal |-> None]}
  BY DEF RunTests
<1>2. runs' \subseteq RunRows
  BY <1>1 DEF RunRows
<1>3. Typed'
  BY <1>1, <1>2 DEF IInv, ProposalsInv, Typed
<1>4. RowsInv' /\ ProposersInv'
  BY <1>1 DEF IInv, ProposalsInv, RowsInv, OfOnePiece, ProposersInv
<1>5. ScorersInv'
  BY <1>1 DEF IInv, ProposalsInv, ScorersInv, Sound
<1> QED BY <1>1, <1>3, <1>4, <1>5, GatewayFrame DEF IInv, ProposalsInv

LEMMA DeleteRepositorySafe ==
  ASSUME IInv, DeleteRepository
  PROVE  IInv'
<1>1. /\ UNCHANGED <<gatewayVars, req, shape, facts>>
      /\ repository' = "deleted" /\ entity' = 0
      /\ uploads' = FALSE /\ proposals' = {} /\ runs' = {}
  BY DEF DeleteRepository
<1>2. Typed'
  <2>1. entity' \in 0 .. MaxAnalyses /\ proposals' \subseteq ProposalRows /\ runs' \subseteq RunRows
    BY <1>1, ProposalsAssumption
  <2> QED BY <1>1, <2>1 DEF IInv, ProposalsInv, Typed
<1>3. RowsInv' /\ ProposersInv'
  BY <1>1 DEF IInv, ProposalsInv, RowsInv, ProposersInv
<1>4. ScorersInv'
  BY <1>1 DEF IInv, ProposalsInv, ScorersInv, Sound
<1> QED BY <1>1, <1>2, <1>3, <1>4, GatewayFrame DEF IInv, ProposalsInv

LEMMA LoseUploadsSafe ==
  ASSUME IInv, LoseUploads
  PROVE  IInv'
<1>1. /\ UNCHANGED <<gatewayVars, req, shape, facts, repository, entity, proposals, runs>>
      /\ uploads' = FALSE
  BY DEF LoseUploads
<1>2. Typed'
  BY <1>1 DEF IInv, ProposalsInv, Typed
<1>3. RowsInv' /\ ProposersInv'
  BY <1>1 DEF IInv, ProposalsInv, RowsInv, OfOnePiece, ProposersInv
<1>4. ScorersInv'
  BY <1>1 DEF IInv, ProposalsInv, ScorersInv, Sound
<1> QED BY <1>1, <1>2, <1>3, <1>4, GatewayFrame DEF IInv, ProposalsInv

(* What the proposals' invariant is about is unchanged while the gateway   *)
(* works.                                                                  *)
LEMMA ProposalsFrame ==
  ASSUME ProposalsInv, UNCHANGED <<rowVars, req>>
  PROVE  ProposalsInv'
<1>1. UNCHANGED <<shape, facts, repository, entity, uploads, proposals, runs, req>>
  BY DEF rowVars
<1>2. Typed'
  BY <1>1 DEF ProposalsInv, Typed
<1>4. RowsInv' /\ ProposersInv'
  BY <1>1 DEF ProposalsInv, RowsInv, OfOnePiece, ProposersInv
<1>3. ScorersInv'
  BY <1>1 DEF ProposalsInv, ScorersInv, Sound
<1> QED BY <1>2, <1>3, <1>4 DEF ProposalsInv

LEMMA AskSafe ==
  ASSUME IInv, NEW r \in Calls, (\E p \in Prompts : Ask(r, p)) \/ AskAgain(r)
  PROVE  IInv'
<1>1. UNCHANGED <<rowVars, req>>
  BY DEF Ask, AskAgain
<1>2. GatewayInv'
  BY CompleteSafe, AttemptFailsSafe, AttemptAnsweredSafe DEF IInv, Ask, AskAgain, Attempt
<1> QED BY <1>1, <1>2, ProposalsFrame DEF IInv
------------------------------------------------------------------------------
LEMMA InitSafe == Init => IInv
<1> SUFFICES ASSUME Init PROVE IInv
  OBVIOUS
<1>1. GatewayInv
  <2>1. <<>> \in Seq(Entries) /\ Len(<<>>) = 0 /\ 0 <= Retries + 1
    BY EmptySeq, RetriesAssumption
  <2> QED BY <2>1, ResultsType DEF Init, GatewayInit, GatewayInv
<1>2. Typed
  <2>1. \A X : Idle \in Held({None} \union X)
    BY DEF Idle, Held
  <2>2. /\ DOMAIN req = Calls
        /\ \A r \in Proposers : req[r] \in Held({None} \union 1 .. MaxAnalyses)
        /\ \A s \in Scorers : req[s] \in Held({None} \union ProposalRows)
    BY <2>1, Kinds DEF Init
  <2>3. 1 \in 0 .. MaxAnalyses
    BY ProposalsAssumption
  <2> QED BY <2>2, <2>3 DEF Init, Typed
<1>3. RowsInv
  BY DEF Init, RowsInv
<1>4. ProposersInv /\ ScorersInv
  BY Kinds DEF Init, Idle, ProposersInv, ScorersInv
<1> QED BY <1>1, <1>2, <1>3, <1>4 DEF IInv, ProposalsInv

LEMMA NextSafe == IInv /\ [Next]_vars => IInv'
<1> SUFFICES ASSUME IInv, [Next]_vars PROVE IInv'
  OBVIOUS
<1>1. CASE \E r \in Proposers, e \in 1 .. MaxAnalyses : ReadEntity(r, e)
  BY <1>1, ReadEntitySafe
<1>2. CASE \E s \in Scorers, id \in Proposers : ReadProposal(s, id)
  BY <1>2, ReadProposalSafe
<1>3. CASE \E r \in Calls : HandlerStep(r)
  BY <1>3, AskSafe, InsertProposalSafe, ScoreProposalSafe DEF HandlerStep
<1>4. CASE Reanalyze
  BY <1>4, ReanalyzeSafe
<1>5. CASE DeleteRepository
  BY <1>5, DeleteRepositorySafe
<1>6. CASE LoseUploads
  BY <1>6, LoseUploadsSafe
<1>7. CASE \E status \in {"passed", "failed"} : RunTests(status)
  BY <1>7, RunTestsSafe
<1>8. CASE UNCHANGED vars
  <2>1. UNCHANGED gatewayVars /\ UNCHANGED <<rowVars, req>>
    BY <1>8 DEF vars
  <2> QED BY <2>1, GatewayFrame, ProposalsFrame DEF IInv
<1> QED BY <1>1, <1>2, <1>3, <1>4, <1>5, <1>6, <1>7, <1>8 DEF Next

(* The invariant holds throughout every behaviour.                         *)
THEOREM InvariantHolds == Spec => []IInv
BY InitSafe, NextSafe, PTL DEF Spec
------------------------------------------------------------------------------
LEMMA IInvImpliesTypeOK == IInv => TypeOK
<1> SUFFICES ASSUME IInv PROVE TypeOK
  OBVIOUS
<1>1. GatewayTypeOK
  <2>1. \A c \in Calls : \A i \in DOMAIN log[c] : log[c][i] \in Entries
    BY DEF IInv, GatewayInv
  <2> QED BY <2>1 DEF IInv, GatewayInv, GatewayTypeOK, Entries
<1>2. \A p \in proposals :
        /\ p.id \in Proposers /\ p.entity \in 1 .. MaxAnalyses
        /\ p.code \in {"same", "compatible", "renamed", "unseen", "fallback"}
  BY DEF IInv, ProposalsInv, Typed, ProposalRows
<1>3. \A r \in Calls : req[r].pc \in {"idle", "asking", "answered"}
                       /\ req[r].answer \in {None, 200, 404, 500}
  <2>1. \A r \in Calls : r \in Proposers \/ r \in Scorers
    BY ProposalsAssumption
  <2> QED BY <2>1 DEF IInv, ProposalsInv, Typed, Held
<1>4. \A r \in Scorers : req[r].answer = 200 => req[r].score.total \in 0 .. 100
  BY DEF IInv, ProposalsInv, ScorersInv, Sound, Scores
<1> QED BY <1>1, <1>2, <1>3, <1>4 DEF TypeOK, IInv, ProposalsInv, Typed

(* Type correctness, of the rows, the requests and the gateway             *)
(* (refactor.py, safety.py, gateway.py).                                   *)
THEOREM TypeCorrect == Spec => []TypeOK
BY InvariantHolds, IInvImpliesTypeOK, PTL

(* What a call ends with is what its attempts deserve, whatever the        *)
(* provider answers and however often it is asked (gateway.py, the attempt *)
(* loops of the three providers).                                          *)
THEOREM OutcomesAreAlwaysEarned == Spec => []OutcomeIsEarned
<1>1. IInv => OutcomeIsEarned
  BY DEF IInv, GatewayInv, Earned, OutcomeIsEarned, Retryable
<1> QED BY <1>1, InvariantHolds, PTL

(* A proposal has one author, its differences possibly missing, and says   *)
(* so when it keeps the original code (refactor.py:253-315).               *)
THEOREM ProposalsAlwaysOfOnePiece == Spec => []ProposalIsOfOnePiece
<1>1. IInv => ProposalIsOfOnePiece
  BY DEF IInv, ProposalsInv, RowsInv, OfOnePiece, ProposalIsOfOnePiece
<1> QED BY <1>1, InvariantHolds, PTL

(* A proposal that was answered with 200 is stored for as long as the      *)
(* repository is there: the safety half of ProposersAreServed              *)
(* (refactor.py:320-335).                                                  *)
THEOREM AnsweredProposalsAlwaysStored == Spec => []AnsweredProposalIsStored
<1>1. IInv => AnsweredProposalIsStored
  BY DEF IInv, ProposalsInv, ProposersInv, AnsweredProposalIsStored
<1> QED BY <1>1, InvariantHolds, PTL

(* A score claims no verdict for want of a run of its proposal, rests on   *)
(* one analysis, and on what the comparison of parameters found, whatever  *)
(* the gateway answered and whatever happened to the repository meanwhile  *)
(* (safety.py:33-235).                                                     *)
THEOREM ScoresAlwaysSound == Spec => []ScoresAreSound
<1>1. IInv => NothingIsVerified /\ RenamesOfFunctionsAreReported
  BY DEF IInv, ProposalsInv, ScorersInv, Sound, NothingIsVerified,
         RenamesOfFunctionsAreReported
<1>2. IInv => ScoreIsOfOneAnalysis
  BY DEF IInv, ProposalsInv, ScorersInv, Sound, ScoreIsOfOneAnalysis
<1> QED BY <1>1, <1>2, IInvImpliesTypeOK, InvariantHolds, PTL DEF ScoresAreSound
==============================================================================
