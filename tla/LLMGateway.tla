----------------------------- MODULE LLMGateway -----------------------------
(***************************************************************************)
(* LLMGateway.complete: which provider the settings select, how a prompt   *)
(* is fitted to the token budget, and the attempts a provider makes.  The  *)
(* provider at the other end may answer anything, or nothing until the     *)
(* client times out.  Back-off sleeps are left out: between two attempts   *)
(* of one call any step of another may come.                               *)
(***************************************************************************)
EXTENDS Integers, Sequences, FiniteSets

CONSTANTS Calls,     \* the requests that ask the gateway, at most once each
          Retries,   \* settings.llm_retries
          Settings,  \* the configurations the process may be started with
          Prompts,   \* [system, tokens]: sizes of what is asked
          Contents,  \* what a model may write
          None

ASSUME RetriesAssumption == Retries \in Nat

VARIABLES settings,  \* app.config.Settings, fixed at start
          phase,     \* where each call is
          log,       \* what the provider answered to each attempt
          result     \* what complete() returned or raised

gatewayVars == <<settings, phase, log, result>>

(* ---- get_llm_gateway: a missing key or an unknown name means the mock.  *)
OpenRouterKey(s) == s.openrouterKey \/ s.llmKey = "sk-or"

GetProvider(s) ==
  CASE s.provider = "openrouter" \/ (s.provider = "openai" /\ OpenRouterKey(s)) ->
         IF OpenRouterKey(s) \/ s.llmKey # "" THEN "openrouter" ELSE "mock"
    [] s.provider \in {"openai", "anthropic"} /\ s.llmKey # "" -> s.provider
    [] OTHER -> "mock"

Provider == GetProvider(settings)

(* ---- fit_to_budget: sizes in tokens are estimates; a prompt that is too *)
(* long is cut to four characters a token, less the room for a marker, and *)
(* refused when that leaves nothing.                                       *)
MarkerReserve == 50

Available(p) == settings.tokenBudget - settings.maxTokens - p.system

Exceeds(p) ==
  \/ Available(p) <= 0
  \/ p.tokens > Available(p) /\ Available(p) * 4 - MarkerReserve <= 0

(* ---- what one attempt makes of the HTTP answer.  401 and 403 raise at   *)
(* once; every other HTTP error, a network error or time-out, a KeyError   *)
(* and a ValueError are retried; anything else escapes the handler.        *)
Bodies == {"refused", "status", "network", "notJson", "noKey", "empty", "notObject"}

ReadReplyOpenAI(body) ==
  CASE body = "refused" -> "refuse"
    [] body \in {"status", "network", "notJson", "noKey"} -> "retry"
    [] OTHER -> "escape"

ReadReplyAnthropic(body) ==
  CASE body = "refused" -> "refuse"
    [] body \in {"status", "network", "notJson"} -> "retry"
    [] body \in {"noKey", "empty"} -> "blank"
    [] OTHER -> "escape"

(* Fault: a refused key is retried like any other HTTP error.              *)
ReadReplyUniform(provider, body) ==
  IF body = "notObject" THEN "escape" ELSE "retry"

ReadReply(provider, body) ==
  IF provider = "anthropic" THEN ReadReplyAnthropic(body) ELSE ReadReplyOpenAI(body)

(* ---- the call ---------------------------------------------------------- *)
Replied(content) == [kind |-> "reply", provider |-> Provider, content |-> content]
Raised(error) == [kind |-> error, provider |-> None, content |-> None]

Results ==
  [kind : {"reply"}, provider : {"mock", "openai", "openrouter", "anthropic"},
   content : Contents \union {None}]
  \union {Raised(e) : e \in {"TokenBudgetExceededError", "LLMAuthenticationError",
                             "LLMRetryableError", "escaped"}}
  \union {None}

Return(c, r) ==
  /\ phase' = [phase EXCEPT ![c] = "returned"]
  /\ result' = [result EXCEPT ![c] = r]

GatewayInit ==
  /\ settings \in Settings
  /\ phase = [c \in Calls |-> "idle"]
  /\ log = [c \in Calls |-> <<>>]
  /\ result = [c \in Calls |-> None]

(* The prompt is fitted, or the call raises before anything is sent; the   *)
(* mock answers within the process.                                        *)
Complete(c, p) ==
  /\ phase[c] = "idle"
  /\ UNCHANGED <<settings, log>>
  /\ IF Exceeds(p) THEN Return(c, Raised("TokenBudgetExceededError"))
     ELSE IF Provider = "mock" THEN Return(c, Replied(None))
     ELSE phase' = [phase EXCEPT ![c] = "posting"] /\ UNCHANGED result

(* One attempt that brings no content.                                     *)
AttemptFails(c, body) ==
  LET reading == ReadReply(Provider, body) IN
  /\ phase[c] = "posting"
  /\ log' = [log EXCEPT ![c] = Append(@, body)]
  /\ UNCHANGED settings
  /\ CASE reading = "refuse" -> Return(c, Raised("LLMAuthenticationError"))
       [] reading = "escape" -> Return(c, Raised("escaped"))
       [] reading = "blank"  -> Return(c, Replied(None))
       [] OTHER -> IF Len(log[c]) < Retries
                   THEN UNCHANGED <<phase, result>>
                   ELSE Return(c, Raised("LLMRetryableError"))

(* The handler is done with what the call returned.                        *)
Forget(c) ==
  /\ phase' = [phase EXCEPT ![c] = "forgotten"]
  /\ log' = [log EXCEPT ![c] = <<>>]
  /\ result' = [result EXCEPT ![c] = None]
  /\ UNCHANGED settings

(* One attempt the model answers.                                          *)
AttemptAnswered(c, content) ==
  /\ phase[c] = "posting"
  /\ log' = [log EXCEPT ![c] = Append(@, "answer")]
  /\ Return(c, Replied(content))
  /\ UNCHANGED settings

Attempt(c) ==
  \/ \E body \in Bodies : AttemptFails(c, body)
  \/ \E content \in Contents : AttemptAnswered(c, content)

GatewayTypeOK ==
  /\ settings \in Settings
  /\ phase \in [Calls -> {"idle", "posting", "returned", "forgotten"}]
  /\ \A c \in Calls : /\ Len(log[c]) <= Retries + 1
                      /\ \A i \in DOMAIN log[c] : log[c][i] \in Bodies \union {"answer"}
  /\ result \in [Calls -> Results]

(***************************************************************************)
(* What a call ends with is what its attempts deserve: a refused key or an *)
(* answer that cannot be read ends it at the attempt that met it, a        *)
(* retryable error is raised only after every attempt was used, and        *)
(* content once received is returned, whatever went wrong before it        *)
(* (gateway.py, the attempt loops of the three providers).                 *)
(***************************************************************************)
OutcomeIsEarned ==
  \A c \in Calls : phase[c] = "returned" /\ log[c] # <<>> =>
    LET last == log[c][Len(log[c])]
        before == {log[c][i] : i \in 1 .. Len(log[c]) - 1}
    IN /\ before \subseteq {"status", "network", "notJson", "noKey"}
       /\ result[c].kind = "LLMAuthenticationError" <=> last = "refused"
       /\ result[c].kind = "LLMRetryableError" => Len(log[c]) = Retries + 1
       /\ last = "answer" => result[c].kind = "reply"
=============================================================================
