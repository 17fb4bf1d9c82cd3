------------------------ MODULE MCRefactorProposals ------------------------
EXTENDS RefactorProposals

(* The three families of providers; a budget of which the system prompt    *)
(* leaves something, or nothing.                                           *)
MCSettings ==
  {[provider |-> "openai", llmKey |-> "", openrouterKey |-> o,
    tokenBudget |-> 8192, maxTokens |-> 2048] : o \in BOOLEAN}
  \union {[provider |-> "anthropic", llmKey |-> "sk-ant", openrouterKey |-> FALSE,
           tokenBudget |-> 2348, maxTokens |-> 2048]}

MCPrompts == {[system |-> 290, tokens |-> t] : t \in {10, 11}}

MCShapes == {[language |-> "python", indented |-> FALSE],
             [language |-> "python", indented |-> TRUE],
             [language |-> "java", indented |-> TRUE]}

(* Two calls of the entity, one of them at module level.                   *)
MCFacts == {[complexity |-> 1, callers |-> 2, moduleLevel |-> 1]}

MCReplies ==
  {[json |-> TRUE, reasons |-> TRUE, code |-> c, diffs |-> "list"] :
     c \in {"same", "renamed", "unseen", "invalid"}}
  \union {[json |-> TRUE, reasons |-> TRUE, code |-> "renamed", diffs |-> "null"],
          [json |-> FALSE, reasons |-> TRUE, code |-> "compatible", diffs |-> "list"],
          [json |-> TRUE, reasons |-> FALSE, code |-> "compatible", diffs |-> "list"]}

MCReports == {[json |-> TRUE, impacts |-> i] : i \in {<<>>, <<"MEDIUM", "LOW">>}}
MCContents == MCReplies \union MCReports
=============================================================================
