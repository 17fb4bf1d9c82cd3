---------------------------- MODULE EmbeddingIndex ----------------------------
(***************************************************************************)
(* The semantic index: create_index rebuilds a repository's chunks, search *)
(* reads them, and both get their vectors from embed_cached, which looks   *)
(* texts up in a table by their hash and asks the embedder for the others, *)
(* in batches and with retries.                                            *)
(*                                                                         *)
(* A text stands for its hash.  The embedder is a function of the text, so *)
(* a vector is the text it was made from.  Builds and searches of several  *)
(* requests run at once, builds of one repository too: create_index itself *)
(* does not look for another.  Each commit is atomic, and the unique       *)
(* constraint of the table fails the later of two inserts.                 *)
(***************************************************************************)
EXTENDS Naturals, Sequences, FiniteSets, Functions

CONSTANTS
  Texts,         \* contents that may be chunked or searched for
  Repositories,  \* the repositories
  Builds,        \* create_index calls
  Searches,      \* search calls
  Inputs,        \* what each call may be for: a repository and the texts it
                 \* embeds, of its chunks or of the query
  None,          \* no vector, no repository
  BatchSize,     \* EMBEDDING_BATCH_SIZE
  Retries        \* EMBEDDING_RETRIES

Calls == Builds \union Searches

ASSUME CallsAssumption == Builds \intersect Searches = {}
ASSUME TextsAssumption == None \notin Texts
ASSUME InputsAssumption ==
  \A c \in Calls : \A in \in Inputs[c] : in.repo \in Repositories /\ in.texts \in Seq(Texts)
ASSUME EmbedderAssumption == BatchSize \in Nat \ {0} /\ Retries \in Nat

VARIABLES
  caching,   \* the EMBEDDING_CACHE setting
  cache,     \* embedding_cache: the vector stored for each text, or None
  index,     \* chunks: the rows that each build has in the table
  at,        \* where each call is
  repo,      \* the repository of each call
  beside,    \* history: the builds of its repository at work when it began
  want,      \* the texts it embeds
  found,     \* the vectors it found in the table, by position
  missing,   \* the positions it asks the embedder for
  sent,      \* how many of these it has had an answer for
  got,       \* the vectors it was answered
  attempt,   \* attempts at the batch in hand that have failed
  result,    \* the rows of each build that a search found
  asked      \* history: the texts each call has been given vectors of

callVars == <<repo, beside, want, found, missing, sent, got, attempt>>
vars == <<caching, cache, index, at, callVars, result, asked>>

Vectors == Texts \union {None}
Chunk == [text : Texts, vector : Vectors]
PCs == {"idle", "looking", "asking", "received", "embedded", "done", "failed", "unstored"}
Ended == {"done", "failed", "unstored"}
AtWork == PCs \ (Ended \union {"idle"})

TypeOK ==
  /\ caching \in BOOLEAN
  /\ cache \in [Texts -> Vectors]
  /\ index \in [Builds -> Seq(Chunk)]
  /\ at \in [Calls -> PCs]
  /\ repo \in [Calls -> Repositories \union {None}]
  /\ beside \in [Calls -> SUBSET Builds]
  /\ want \in [Calls -> Seq(Texts)]
  /\ \A c \in Calls :
       /\ found[c] \in Seq(Vectors) /\ Len(found[c]) \in {0, Len(want[c])}
       /\ missing[c] \in Seq(DOMAIN want[c])
       /\ sent[c] \in 0..Len(missing[c])
       /\ got[c] \in Seq(Texts)
       /\ attempt[c] \in 0..Retries
  /\ result \in [Searches -> [Builds -> Seq(Chunk)]]
  /\ asked \in [Calls -> SUBSET Texts]

Init ==
  /\ caching \in BOOLEAN
  /\ cache = [t \in Texts |-> None]
  /\ index = [b \in Builds |-> <<>>]
  /\ at = [c \in Calls |-> "idle"]
  /\ repo = [c \in Calls |-> None]
  /\ beside = [c \in Calls |-> {}]
  /\ want = [c \in Calls |-> <<>>]
  /\ found = [c \in Calls |-> <<>>]
  /\ missing = [c \in Calls |-> <<>>]
  /\ sent = [c \in Calls |-> 0]
  /\ got = [c \in Calls |-> <<>>]
  /\ attempt = [c \in Calls |-> 0]
  /\ result = [s \in Searches |-> [b \in Builds |-> <<>>]]
  /\ asked = [c \in Calls |-> {}]

Goto(c, pc) == at' = [at EXCEPT ![c] = pc]

Begin(c, in) ==
  /\ at[c] = "idle"
  /\ Goto(c, "looking")
  /\ repo' = [repo EXCEPT ![c] = in.repo]
  /\ want' = [want EXCEPT ![c] = in.texts]
  /\ beside' = [beside EXCEPT ![c] = {b \in Builds : repo[b] = in.repo /\ at[b] \in AtWork}]
  /\ UNCHANGED <<caching, cache, found, missing, sent, got, attempt, result, asked>>

(* Fault: the chunks of an earlier build stay.                             *)
StartBuildKeeping(c) == \E in \in Inputs[c] : Begin(c, in) /\ UNCHANGED index

(* create_index drops the repository's chunks in a transaction of its own, *)
(* then gathers the texts of the new ones.                                 *)
StartBuild(c) ==
  \E in \in Inputs[c] :
    /\ Begin(c, in)
    /\ index' = [b \in Builds |-> IF repo[b] = in.repo THEN <<>> ELSE index[b]]

StartSearch(c) == \E in \in Inputs[c] : Begin(c, in) /\ UNCHANGED index

------------------------------------------------------------------------------
(* embed_cached.                                                           *)

(* The members of a set of numbers, in order.                              *)
Ascending(S) ==
  CHOOSE m \in Bijection(1..Cardinality(S), S) :
    \A j, k \in 1..Cardinality(S) : j < k => m[j] < m[k]

(* The table is looked up once; every position without a vector is asked   *)
(* for, the same text twice if it stands in two positions.                 *)
LookUp(c) ==
  LET hits == [i \in DOMAIN want[c] |-> IF caching THEN cache[want[c][i]] ELSE None]
  IN /\ at[c] = "looking"
     /\ found' = [found EXCEPT ![c] = hits]
     /\ missing' = [missing EXCEPT ![c] = Ascending({i \in DOMAIN hits : hits[i] = None})]
     /\ Goto(c, IF missing'[c] = <<>> THEN "embedded" ELSE "asking")
     /\ UNCHANGED <<caching, cache, index, repo, beside, want, sent, got, attempt, result, asked>>

(* The texts that the call asks for.                                       *)
Asks(c) == [k \in DOMAIN missing[c] |-> want[c][missing[c][k]]]

Batch(c) ==
  LET left == Len(missing[c]) - sent[c]
  IN SubSeq(Asks(c), sent[c] + 1,
            sent[c] + IF left < BatchSize THEN left ELSE BatchSize)

(* The embedder's answers to a batch: an item for each text, in any order, *)
(* or some are missing.                                                    *)
Answers(batch) ==
  LET n == Len(batch) IN
  {[k \in 1..n |-> [index |-> p[k], embedding |-> batch[p[k]]]] : p \in Bijection(1..n, 1..n)}
    \union
  {[k \in 1..(n - 1) |-> LET i == IF k < gap THEN k ELSE k + 1
                         IN [index |-> i, embedding |-> batch[i]]] : gap \in 1..n}

(* Fault: the items are taken as they come.                                *)
InOrderAsTheyCome(answer) == [k \in DOMAIN answer |-> answer[k].embedding]

(* The items are sorted by their index.                                    *)
InOrder(answer) ==
  LET order == Ascending({answer[k].index : k \in DOMAIN answer})
  IN [k \in DOMAIN answer |->
        (CHOOSE item \in Range(answer) : item.index = order[k]).embedding]

(* Fault: the last batch is taken for a full one.                          *)
AnswerArrivesInFull(c) ==
  /\ at[c] = "asking"
  /\ \E answer \in Answers(Batch(c)) : got' = [got EXCEPT ![c] = @ \o InOrder(answer)]
  /\ sent' = [sent EXCEPT ![c] = @ + BatchSize]
  /\ attempt' = [attempt EXCEPT ![c] = 0]
  /\ asked' = [asked EXCEPT ![c] = @ \union {Batch(c)[k] : k \in DOMAIN Batch(c)}]
  /\ Goto(c, IF sent'[c] >= Len(missing[c]) THEN "received" ELSE "asking")
  /\ UNCHANGED <<caching, cache, index, repo, beside, want, found, missing, result>>

(* A batch is answered, in full or in part: what came is appended.         *)
AnswerArrives(c) ==
  /\ at[c] = "asking"
  /\ \E answer \in Answers(Batch(c)) : got' = [got EXCEPT ![c] = @ \o InOrder(answer)]
  /\ sent' = [sent EXCEPT ![c] = @ + Len(Batch(c))]
  /\ attempt' = [attempt EXCEPT ![c] = 0]
  /\ asked' = [asked EXCEPT ![c] = @ \union {Batch(c)[k] : k \in DOMAIN Batch(c)}]
  /\ Goto(c, IF sent'[c] = Len(missing[c]) THEN "received" ELSE "asking")
  /\ UNCHANGED <<caching, cache, index, repo, beside, want, found, missing, result>>

(* Fault: after the last attempt the batch is begun anew.                  *)
RequestFailsAgain(c) ==
  /\ at[c] = "asking"
  /\ attempt' = [attempt EXCEPT ![c] = IF @ < Retries THEN @ + 1 ELSE 0]
  /\ UNCHANGED <<caching, cache, index, at, repo, beside, want, found, missing, sent, got, result, asked>>

(* A request fails, by a time-out, a status or an answer of another shape: *)
(* it is made again, Retries times.                                        *)
RequestFails(c) ==
  /\ at[c] = "asking"
  /\ IF attempt[c] < Retries
     THEN attempt' = [attempt EXCEPT ![c] = @ + 1] /\ UNCHANGED at
     ELSE Goto(c, "failed") /\ UNCHANGED attempt
  /\ UNCHANGED <<caching, cache, index, repo, beside, want, found, missing, sent, got, result, asked>>

(* The vector of each position: found, or the next one that was answered.  *)
Resolved(c) ==
  [i \in DOMAIN want[c] |->
     IF found[c][i] # None THEN found[c][i]
     ELSE got[c][CHOOSE k \in DOMAIN missing[c] : missing[c][k] = i]]

(* The chunks a build makes of its texts and their vectors.                *)
Chunks(c) == [i \in DOMAIN want[c] |-> [text |-> want[c][i], vector |-> Resolved(c)[i]]]

NoneTwice(texts) == \A j, k \in DOMAIN texts : texts[j] = texts[k] => j = k

(* The new rows can be inserted: no text is among them twice, and none has *)
(* been inserted by another call since the look-up.                        *)
Insertable(texts) == NoneTwice(texts) /\ \A k \in DOMAIN texts : cache[texts[k]] = None

(* The vectors received are stored, for every position asked for.          *)
Insert(c) ==
  cache' = [t \in Texts |->
              IF \E k \in DOMAIN Asks(c) : Asks(c)[k] = t
              THEN got[c][CHOOSE k \in DOMAIN Asks(c) : Asks(c)[k] = t] ELSE cache[t]]

(* Fault: the rows found are inserted with the new ones.                   *)
StoreVectorsFoundToo(c) ==
  /\ at[c] = "received"
  /\ IF Len(got[c]) = Len(missing[c]) /\ Insertable(want[c])
     THEN Insert(c) /\ Goto(c, "embedded")
     ELSE Goto(c, "failed") /\ UNCHANGED cache
  /\ UNCHANGED <<caching, index, callVars, result, asked>>

(* Fault: a row that is there already is left alone.                       *)
StoreVectorsQuietly(c) ==
  /\ at[c] = "received"
  /\ IF Len(got[c]) = Len(missing[c])
     THEN Insert(c) /\ Goto(c, "embedded")
     ELSE Goto(c, "failed") /\ UNCHANGED cache
  /\ UNCHANGED <<caching, index, callVars, result, asked>>

(* Fault: the chunks are added to the session before their vectors, and    *)
(* committed with the new rows of the table.                               *)
StoreVectorsWithChunks(c) ==
  /\ at[c] = "received"
  /\ IF Len(got[c]) = Len(missing[c]) /\ (caching => Insertable(Asks(c)))
     THEN /\ IF caching THEN Insert(c) ELSE UNCHANGED cache
          /\ index' = IF c \in Searches THEN index
                      ELSE [index EXCEPT ![c] =
                              [i \in DOMAIN want[c] |-> [text |-> want[c][i], vector |-> None]]]
          /\ Goto(c, "embedded")
     ELSE Goto(c, "failed") /\ UNCHANGED <<cache, index>>
  /\ UNCHANGED <<caching, callVars, result, asked>>

(* The call fails when vectors are missing, and when the rows are refused; *)
(* then nothing of what it received is kept.                               *)
StoreVectors(c) ==
  /\ at[c] = "received"
  /\ IF Len(got[c]) = Len(missing[c]) /\ (caching => Insertable(Asks(c)))
     THEN /\ IF caching THEN Insert(c) ELSE UNCHANGED cache
          /\ Goto(c, "embedded")
     ELSE Goto(c, "failed") /\ UNCHANGED cache
  /\ UNCHANGED <<caching, index, callVars, result, asked>>

------------------------------------------------------------------------------
(* The end of a build, and of a search.                                    *)

(* The new chunks are added to those that are there and committed.         *)
StoreChunks(c) ==
  /\ c \in Builds /\ at[c] = "embedded"
  /\ index' = [index EXCEPT ![c] = Chunks(c)]
  /\ Goto(c, "done")
  /\ UNCHANGED <<caching, cache, callVars, result, asked>>

(* The commit is refused: a deletion or a re-analysis has taken the files  *)
(* or entities that the chunks refer to.                                   *)
StoreChunksRefused(c) ==
  /\ c \in Builds /\ at[c] = "embedded"
  /\ Goto(c, "unstored")
  /\ UNCHANGED <<caching, cache, index, callVars, result, asked>>

(* One query reads the repository's chunks, whatever is there.             *)
ReadChunks(c) ==
  /\ c \in Searches /\ at[c] = "embedded"
  /\ result' = [result EXCEPT ![c] =
                  [b \in Builds |-> IF repo[b] = repo[c] THEN index[b] ELSE <<>>]]
  /\ Goto(c, "done")
  /\ UNCHANGED <<caching, cache, index, callVars, asked>>

CallStep(c) ==
  \/ LookUp(c) \/ AnswerArrives(c) \/ RequestFails(c) \/ StoreVectors(c)
  \/ StoreChunks(c) \/ StoreChunksRefused(c) \/ ReadChunks(c)

Next ==
  \/ \E c \in Builds : StartBuild(c)
  \/ \E c \in Searches : StartSearch(c)
  \/ \E c \in Calls : CallStep(c)

Spec == Init /\ [][Next]_vars

(* Requests of the embedder have a time-out, and statements end.           *)
Fairness == \A c \in Calls : WF_vars(CallStep(c))

FairSpec == Spec /\ Fairness

------------------------------------------------------------------------------
(* Whatever is found, asked for in batches, answered out of order or in    *)
(* part: a vector stored for a text, in the table or in a chunk, is that   *)
(* text's.                                                                 *)
VectorsAreTheirTexts ==
  /\ \A t \in Texts : cache[t] \in {t, None}
  /\ \A b \in Builds : \A i \in DOMAIN index[b] :
       index[b][i].vector = index[b][i].text

(* One of two builds of a repository was at work when the other began.     *)
Overlapped(a, b) == a \in beside[b] \/ b \in beside[a]

(* Rows of builds that may stand together in a repository.                 *)
WholeBuilds(rows, r) ==
  LET shown == {b \in Builds : rows[b] # <<>>} IN
  /\ \A b \in shown : at[b] = "done" /\ repo[b] = r /\ rows[b] = Chunks(b)
  /\ \A a, b \in shown : a = b \/ Overlapped(a, b)

(* A search sees all the chunks of a build or none of them, and so does    *)
(* everyone else, though a build makes three commits; and it sees those of *)
(* two builds together, each entity twice, only if the two overlapped: a   *)
(* build that begins after the end of another leaves nothing of it.        *)
SearchSeesWholeBuilds ==
  /\ \A r \in Repositories :
       WholeBuilds([b \in Builds |-> IF repo[b] = r THEN index[b] ELSE <<>>], r)
  /\ \A s \in Searches : WholeBuilds(result[s], repo[s])

(* A call that had every vector fails only because it asked for a text     *)
(* twice or for one that another call, overlapping it, has stored: texts   *)
(* it found in the table are never the reason.                             *)
FailureHasAReason ==
  \A c \in Calls :
    at[c] = "failed" /\ missing[c] # <<>> /\ Len(got[c]) = Len(missing[c]) =>
      ~ Insertable(Asks(c))

HaveVectors == {"embedded", "done", "unstored"}

(* While vectors are kept, of all the calls that asked for a text at most  *)
(* one has its vectors: what the others were given is lost with them.      *)
OneAskerSucceeds ==
  caching =>
    \A c, d \in Calls :
      {at[c], at[d]} \subseteq HaveVectors /\ asked[c] \intersect asked[d] # {} => c = d

(* A call that was given every vector loses them only to a text it asked   *)
(* for twice or to an overlapping call, of which at most one succeeds      *)
(* (index/service.py:99-131).                                              *)
RefusalsAreCollisions == TypeOK /\ FailureHasAReason /\ OneAskerSucceeds

(* docs/07-task-breakdown.md:31, the "content-addressed embedding cache    *)
(* prevents duplicate API calls": what a call asks for it asks for once,   *)
(* and no earlier call has been given the vector of.                       *)
NothingIsAskedTwice ==
  caching =>
    \A c \in Calls : at[c] = "asking" =>
      /\ NoneTwice(Asks(c))
      /\ \A d \in Calls : at[d] = "failed" =>
           \A k \in DOMAIN Asks(c) : Asks(c)[k] \notin asked[d]

(* Every build and every search ends, whatever the embedder does.          *)
EveryCallEnds == \A c \in Calls : at[c] \in AtWork ~> at[c] \in Ended

(* Every call ends, and those that fail with every vector in hand fail by  *)
(* a collision (index/service.py:82-131, embedder.py:83-118).              *)
CallsEndForAReason == []RefusalsAreCollisions /\ EveryCallEnds
==============================================================================
