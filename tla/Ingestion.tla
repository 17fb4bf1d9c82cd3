----------------------------- MODULE Ingestion -----------------------------
(***************************************************************************)
(* How a repository comes and goes: POST /repositories/upload streams an   *)
(* archive to a work directory, unpacks it, scans it and commits its rows; *)
(* POST /repositories/import clones instead; DELETE commits the rows away  *)
(* and then removes the directory; a test run stages what it finds there.  *)
(* A repository's id is the request that made it.  Files and rows are      *)
(* separate stores: a request may end, or the process may be restarted,    *)
(* between a step on one and the step on the other.                        *)
(***************************************************************************)
EXTENDS Integers, Sequences, FiniteSets, Functions

CONSTANTS Uploads, Imports, Deletes, Tests,  \* the requests
          Archives,     \* what is uploaded: [chunks, zip, members, readable, tree]
          Trees,        \* what is cloned: how many files of each kind
          MaxUpload,    \* MAX_UPLOAD_BYTES, in chunks
          MaxBytes,     \* MAX_EXTRACT_BYTES
          MaxFiles,     \* MAX_EXTRACT_FILES
          DurableUploads, \* upload_dir is on a volume, as in docker-compose.yml
                          \* and not in render.yaml
          MaxCrashes,   \* bound
          None

Repositories == Uploads \union Imports
Requests == Repositories \union Deletes \union Tests

(* Files below an ignored directory and unreadable ones are passed over.   *)
Kinds == {"python", "java", "unsupported", "unknown", "ignored", "unreadable"}

(* The body of a deletion's 200 says whether the files were removed.       *)
Cleaned == 200
NotCleaned == -200
StatusCodes == {Cleaned, NotCleaned, 201, 404, 413, 422, 500, 504}

ASSUME IngestionAssumption ==
  /\ Uploads \intersect Imports = {} /\ Deletes \intersect Tests = {}
  /\ Repositories \intersect (Deletes \union Tests) = {}
  /\ MaxUpload \in Nat /\ MaxBytes \in Nat /\ MaxFiles \in Nat /\ MaxCrashes \in Nat
  /\ None \notin StatusCodes /\ DurableUploads \in BOOLEAN
  /\ Trees \subseteq [Kinds -> Nat]
  /\ \A a \in Archives : /\ a.tree \in [Kinds -> Nat]
                         /\ a.zip \in BOOLEAN /\ a.readable \in BOOLEAN
                         /\ a.members \in Seq([size : Nat, escapes : BOOLEAN])

VARIABLES pc,       \* where each request is
          answer,   \* its status code
          input,    \* the archive, the tree, or the id of a repository
          streamed, \* chunks written to source.zip
          dir,      \* the work directory: absent, made, or holding sources
          row,      \* the repositories and files rows
          crashes,
          lost,     \* history: the repositories whose directory a restart took
          remade    \* history: those whose directory a test run made anew

vars == <<pc, answer, input, streamed, dir, row, crashes, lost, remade>>

Absent == [state |-> "absent", files |-> 0, unsupported |-> 0, warnings |-> {}]

Init ==
  /\ pc = [r \in Requests |-> "idle"]
  /\ answer = [r \in Requests |-> None]
  /\ input = [r \in Requests |-> None]
  /\ streamed = [r \in Uploads |-> 0]
  /\ dir = [r \in Repositories |-> "absent"]
  /\ row = [r \in Repositories |-> Absent]
  /\ crashes = 0 /\ lost = {} /\ remade = {}

Goto(r, where) == pc' = [pc EXCEPT ![r] = where]
Respond(r, code) == Goto(r, "answered") /\ answer' = [answer EXCEPT ![r] = code]
SetDir(r, d) == dir' = [dir EXCEPT ![r] = d]

(* upload_repository is a coroutine that unpacks, scans and stores without *)
(* awaiting: meanwhile the event loop accepts no request and reads none.   *)
LoopBusy == \E u \in Uploads : pc[u] \in {"unpacking", "scanning", "stored"}

(* ---- upload -------------------------------------------------------------- *)
MakeWorkdir(u, a) ==
  /\ pc[u] = "idle" /\ ~LoopBusy
  /\ Goto(u, "streaming") /\ SetDir(u, "made")
  /\ input' = [input EXCEPT ![u] = a]
  /\ UNCHANGED <<answer, streamed, row, crashes, lost, remade>>

(* _stream_upload: a chunk over the limit ends the request, and what was   *)
(* written is removed.                                                     *)
StreamChunk(u) ==
  /\ pc[u] = "streaming" /\ ~LoopBusy /\ streamed[u] < input[u].chunks
  /\ streamed' = [streamed EXCEPT ![u] = @ + 1]
  /\ UNCHANGED <<input, row, crashes, lost, remade>>
  /\ IF streamed[u] + 1 > MaxUpload
     THEN Respond(u, 413) /\ SetDir(u, "absent")
     ELSE UNCHANGED <<pc, answer, dir>>

StreamEnd(u) ==
  /\ pc[u] = "streaming" /\ ~LoopBusy /\ streamed[u] = input[u].chunks
  /\ Goto(u, "unpacking")
  /\ UNCHANGED <<answer, input, streamed, dir, row, crashes, lost, remade>>

(* extract_zip: the declared sizes are summed and the names resolved       *)
(* member by member, the first offence decides; members are counted last.  *)
DeclaredBytes(members, n) ==
  FoldFunctionOnSet(LAMBDA m, total : m.size + total, 0, members, 1 .. n)

Offences(members) ==
  {i \in DOMAIN members : ~ (DeclaredBytes(members, i) <= MaxBytes) \/ members[i].escapes}

FirstOffence(members) == CHOOSE i \in Offences(members) : \A j \in Offences(members) : i <= j

(* Fault: the members are checked one by one, never their sum.             *)
ExtractStatusPerMember(a) ==
  CASE ~a.zip -> 422
    [] \E i \in DOMAIN a.members : a.members[i].size > MaxBytes -> 413
    [] \E i \in DOMAIN a.members : a.members[i].escapes -> 422
    [] OTHER -> IF Len(a.members) > MaxFiles THEN 413
                ELSE IF a.readable THEN 200 ELSE 500

ExtractStatus(a) ==
  CASE ~a.zip -> 422
    [] Offences(a.members) # {} ->
         IF DeclaredBytes(a.members, FirstOffence(a.members)) > MaxBytes THEN 413 ELSE 422
    [] OTHER -> IF Len(a.members) > MaxFiles THEN 413
                ELSE IF a.readable THEN 200 ELSE 500

Unpacks(u) == pc[u] = "unpacking" /\ ExtractStatus(input[u]) = 200

ExtractArchive(u) ==
  /\ Unpacks(u)
  /\ Goto(u, "scanning") /\ SetDir(u, "sources")
  /\ UNCHANGED <<answer, input, streamed, row, crashes, lost, remade>>

(* Fault: the directory is removed for the size limit only.                *)
RefuseArchiveKeeping(u) ==
  /\ pc[u] = "unpacking" /\ ExtractStatus(input[u]) \in {413, 422}
  /\ Respond(u, ExtractStatus(input[u]))
  /\ IF ExtractStatus(input[u]) = 413 THEN SetDir(u, "absent") ELSE UNCHANGED dir
  /\ UNCHANGED <<input, streamed, row, crashes, lost, remade>>

(* The archive is refused with 413 or 422, and the directory removed; the  *)
(* removal, whose errors are ignored, is taken to succeed.                 *)
RefuseArchive(u) ==
  /\ pc[u] = "unpacking" /\ ExtractStatus(input[u]) \in {413, 422}
  /\ Respond(u, ExtractStatus(input[u])) /\ SetDir(u, "absent")
  /\ UNCHANGED <<input, streamed, row, crashes, lost, remade>>

(* Anything but an HTTPException (an encrypted member, a name the disk     *)
(* refuses) ends the request and leaves the directory behind.              *)
ExtractRaises(u) ==
  /\ pc[u] = "unpacking" /\ ExtractStatus(input[u]) = 500
  /\ Respond(u, 500)
  /\ UNCHANGED <<input, streamed, dir, row, crashes, lost, remade>>

(* ---- import -------------------------------------------------------------- *)
ValidateUrl(g) ==
  /\ pc[g] = "idle" /\ ~LoopBusy
  /\ UNCHANGED <<streamed, row, crashes, lost, remade>>
  /\ \/ Respond(g, 422) /\ UNCHANGED <<input, dir>>
     \/ \E tree \in Trees :
          /\ Goto(g, "cloning") /\ SetDir(g, "made")
          /\ input' = [input EXCEPT ![g] = [tree |-> tree]]
          /\ UNCHANGED answer

(* git clone succeeds, fails, times out or cannot be run; nothing is       *)
(* cleaned up.                                                             *)
Clone(g) ==
  /\ pc[g] = "cloning"
  /\ UNCHANGED <<input, streamed, row, crashes, lost, remade>>
  /\ \/ Goto(g, "scanning") /\ SetDir(g, "sources") /\ UNCHANGED answer
     \/ \E code \in {422, 504, 500} : Respond(g, code) /\ UNCHANGED dir

(* ---- scan_directory and scan_and_store ---------------------------------- *)

(* Fault: unsupported files count as files to analyse too.                 *)
ScanCountingTwice(tree) ==
  [state |-> "present", files |-> tree.python + tree.java + tree.unsupported,
   unsupported |-> tree.unsupported + tree.unknown, warnings |-> {}]

Scan(tree) ==
  LET detected == tree.python + tree.java
      unsupported == tree.unsupported + tree.unknown
  IN [state |-> "present", files |-> detected, unsupported |-> unsupported,
      warnings |->
        (IF detected + unsupported = 0 THEN {"empty"} ELSE {})
        \union (IF tree.unsupported > 0 THEN {"unsupported"} ELSE {})
        \union (IF tree.unknown > 0 THEN {"unknown"} ELSE {})
        \union (IF detected = 0 THEN {"nothing supported"} ELSE {})]

(* Fault: the repositories row is committed before its files are.          *)
StoreInTwo(r) ==
  /\ pc[r] = "scanning"
  /\ row' = [row EXCEPT ![r] = IF row[r] = Absent THEN [Absent EXCEPT !.state = "partial"]
                               ELSE Scan(input[r].tree)]
  /\ IF row[r] = Absent THEN UNCHANGED pc ELSE Goto(r, "stored")
  /\ UNCHANGED <<answer, input, streamed, dir, crashes, lost, remade>>

(* The repository and its files are one commit, or none of them is stored. *)
Store(r) ==
  /\ pc[r] = "scanning"
  /\ Goto(r, "stored")
  /\ row' = [row EXCEPT ![r] = Scan(input[r].tree)]
  /\ UNCHANGED <<answer, input, streamed, dir, crashes, lost, remade>>

StoreFails(r) ==
  /\ pc[r] = "scanning"
  /\ Respond(r, 500)
  /\ UNCHANGED <<input, streamed, dir, row, crashes, lost, remade>>

(* db.refresh raises when the row has been deleted since.                  *)
Refresh(r) ==
  /\ pc[r] = "stored"
  /\ Respond(r, IF row[r].state = "present" THEN 201 ELSE 500)
  /\ UNCHANGED <<input, streamed, dir, row, crashes, lost, remade>>

(* ---- delete -------------------------------------------------------------- *)
ReadRepository(d, r) ==
  /\ pc[d] = "idle" /\ ~LoopBusy
  /\ UNCHANGED <<streamed, dir, row, crashes, lost, remade>>
  /\ IF row[r].state = "present"
     THEN Goto(d, "deleting") /\ input' = [input EXCEPT ![d] = r] /\ UNCHANGED answer
     ELSE Respond(d, 404) /\ UNCHANGED input

(* Fault: the files are removed before the rows are committed away.        *)
CommitDeletionLast(d) ==
  /\ pc[d] = "deleting"
  /\ Goto(d, "removing") /\ SetDir(input[d], "absent")
  /\ UNCHANGED <<answer, input, streamed, row, crashes, lost, remade>>

(* A row another deletion took meanwhile is only warned about.             *)
CommitDeletion(d) ==
  /\ pc[d] = "deleting"
  /\ Goto(d, "checking")
  /\ row' = [row EXCEPT ![input[d]] = [Absent EXCEPT !.state = "deleted"]]
  /\ UNCHANGED <<answer, input, streamed, dir, crashes, lost, remade>>

(* Rows that another request has inserted meanwhile refuse the commit.     *)
DeletionRefused(d) ==
  /\ pc[d] = "deleting" /\ row[input[d]].state = "present"
  /\ Respond(d, 500)
  /\ UNCHANGED <<input, streamed, dir, row, crashes, lost, remade>>

(* Fault: the answer is given before the files are looked at.              *)
CheckWorkdirLater(d) ==
  /\ pc[d] = "checking"
  /\ Respond(d, Cleaned)
  /\ UNCHANGED <<input, streamed, dir, row, crashes, lost, remade>>

CheckWorkdir(d) ==
  /\ pc[d] = "checking"
  /\ UNCHANGED <<input, streamed, dir, row, crashes, lost, remade>>
  /\ IF dir[input[d]] = "absent" THEN Respond(d, Cleaned)
     ELSE Goto(d, "removing") /\ UNCHANGED answer

(* Fault: rmtree is called with ignore_errors and believed.                *)
RemoveWorkdirBelieving(d) ==
  /\ pc[d] = "removing"
  /\ Respond(d, Cleaned)
  /\ dir' \in {[dir EXCEPT ![input[d]] = x] : x \in {"absent", dir[input[d]]}}
  /\ UNCHANGED <<input, streamed, row, crashes, lost, remade>>

(* Fault: the removal is tried until it succeeds.                          *)
RemoveWorkdirRetrying(d) ==
  /\ pc[d] = "removing" /\ dir[input[d]] # "absent"
  /\ Respond(d, Cleaned) /\ SetDir(input[d], "absent")
  /\ UNCHANGED <<input, streamed, row, crashes, lost, remade>>

(* rmtree raises for what it cannot remove, and for what another deletion  *)
(* removed first.                                                          *)
RemoveWorkdir(d) ==
  /\ pc[d] = "removing"
  /\ UNCHANGED <<input, streamed, row, crashes, lost, remade>>
  /\ \/ /\ dir[input[d]] # "absent"
        /\ Respond(d, Cleaned) /\ SetDir(input[d], "absent")
     \/ Respond(d, NotCleaned) /\ UNCHANGED dir

(* ---- POST .../tests/generate ------------------------------------------- *)
ReadTested(t, r) ==
  /\ pc[t] = "idle" /\ ~LoopBusy
  /\ UNCHANGED <<streamed, dir, row, crashes, lost, remade>>
  /\ IF row[r].state = "present"
     THEN Goto(t, "locating") /\ input' = [input EXCEPT ![t] = r] /\ UNCHANGED answer
     ELSE Respond(t, 404) /\ UNCHANGED input

(* repository_root lists the directory of an upload; when that raises, the *)
(* directory is made, and is empty.  The path of a clone is only named.    *)
RepositoryRoot(t) ==
  IF input[t] \in Uploads /\ dir[input[t]] = "absent"
  THEN SetDir(input[t], "made") /\ remade' = remade \union {input[t]}
  ELSE UNCHANGED <<dir, remade>>

(* The sources are looked for once to write the prompt, before the model   *)
(* is asked for tests,                                                     *)
LocateSources(t) ==
  /\ pc[t] = "locating"
  /\ Goto(t, "generating") /\ RepositoryRoot(t)
  /\ UNCHANGED <<answer, input, streamed, row, crashes, lost>>

(* and again to stage them, before the tests are run.                      *)
StageTests(t) ==
  /\ pc[t] = "generating"
  /\ Goto(t, "running") /\ RepositoryRoot(t)
  /\ UNCHANGED <<answer, input, streamed, row, crashes, lost>>

(* The run, whatever came of it, is stored beside its repository only; its *)
(* two commits are taken as one.                                           *)
StoreTestRun(t) ==
  /\ pc[t] = "running"
  /\ Respond(t, IF row[input[t]].state = "present" THEN 200 ELSE 500)
  /\ UNCHANGED <<input, streamed, dir, row, crashes, lost, remade>>

(* ---- a restart ends every request at work ------------------------------- *)
AtWork(r) == pc[r] \notin {"idle", "answered", "dead"}

(* The rows stay, and so do the files on a volume; without one a new       *)
(* container begins with none.                                             *)
Restart ==
  /\ crashes < MaxCrashes
  /\ crashes' = crashes + 1
  /\ pc' = [r \in Requests |-> IF AtWork(r) THEN "dead" ELSE pc[r]]
  /\ UNCHANGED <<answer, input, streamed, row, remade>>
  /\ \/ UNCHANGED <<dir, lost>>
     \/ /\ ~DurableUploads
        /\ lost' = lost \union {r \in Repositories : dir[r] # "absent"}
        /\ dir' = [r \in Repositories |-> "absent"]

Step(r) ==
  \/ /\ r \in Uploads
     /\ \/ StreamChunk(r) \/ StreamEnd(r)
        \/ ExtractArchive(r) \/ RefuseArchive(r) \/ ExtractRaises(r)
  \/ r \in Imports /\ Clone(r)
  \/ r \in Repositories /\ (Store(r) \/ StoreFails(r) \/ Refresh(r))
  \/ /\ r \in Deletes
     /\ \/ CommitDeletion(r) \/ DeletionRefused(r)
        \/ CheckWorkdir(r) \/ RemoveWorkdir(r)
  \/ r \in Tests /\ (LocateSources(r) \/ StageTests(r) \/ StoreTestRun(r))

Next ==
  \/ \E u \in Uploads, a \in Archives : MakeWorkdir(u, a)
  \/ \E g \in Imports : ValidateUrl(g)
  \/ \E d \in Deletes, r \in Repositories : ReadRepository(d, r)
  \/ \E t \in Tests, r \in Repositories : ReadTested(t, r)
  \/ \E r \in Requests : Step(r)
  \/ Restart

(* A request that was accepted runs on: reads of a spooled file, a clone   *)
(* with a time-out, transactions.                                          *)
Spec == Init /\ [][Next]_vars /\ \A r \in Requests : WF_vars(Step(r))
-----------------------------------------------------------------------------
TypeOK ==
  /\ pc \in [Requests -> {"idle", "streaming", "unpacking", "cloning", "scanning",
                          "stored", "deleting", "checking", "removing",
                          "locating", "generating", "running",
                          "answered", "dead"}]
  /\ answer \in [Requests -> {None} \union StatusCodes]
  /\ \A u \in Uploads : streamed[u] \in 0 .. MaxUpload + 1
  /\ dir \in [Repositories -> {"absent", "made", "sources"}]
  /\ \A r \in Repositories : /\ row[r].state \in {"absent", "present", "deleted"}
                             /\ row[r].files \in Nat /\ row[r].unsupported \in Nat
  /\ crashes \in 0 .. MaxCrashes
  /\ lost \subseteq Repositories /\ remade \subseteq Repositories

(***************************************************************************)
(* A stored repository has its sources on disk: they are written before    *)
(* the rows are committed and removed after the rows are gone, so neither  *)
(* a restart that keeps the files nor a second deletion ever shows a       *)
(* repository without them (repositories.py:67-76, :207-213).  Where the   *)
(* files are on no volume, the restart that took them is the only reason.  *)
(***************************************************************************)
RowsHaveFiles ==
  \A r \in Repositories : row[r].state = "present" =>
    dir[r] = "sources" \/ (~DurableUploads /\ r \in lost)

(***************************************************************************)
(* An upload that is refused leaves neither a directory nor a row, at      *)
(* whichever step it is refused (repositories.py:71-79).                   *)
(***************************************************************************)
RefusedUploadLeavesNothing ==
  \A u \in Uploads : answer[u] \in {413, 422} =>
    dir[u] = "absent" /\ row[u] = Absent

(* DECISIONS.md:73, "on any failure the workdir is removed, so no partial  *)
(* rows/files leak".  False: whatever ends an upload by an exception other *)
(* than an HTTPException leaves its directory (repositories.py:71-79).     *)
FailedUploadLeavesNothing ==
  \A u \in Uploads : answer[u] \in {413, 422, 500} /\ row[u].state # "deleted" =>
    dir[u] = "absent" /\ row[u] = Absent

(* Made anew by a test run, and empty.                                     *)
Remade(r) == dir[r] = "made" /\ r \in remade

(***************************************************************************)
(* The rows of a repository go one way, from absent to present to deleted: *)
(* they appear once, whole and after their sources, and nobody who works   *)
(* on across a deletion brings them back (repositories.py:60-81, :152-216). *)
RowsGoOneWay ==
  [][\A r \in Repositories : row'[r] # row[r] =>
       \/ row[r] = Absent /\ row'[r].state = "present" /\ dir[r] = "sources"
       \/ row[r].state = "present" /\ row'[r] = [Absent EXCEPT !.state = "deleted"]]_vars

(* A directory that no row and no request at work accounts for was left by *)
(* a restart, by a failed import, by an exception an upload does not       *)
(* expect, by a removal that failed and said so, or was made anew, empty,  *)
(* by a test run that had read the repository before its deletion: no      *)
(* other order of steps leaks one (repositories.py:55-100, :209-216,       *)
(* test_generator.py:316-322, sandbox_runner.py:221-227).                  *)
(***************************************************************************)
LeaksAreExplained ==
  \A r \in Repositories :
    dir[r] # "absent" /\ row[r].state # "present" /\ ~AtWork(r) =>
      \/ pc[r] = "dead"
      \/ r \in Imports /\ answer[r] \in {422, 504, 500}
      \/ r \in Uploads /\ answer[r] = 500
      \/ \E d \in Deletes : input[d] = r /\ (AtWork(d) \/ pc[d] = "dead" \/ answer[d] = NotCleaned)
      \/ Remade(r)

(***************************************************************************)
(* A deletion that answers fs_cleaned leaves no sources, whatever a second *)
(* deletion of the same repository does, and no directory unless a test    *)
(* run makes it anew, empty: one that has not been answered yet, or that a *)
(* restart ended, among them (repositories.py:210-216,                     *)
(* test_generator.py:316-322, sandbox_runner.py:221-227).                  *)
(***************************************************************************)
CleanedMeansGone ==
  \A d \in Deletes : answer[d] = Cleaned =>
    dir[input[d]] = "absent" \/ Remade(input[d])

(***************************************************************************)
(* What was accepted from an archive is within every limit, to the byte    *)
(* and to the member, and its upload was (ingestion.py:102-112,            *)
(* repositories.py:50).                                                    *)
(***************************************************************************)
AcceptedIsWithinLimits ==
  \A u \in Uploads : row[u].state = "present" =>
    /\ streamed[u] <= MaxUpload
    /\ Len(input[u].members) <= MaxFiles
    /\ \A i \in DOMAIN input[u].members :
         DeclaredBytes(input[u].members, i) <= MaxBytes /\ ~input[u].members[i].escapes

(***************************************************************************)
(* No file that was looked at is lost between the counts, and a repository *)
(* in which nothing can be analysed says so (scanner.py:146-166).          *)
(***************************************************************************)
ScanAddsUp ==
  \A r \in Repositories : row[r].state = "present" =>
    LET tree == input[r].tree IN
    /\ row[r].files + row[r].unsupported
         = tree.python + tree.java + tree.unsupported + tree.unknown
    /\ row[r].warnings = {} => row[r].files > 0
    /\ "empty" \in row[r].warnings => "nothing supported" \in row[r].warnings

(***************************************************************************)
(* Files and rows agree between any two steps: rows have their files, a    *)
(* refused upload has neither, and the counts of a row are those of its    *)
(* files (repositories.py:55-100, :152-216).                               *)
(***************************************************************************)
FilesAndRowsAgree ==
  TypeOK /\ RowsHaveFiles /\ RefusedUploadLeavesNothing /\ ScanAddsUp

(***************************************************************************)
(* A request that was accepted is answered unless the process is           *)
(* restarted.                                                              *)
(***************************************************************************)
EveryRequestEnds == \A r \in Requests : AtWork(r) ~> ~AtWork(r)

(***************************************************************************)
(* A deletion is answered, though another one and an upload on the event   *)
(* loop are in its way, and says truly what became of the files            *)
(* (repositories.py:60-81, :152-216).                                      *)
(***************************************************************************)
DeletionsTellTheTruth == []CleanedMeansGone /\ EveryRequestEnds
=============================================================================
