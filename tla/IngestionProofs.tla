--------------------------- MODULE IngestionProofs ---------------------------
(***************************************************************************)
(* Theorems of Ingestion, for any sets of uploads, imports, deletions and  *)
(* test runs, any archives and limits, and any number of restarts.         *)
(*                                                                         *)
(* IInv says, for each request, what its program counter tells of the      *)
(* directory and of the rows.  The point of it is that a row goes one way  *)
(* only, from absent to present to deleted: it is present only after its   *)
(* sources were unpacked, and a directory is removed only after its row is *)
(* deleted, when the request that made the directory no longer writes.     *)
(***************************************************************************)
EXTENDS Ingestion, TLAPS

Rows == [state : {"absent", "present", "deleted"}, files : Nat, unsupported : Nat,
         warnings : SUBSET {"empty", "unsupported", "unknown", "nothing supported"}]
Deleted == [Absent EXCEPT !.state = "deleted"]
Clones == {[tree |-> tree] : tree \in Trees}

UploadPCs == {"idle", "streaming", "unpacking", "scanning", "stored", "answered", "dead"}
ImportPCs == {"idle", "cloning", "scanning", "stored", "answered", "dead"}
DeletePCs == {"idle", "deleting", "checking", "removing", "answered", "dead"}
TestPCs == {"idle", "locating", "generating", "running", "answered", "dead"}

(* The types, and which program counters each kind of request has.         *)
Typed ==
  /\ pc \in [Requests -> UploadPCs \union ImportPCs \union DeletePCs \union TestPCs]
  /\ \A u \in Uploads : pc[u] \in UploadPCs
  /\ \A g \in Imports : pc[g] \in ImportPCs
  /\ \A d \in Deletes : pc[d] \in DeletePCs
  /\ \A t \in Tests : pc[t] \in TestPCs
  /\ answer \in [Requests -> {None} \union StatusCodes]
  /\ input \in [Requests -> {None} \union Archives \union Clones \union Repositories]
  /\ streamed \in [Uploads -> 0 .. MaxUpload + 1]
  /\ dir \in [Repositories -> {"absent", "made", "sources"}]
  /\ row \in [Repositories -> Rows]
  /\ crashes \in 0 .. MaxCrashes
  /\ lost \subseteq Repositories /\ remade \subseteq Repositories
  /\ DurableUploads => lost = {}

(* What the program counter of a request tells of its directory and rows.  *)
MakerInv ==
  \A r \in Repositories :
    /\ answer[r] # None <=> pc[r] = "answered"
    /\ pc[r] = "idle" => dir[r] = "absent"
    /\ pc[r] = "scanning" => dir[r] = "sources"
    /\ pc[r] \in {"idle", "streaming", "unpacking", "cloning", "scanning"} => row[r] = Absent
    /\ pc[r] = "stored" => row[r] # Absent

(* A row is absent, that of a scan with its sources on disk or lost with   *)
(* the disk, or deleted.                                                   *)
RowInv ==
  \A r \in Repositories :
    \/ row[r] = Absent
    \/ row[r] = Scan(input[r].tree) /\ (dir[r] = "sources" \/ r \in lost)
    \/ row[r] = Deleted

(* What an upload works on: the archive, and what it has passed of the     *)
(* limits.                                                                 *)
UploadInv ==
  \A u \in Uploads :
    /\ pc[u] = "idle" => streamed[u] = 0
    /\ pc[u] \in {"streaming", "unpacking", "scanning"} \/ row[u].state = "present" =>
         input[u] \in Archives /\ streamed[u] <= MaxUpload
    /\ pc[u] = "scanning" \/ row[u].state = "present" => ExtractStatus(input[u]) = 200
    /\ answer[u] \in {413, 422} => dir[u] = "absent" /\ row[u] = Absent
    /\ pc[u] = "answered" /\ row[u] = Absent /\ dir[u] # "absent" => answer[u] = 500

ImportInv ==
  \A g \in Imports :
    /\ pc[g] \in {"cloning", "scanning"} \/ row[g].state = "present" => input[g] \in Clones
    /\ pc[g] = "answered" /\ row[g] = Absent => answer[g] \in {422, 504, 500}

(* A deletion commits the row away before it looks at the directory.       *)
DeleteInv ==
  \A d \in Deletes :
    /\ answer[d] # None <=> pc[d] = "answered"
    /\ pc[d] = "deleting" => input[d] \in Repositories /\ row[input[d]] # Absent
    /\ pc[d] \in {"checking", "removing"} => input[d] \in Repositories /\ row[input[d]] = Deleted
    /\ answer[d] = Cleaned =>
         /\ input[d] \in Repositories /\ row[input[d]] = Deleted
         /\ dir[input[d]] = "absent" \/ Remade(input[d])

TestInv ==
  \A t \in Tests : pc[t] \in {"locating", "generating", "running"} =>
    input[t] \in Repositories /\ row[input[t]] # Absent

(* Somebody answers for what is left of a deleted repository.              *)
Explained(r) ==
  \/ \E d \in Deletes : input[d] = r /\ (AtWork(d) \/ pc[d] = "dead" \/ answer[d] = NotCleaned)
  \/ Remade(r)

LeftoverInv ==
  \A r \in Repositories : row[r] = Deleted /\ dir[r] # "absent" => Explained(r)

Safe ==
  /\ MakerInv /\ RowInv /\ UploadInv /\ ImportInv /\ DeleteInv /\ TestInv
  /\ LeftoverInv

(* The inductive invariant.                                                *)
IInv == Typed /\ Safe
------------------------------------------------------------------------------
(* Facts about the constants and the values.                               *)

(* No request is of two kinds.                                             *)
LEMMA KindsApart ==
  /\ \A r \in Repositories : r \in Requests /\ r \notin Deletes /\ r \notin Tests
  /\ \A u \in Uploads : u \in Repositories /\ u \notin Imports
  /\ \A g \in Imports : g \in Repositories
  /\ \A r \in Repositories : r \in Uploads \/ r \in Imports
  /\ \A d \in Deletes : d \in Requests /\ d \notin Tests /\ d \notin Repositories
  /\ \A t \in Tests : t \in Requests /\ t \notin Repositories
  /\ \A r \in Requests : r \in Repositories \/ r \in Deletes \/ r \in Tests
BY IngestionAssumption DEF Requests, Repositories

(* A request that was not answered has no status code.                     *)
LEMMA CodesApart ==
  /\ None \notin {200, -200, 201, 404, 413, 422, 500, 504}
  /\ Cleaned = 200 /\ NotCleaned = -200
  /\ StatusCodes = {200, -200, 201, 404, 413, 422, 500, 504}
BY IngestionAssumption DEF StatusCodes, Cleaned, NotCleaned

(* The limits are numbers.                                                 *)
LEMMA LimitsType == MaxUpload \in Nat /\ MaxCrashes \in Nat
BY IngestionAssumption

(* A row is in one state.                                                  *)
LEMMA RowStates ==
  /\ Absent \in Rows /\ Absent.state = "absent"
  /\ Deleted \in Rows /\ Deleted.state = "deleted" /\ Deleted # Absent
BY DEF Absent, Deleted, Rows

(* The rows of a scan are those of a repository that is present.           *)
LEMMA ScanType ==
  ASSUME NEW tree \in [Kinds -> Nat]
  PROVE  /\ Scan(tree) \in Rows /\ Scan(tree).state = "present"
         /\ Scan(tree) # Absent /\ Scan(tree) # Deleted
<1>1. /\ tree.python \in Nat /\ tree.java \in Nat
      /\ tree.unsupported \in Nat /\ tree.unknown \in Nat
  BY DEF Kinds
<1>2. Scan(tree).warnings \in SUBSET {"empty", "unsupported", "unknown", "nothing supported"}
  BY DEF Scan
<1>3. /\ Scan(tree).files \in Nat /\ Scan(tree).unsupported \in Nat
      /\ Scan(tree).state = "present"
  BY <1>1 DEF Scan
<1>4. Scan(tree) = [state |-> Scan(tree).state, files |-> Scan(tree).files,
                    unsupported |-> Scan(tree).unsupported, warnings |-> Scan(tree).warnings]
  BY DEF Scan
<1>5. Scan(tree) \in Rows
  BY <1>2, <1>3, <1>4 DEF Rows
<1> QED BY <1>3, <1>5, RowStates

(* What is uploaded or cloned is a tree of files.                          *)
LEMMA TreeType ==
  ASSUME NEW a \in Archives \union Clones
  PROVE  a.tree \in [Kinds -> Nat]
BY IngestionAssumption DEF Clones

(* An archive is unpacked or refused in one of three ways.                 *)
LEMMA ExtractStatusType ==
  ASSUME NEW a
  PROVE  ExtractStatus(a) \in {200, 413, 422, 500}
BY DEF ExtractStatus
------------------------------------------------------------------------------
(* The steps.  Each lemma has one step per conjunct of the invariant.      *)

(* An upload makes its directory.                                          *)
LEMMA MakeWorkdirSafe ==
  ASSUME IInv, NEW u \in Uploads, NEW a \in Archives, MakeWorkdir(u, a)
  PROVE  IInv'
<1>1. Typed'
  BY KindsApart, CodesApart, RowStates, LimitsType DEF IInv, Safe, Typed,
     MakerInv, UploadPCs, ImportPCs, DeletePCs, TestPCs, MakeWorkdir,
     Goto, SetDir
<1>2. MakerInv'
  BY KindsApart, CodesApart, RowStates DEF IInv, Safe, Typed, MakerInv,
     MakeWorkdir, Goto, SetDir
<1>3. RowInv'
  BY KindsApart, CodesApart, RowStates DEF IInv, Safe, Typed, MakerInv,
     RowInv, MakeWorkdir, Goto, SetDir
<1>4. UploadInv'
  BY KindsApart, CodesApart, RowStates, LimitsType DEF IInv, Safe, Typed,
     MakerInv, UploadInv, MakeWorkdir, Goto, SetDir
<1>5. ImportInv'
  BY KindsApart, CodesApart, RowStates DEF IInv, Safe, Typed, MakerInv,
     ImportInv, MakeWorkdir, Goto, SetDir
<1>6. DeleteInv'
  BY KindsApart, CodesApart, RowStates DEF IInv, Safe, Typed, MakerInv,
     DeleteInv, Remade, MakeWorkdir, Goto, SetDir
<1>7. TestInv'
  BY KindsApart, CodesApart, RowStates DEF IInv, Safe, Typed, MakerInv,
     TestInv, MakeWorkdir, Goto, SetDir
<1>8. LeftoverInv'
  BY KindsApart, CodesApart, RowStates DEF IInv, Safe, Typed, MakerInv,
     LeftoverInv, Explained, Remade, AtWork, MakeWorkdir, Goto, SetDir
<1> QED BY <1>1, <1>2, <1>3, <1>4, <1>5, <1>6, <1>7, <1>8 DEF IInv, Safe

(* A chunk is written, or is one too many.                                 *)
LEMMA StreamChunkSafe ==
  ASSUME IInv, NEW u \in Uploads, StreamChunk(u)
  PROVE  IInv'
<1>1. Typed'
  BY KindsApart, CodesApart, RowStates, LimitsType DEF IInv, Safe, Typed,
     MakerInv, UploadPCs, ImportPCs, DeletePCs, TestPCs, UploadInv,
     StreamChunk, Goto, Respond, SetDir
<1>2. MakerInv'
  BY KindsApart, CodesApart, RowStates DEF IInv, Safe, Typed, MakerInv,
     UploadInv, StreamChunk, Goto, Respond, SetDir
<1>3. RowInv'
  BY KindsApart, CodesApart, RowStates DEF IInv, Safe, Typed, MakerInv,
     RowInv, UploadInv, StreamChunk, Goto, Respond, SetDir
<1>4. UploadInv'
  BY KindsApart, CodesApart, RowStates, LimitsType DEF IInv, Safe, Typed,
     MakerInv, UploadInv, StreamChunk, Goto, Respond, SetDir
<1>5. ImportInv'
  BY KindsApart, CodesApart, RowStates DEF IInv, Safe, Typed, MakerInv,
     ImportInv, UploadInv, StreamChunk, Goto, Respond, SetDir
<1>6. DeleteInv'
  BY KindsApart, CodesApart, RowStates DEF IInv, Safe, Typed, MakerInv,
     DeleteInv, Remade, UploadInv, StreamChunk, Goto, Respond, SetDir
<1>7. TestInv'
  BY KindsApart, CodesApart, RowStates DEF IInv, Safe, Typed, MakerInv,
     TestInv, UploadInv, StreamChunk, Goto, Respond, SetDir
<1>8. LeftoverInv'
  BY KindsApart, CodesApart, RowStates DEF IInv, Safe, Typed, MakerInv,
     LeftoverInv, Explained, Remade, AtWork, UploadInv, StreamChunk, Goto,
     Respond, SetDir
<1> QED BY <1>1, <1>2, <1>3, <1>4, <1>5, <1>6, <1>7, <1>8 DEF IInv, Safe

(* The upload is at its end.                                               *)
LEMMA StreamEndSafe ==
  ASSUME IInv, NEW u \in Uploads, StreamEnd(u)
  PROVE  IInv'
<1>1. Typed'
  BY KindsApart, CodesApart, RowStates, LimitsType DEF IInv, Safe, Typed,
     MakerInv, UploadPCs, ImportPCs, DeletePCs, TestPCs, StreamEnd, Goto
<1>2. MakerInv'
  BY KindsApart, CodesApart, RowStates DEF IInv, Safe, Typed, MakerInv,
     StreamEnd, Goto
<1>3. RowInv'
  BY KindsApart, CodesApart, RowStates DEF IInv, Safe, Typed, MakerInv,
     RowInv, StreamEnd, Goto
<1>4. UploadInv'
  BY KindsApart, CodesApart, RowStates, LimitsType DEF IInv, Safe, Typed,
     MakerInv, UploadInv, StreamEnd, Goto
<1>5. ImportInv'
  BY KindsApart, CodesApart, RowStates DEF IInv, Safe, Typed, MakerInv,
     ImportInv, StreamEnd, Goto
<1>6. DeleteInv'
  BY KindsApart, CodesApart, RowStates DEF IInv, Safe, Typed, MakerInv,
     DeleteInv, Remade, StreamEnd, Goto
<1>7. TestInv'
  BY KindsApart, CodesApart, RowStates DEF IInv, Safe, Typed, MakerInv,
     TestInv, StreamEnd, Goto
<1>8. LeftoverInv'
  BY KindsApart, CodesApart, RowStates DEF IInv, Safe, Typed, MakerInv,
     LeftoverInv, Explained, Remade, AtWork, StreamEnd, Goto
<1> QED BY <1>1, <1>2, <1>3, <1>4, <1>5, <1>6, <1>7, <1>8 DEF IInv, Safe

(* An archive is unpacked.                                                 *)
LEMMA ExtractArchiveSafe ==
  ASSUME IInv, NEW u \in Uploads, ExtractArchive(u)
  PROVE  IInv'
<1>1. Typed'
  BY KindsApart, CodesApart, RowStates, LimitsType, ExtractStatusType DEF
     IInv, Safe, Typed, MakerInv, UploadPCs, ImportPCs, DeletePCs,
     TestPCs, UploadInv, ExtractArchive, Goto, SetDir, Unpacks
<1>2. MakerInv'
  BY KindsApart, CodesApart, RowStates, ExtractStatusType DEF IInv, Safe,
     Typed, MakerInv, UploadInv, ExtractArchive, Goto, SetDir, Unpacks
<1>3. RowInv'
  BY KindsApart, CodesApart, RowStates, ExtractStatusType DEF IInv, Safe,
     Typed, MakerInv, RowInv, UploadInv, ExtractArchive, Goto, SetDir,
     Unpacks
<1>4. UploadInv'
  BY KindsApart, CodesApart, RowStates, LimitsType, ExtractStatusType DEF
     IInv, Safe, Typed, MakerInv, UploadInv, ExtractArchive, Goto, SetDir,
     Unpacks
<1>5. ImportInv'
  BY KindsApart, CodesApart, RowStates, ExtractStatusType DEF IInv, Safe,
     Typed, MakerInv, ImportInv, UploadInv, ExtractArchive, Goto, SetDir,
     Unpacks
<1>6. DeleteInv'
  BY KindsApart, CodesApart, RowStates, ExtractStatusType DEF IInv, Safe,
     Typed, MakerInv, DeleteInv, Remade, UploadInv, ExtractArchive, Goto,
     SetDir, Unpacks
<1>7. TestInv'
  BY KindsApart, CodesApart, RowStates, ExtractStatusType DEF IInv, Safe,
     Typed, MakerInv, TestInv, UploadInv, ExtractArchive, Goto, SetDir,
     Unpacks
<1>8. LeftoverInv'
  BY KindsApart, CodesApart, RowStates, ExtractStatusType DEF IInv, Safe,
     Typed, MakerInv, LeftoverInv, Explained, Remade, AtWork, UploadInv,
     ExtractArchive, Goto, SetDir, Unpacks
<1> QED BY <1>1, <1>2, <1>3, <1>4, <1>5, <1>6, <1>7, <1>8 DEF IInv, Safe

(* An archive is refused.                                                  *)
LEMMA RefuseArchiveSafe ==
  ASSUME IInv, NEW u \in Uploads, RefuseArchive(u)
  PROVE  IInv'
<1>1. Typed'
  BY KindsApart, CodesApart, RowStates, LimitsType, ExtractStatusType DEF
     IInv, Safe, Typed, MakerInv, UploadPCs, ImportPCs, DeletePCs,
     TestPCs, UploadInv, RefuseArchive, Goto, Respond, SetDir
<1>2. MakerInv'
  BY KindsApart, CodesApart, RowStates, ExtractStatusType DEF IInv, Safe,
     Typed, MakerInv, UploadInv, RefuseArchive, Goto, Respond, SetDir
<1>3. RowInv'
  BY KindsApart, CodesApart, RowStates, ExtractStatusType DEF IInv, Safe,
     Typed, MakerInv, RowInv, UploadInv, RefuseArchive, Goto, Respond,
     SetDir
<1>4. UploadInv'
  BY KindsApart, CodesApart, RowStates, LimitsType, ExtractStatusType DEF
     IInv, Safe, Typed, MakerInv, UploadInv, RefuseArchive, Goto, Respond,
     SetDir
<1>5. ImportInv'
  BY KindsApart, CodesApart, RowStates, ExtractStatusType DEF IInv, Safe,
     Typed, MakerInv, ImportInv, UploadInv, RefuseArchive, Goto, Respond,
     SetDir
<1>6. DeleteInv'
  BY KindsApart, CodesApart, RowStates, ExtractStatusType DEF IInv, Safe,
     Typed, MakerInv, DeleteInv, Remade, UploadInv, RefuseArchive, Goto,
     Respond, SetDir
<1>7. TestInv'
  BY KindsApart, CodesApart, RowStates, ExtractStatusType DEF IInv, Safe,
     Typed, MakerInv, TestInv, UploadInv, RefuseArchive, Goto, Respond,
     SetDir
<1>8. LeftoverInv'
  BY KindsApart, CodesApart, RowStates, ExtractStatusType DEF IInv, Safe,
     Typed, MakerInv, LeftoverInv, Explained, Remade, AtWork, UploadInv,
     RefuseArchive, Goto, Respond, SetDir
<1> QED BY <1>1, <1>2, <1>3, <1>4, <1>5, <1>6, <1>7, <1>8 DEF IInv, Safe

(* Unpacking raises.                                                       *)
LEMMA ExtractRaisesSafe ==
  ASSUME IInv, NEW u \in Uploads, ExtractRaises(u)
  PROVE  IInv'
<1>1. Typed'
  BY KindsApart, CodesApart, RowStates, LimitsType, ExtractStatusType DEF
     IInv, Safe, Typed, MakerInv, UploadPCs, ImportPCs, DeletePCs,
     TestPCs, ExtractRaises, Goto, Respond
<1>2. MakerInv'
  BY KindsApart, CodesApart, RowStates, ExtractStatusType DEF IInv, Safe,
     Typed, MakerInv, ExtractRaises, Goto, Respond
<1>3. RowInv'
  BY KindsApart, CodesApart, RowStates, ExtractStatusType DEF IInv, Safe,
     Typed, MakerInv, RowInv, ExtractRaises, Goto, Respond
<1>4. UploadInv'
  BY KindsApart, CodesApart, RowStates, LimitsType, ExtractStatusType DEF
     IInv, Safe, Typed, MakerInv, UploadInv, ExtractRaises, Goto, Respond
<1>5. ImportInv'
  BY KindsApart, CodesApart, RowStates, ExtractStatusType DEF IInv, Safe,
     Typed, MakerInv, ImportInv, ExtractRaises, Goto, Respond
<1>6. DeleteInv'
  BY KindsApart, CodesApart, RowStates, ExtractStatusType DEF IInv, Safe,
     Typed, MakerInv, DeleteInv, Remade, ExtractRaises, Goto, Respond
<1>7. TestInv'
  BY KindsApart, CodesApart, RowStates, ExtractStatusType DEF IInv, Safe,
     Typed, MakerInv, TestInv, ExtractRaises, Goto, Respond
<1>8. LeftoverInv'
  BY KindsApart, CodesApart, RowStates, ExtractStatusType DEF IInv, Safe,
     Typed, MakerInv, LeftoverInv, Explained, Remade, AtWork,
     ExtractRaises, Goto, Respond
<1> QED BY <1>1, <1>2, <1>3, <1>4, <1>5, <1>6, <1>7, <1>8 DEF IInv, Safe

(* An import makes its directory, or is refused.                           *)
LEMMA ValidateUrlSafe ==
  ASSUME IInv, NEW g \in Imports, ValidateUrl(g)
  PROVE  IInv'
<1>1. Typed'
  BY KindsApart, CodesApart, RowStates, LimitsType DEF IInv, Safe, Typed,
     MakerInv, UploadPCs, ImportPCs, DeletePCs, TestPCs, ValidateUrl,
     Goto, Respond, SetDir, Clones
<1>2. MakerInv'
  BY KindsApart, CodesApart, RowStates DEF IInv, Safe, Typed, MakerInv,
     ValidateUrl, Goto, Respond, SetDir, Clones
<1>3. RowInv'
  BY KindsApart, CodesApart, RowStates DEF IInv, Safe, Typed, MakerInv,
     RowInv, ValidateUrl, Goto, Respond, SetDir, Clones
<1>4. UploadInv'
  BY KindsApart, CodesApart, RowStates, LimitsType DEF IInv, Safe, Typed,
     MakerInv, UploadInv, ValidateUrl, Goto, Respond, SetDir, Clones
<1>5. ImportInv'
  BY KindsApart, CodesApart, RowStates DEF IInv, Safe, Typed, MakerInv,
     ImportInv, ValidateUrl, Goto, Respond, SetDir, Clones
<1>6. DeleteInv'
  BY KindsApart, CodesApart, RowStates DEF IInv, Safe, Typed, MakerInv,
     DeleteInv, Remade, ValidateUrl, Goto, Respond, SetDir, Clones
<1>7. TestInv'
  BY KindsApart, CodesApart, RowStates DEF IInv, Safe, Typed, MakerInv,
     TestInv, ValidateUrl, Goto, Respond, SetDir, Clones
<1>8. LeftoverInv'
  BY KindsApart, CodesApart, RowStates DEF IInv, Safe, Typed, MakerInv,
     LeftoverInv, Explained, Remade, AtWork, ValidateUrl, Goto, Respond,
     SetDir, Clones
<1> QED BY <1>1, <1>2, <1>3, <1>4, <1>5, <1>6, <1>7, <1>8 DEF IInv, Safe

(* A clone ends.                                                           *)
LEMMA CloneSafe ==
  ASSUME IInv, NEW g \in Imports, Clone(g)
  PROVE  IInv'
<1>1. Typed'
  BY KindsApart, CodesApart, RowStates, LimitsType DEF IInv, Safe, Typed,
     MakerInv, UploadPCs, ImportPCs, DeletePCs, TestPCs, Clone, Goto,
     Respond, SetDir
<1>2. MakerInv'
  BY KindsApart, CodesApart, RowStates DEF IInv, Safe, Typed, MakerInv,
     Clone, Goto, Respond, SetDir
<1>3. RowInv'
  BY KindsApart, CodesApart, RowStates DEF IInv, Safe, Typed, MakerInv,
     RowInv, Clone, Goto, Respond, SetDir
<1>4. UploadInv'
  BY KindsApart, CodesApart, RowStates, LimitsType DEF IInv, Safe, Typed,
     MakerInv, UploadInv, Clone, Goto, Respond, SetDir
<1>5. ImportInv'
  BY KindsApart, CodesApart, RowStates DEF IInv, Safe, Typed, MakerInv,
     ImportInv, Clone, Goto, Respond, SetDir
<1>6. DeleteInv'
  BY KindsApart, CodesApart, RowStates DEF IInv, Safe, Typed, MakerInv,
     DeleteInv, Remade, Clone, Goto, Respond, SetDir
<1>7. TestInv'
  BY KindsApart, CodesApart, RowStates DEF IInv, Safe, Typed, MakerInv,
     TestInv, Clone, Goto, Respond, SetDir
<1>8. LeftoverInv'
  BY KindsApart, CodesApart, RowStates DEF IInv, Safe, Typed, MakerInv,
     LeftoverInv, Explained, Remade, AtWork, Clone, Goto, Respond, SetDir
<1> QED BY <1>1, <1>2, <1>3, <1>4, <1>5, <1>6, <1>7, <1>8 DEF IInv, Safe

(* The rows are committed.                                                 *)
LEMMA StoreSafe ==
  ASSUME IInv, NEW r \in Repositories, Store(r)
  PROVE  IInv'
<1>1. Typed'
  BY KindsApart, CodesApart, RowStates, LimitsType, ScanType, TreeType DEF
     IInv, Safe, Typed, MakerInv, UploadPCs, ImportPCs, DeletePCs,
     TestPCs, UploadInv, ImportInv, Store, Goto
<1>2. MakerInv'
  BY KindsApart, CodesApart, RowStates, ScanType, TreeType DEF IInv, Safe,
     Typed, MakerInv, UploadInv, ImportInv, Store, Goto
<1>3. RowInv'
  BY KindsApart, CodesApart, RowStates, ScanType, TreeType DEF IInv, Safe,
     Typed, MakerInv, RowInv, UploadInv, ImportInv, Store, Goto
<1>4. UploadInv'
  BY KindsApart, CodesApart, RowStates, LimitsType, ScanType, TreeType DEF
     IInv, Safe, Typed, MakerInv, UploadInv, ImportInv, Store, Goto
<1>5. ImportInv'
  BY KindsApart, CodesApart, RowStates, ScanType, TreeType DEF IInv, Safe,
     Typed, MakerInv, ImportInv, UploadInv, Store, Goto
<1>6. DeleteInv'
  BY KindsApart, CodesApart, RowStates, ScanType, TreeType DEF IInv, Safe,
     Typed, MakerInv, DeleteInv, Remade, UploadInv, ImportInv, Store, Goto
<1>7. TestInv'
  BY KindsApart, CodesApart, RowStates, ScanType, TreeType DEF IInv, Safe,
     Typed, MakerInv, TestInv, UploadInv, ImportInv, Store, Goto
<1>8. LeftoverInv'
  BY KindsApart, CodesApart, RowStates, ScanType, TreeType DEF IInv, Safe,
     Typed, MakerInv, LeftoverInv, Explained, Remade, AtWork, UploadInv,
     ImportInv, Store, Goto
<1> QED BY <1>1, <1>2, <1>3, <1>4, <1>5, <1>6, <1>7, <1>8 DEF IInv, Safe

(* The commit fails.                                                       *)
LEMMA StoreFailsSafe ==
  ASSUME IInv, NEW r \in Repositories, StoreFails(r)
  PROVE  IInv'
<1>1. Typed'
  BY KindsApart, CodesApart, RowStates, LimitsType DEF IInv, Safe, Typed,
     MakerInv, UploadPCs, ImportPCs, DeletePCs, TestPCs, StoreFails, Goto,
     Respond
<1>2. MakerInv'
  BY KindsApart, CodesApart, RowStates DEF IInv, Safe, Typed, MakerInv,
     StoreFails, Goto, Respond
<1>3. RowInv'
  BY KindsApart, CodesApart, RowStates DEF IInv, Safe, Typed, MakerInv,
     RowInv, StoreFails, Goto, Respond
<1>4. UploadInv'
  BY KindsApart, CodesApart, RowStates, LimitsType DEF IInv, Safe, Typed,
     MakerInv, UploadInv, StoreFails, Goto, Respond
<1>5. ImportInv'
  BY KindsApart, CodesApart, RowStates DEF IInv, Safe, Typed, MakerInv,
     ImportInv, StoreFails, Goto, Respond
<1>6. DeleteInv'
  BY KindsApart, CodesApart, RowStates DEF IInv, Safe, Typed, MakerInv,
     DeleteInv, Remade, StoreFails, Goto, Respond
<1>7. TestInv'
  BY KindsApart, CodesApart, RowStates DEF IInv, Safe, Typed, MakerInv,
     TestInv, StoreFails, Goto, Respond
<1>8. LeftoverInv'
  BY KindsApart, CodesApart, RowStates DEF IInv, Safe, Typed, MakerInv,
     LeftoverInv, Explained, Remade, AtWork, StoreFails, Goto, Respond
<1> QED BY <1>1, <1>2, <1>3, <1>4, <1>5, <1>6, <1>7, <1>8 DEF IInv, Safe

(* The row is read again for the answer.                                   *)
LEMMA RefreshSafe ==
  ASSUME IInv, NEW r \in Repositories, Refresh(r)
  PROVE  IInv'
<1>1. Typed'
  BY KindsApart, CodesApart, RowStates, LimitsType DEF IInv, Safe, Typed,
     MakerInv, UploadPCs, ImportPCs, DeletePCs, TestPCs, RowInv, Refresh,
     Goto, Respond
<1>2. MakerInv'
  BY KindsApart, CodesApart, RowStates DEF IInv, Safe, Typed, MakerInv,
     RowInv, Refresh, Goto, Respond
<1>3. RowInv'
  BY KindsApart, CodesApart, RowStates DEF IInv, Safe, Typed, MakerInv,
     RowInv, Refresh, Goto, Respond
<1>4. UploadInv'
  BY KindsApart, CodesApart, RowStates, LimitsType DEF IInv, Safe, Typed,
     MakerInv, UploadInv, RowInv, Refresh, Goto, Respond
<1>5. ImportInv'
  BY KindsApart, CodesApart, RowStates DEF IInv, Safe, Typed, MakerInv,
     ImportInv, RowInv, Refresh, Goto, Respond
<1>6. DeleteInv'
  BY KindsApart, CodesApart, RowStates DEF IInv, Safe, Typed, MakerInv,
     DeleteInv, Remade, RowInv, Refresh, Goto, Respond
<1>7. TestInv'
  BY KindsApart, CodesApart, RowStates DEF IInv, Safe, Typed, MakerInv,
     TestInv, RowInv, Refresh, Goto, Respond
<1>8. LeftoverInv'
  BY KindsApart, CodesApart, RowStates DEF IInv, Safe, Typed, MakerInv,
     LeftoverInv, Explained, Remade, AtWork, RowInv, Refresh, Goto,
     Respond
<1> QED BY <1>1, <1>2, <1>3, <1>4, <1>5, <1>6, <1>7, <1>8 DEF IInv, Safe

(* A deletion finds its repository, or does not.                           *)
LEMMA ReadRepositorySafe ==
  ASSUME IInv, NEW d \in Deletes, NEW r \in Repositories, ReadRepository(d, r)
  PROVE  IInv'
<1>1. Typed'
  BY KindsApart, CodesApart, RowStates, LimitsType DEF IInv, Safe, Typed,
     MakerInv, UploadPCs, ImportPCs, DeletePCs, TestPCs, RowInv,
     ReadRepository, Goto, Respond
<1>2. MakerInv'
  BY KindsApart, CodesApart, RowStates DEF IInv, Safe, Typed, MakerInv,
     RowInv, ReadRepository, Goto, Respond
<1>3. RowInv'
  BY KindsApart, CodesApart, RowStates DEF IInv, Safe, Typed, MakerInv,
     RowInv, ReadRepository, Goto, Respond
<1>4. UploadInv'
  BY KindsApart, CodesApart, RowStates, LimitsType DEF IInv, Safe, Typed,
     MakerInv, UploadInv, RowInv, ReadRepository, Goto, Respond
<1>5. ImportInv'
  BY KindsApart, CodesApart, RowStates DEF IInv, Safe, Typed, MakerInv,
     ImportInv, RowInv, ReadRepository, Goto, Respond
<1>6. DeleteInv'
  BY KindsApart, CodesApart, RowStates DEF IInv, Safe, Typed, MakerInv,
     DeleteInv, Remade, RowInv, ReadRepository, Goto, Respond
<1>7. TestInv'
  BY KindsApart, CodesApart, RowStates DEF IInv, Safe, Typed, MakerInv,
     TestInv, RowInv, ReadRepository, Goto, Respond
<1>8. LeftoverInv'
  BY KindsApart, CodesApart, RowStates DEF IInv, Safe, Typed, MakerInv,
     LeftoverInv, Explained, Remade, AtWork, RowInv, ReadRepository, Goto,
     Respond, DeleteInv
<1> QED BY <1>1, <1>2, <1>3, <1>4, <1>5, <1>6, <1>7, <1>8 DEF IInv, Safe

(* The rows are committed away.                                            *)
LEMMA CommitDeletionSafe ==
  ASSUME IInv, NEW d \in Deletes, CommitDeletion(d)
  PROVE  IInv'
<1>0. /\ input[d] \in Repositories /\ pc[d] = "deleting" /\ row[input[d]] # Absent
      /\ row' = [row EXCEPT ![input[d]] = Deleted] /\ pc' = [pc EXCEPT ![d] = "checking"]
      /\ UNCHANGED <<answer, input, streamed, dir, crashes, lost, remade>>
  BY DEF IInv, Safe, DeleteInv, CommitDeletion, Goto, Deleted
<1>1. Typed'
  BY <1>0, KindsApart, CodesApart, RowStates, LimitsType DEF IInv, Safe,
     Typed, MakerInv, UploadPCs, ImportPCs, DeletePCs, TestPCs, DeleteInv,
     RowInv
<1>2. MakerInv'
  BY <1>0, KindsApart, CodesApart, RowStates DEF IInv, Safe, Typed,
     MakerInv, DeleteInv, RowInv
<1>3. RowInv'
  BY <1>0, KindsApart, CodesApart, RowStates DEF IInv, Safe, Typed,
     MakerInv, RowInv, DeleteInv
<1>4. UploadInv'
  BY <1>0, KindsApart, CodesApart, RowStates, LimitsType DEF IInv, Safe,
     Typed, MakerInv, UploadInv, DeleteInv, RowInv
<1>5. ImportInv'
  BY <1>0, KindsApart, CodesApart, RowStates DEF IInv, Safe, Typed,
     MakerInv, ImportInv, DeleteInv, RowInv
<1>6. DeleteInv'
  BY <1>0, KindsApart, CodesApart, RowStates DEF IInv, Safe, Typed,
     MakerInv, DeleteInv, Remade, RowInv
<1>7. TestInv'
  BY <1>0, KindsApart, CodesApart, RowStates DEF IInv, Safe, Typed,
     MakerInv, TestInv, DeleteInv, RowInv
<1>8. LeftoverInv'
  BY <1>0, KindsApart, CodesApart, RowStates DEF IInv, Safe, Typed,
     MakerInv, LeftoverInv, Explained, Remade, AtWork, DeleteInv, RowInv
<1> QED BY <1>1, <1>2, <1>3, <1>4, <1>5, <1>6, <1>7, <1>8 DEF IInv, Safe

(* The commit of a deletion is refused.                                    *)
LEMMA DeletionRefusedSafe ==
  ASSUME IInv, NEW d \in Deletes, DeletionRefused(d)
  PROVE  IInv'
<1>1. Typed'
  BY KindsApart, CodesApart, RowStates, LimitsType DEF IInv, Safe, Typed,
     MakerInv, UploadPCs, ImportPCs, DeletePCs, TestPCs, DeleteInv,
     DeletionRefused, Goto, Respond
<1>2. MakerInv'
  BY KindsApart, CodesApart, RowStates DEF IInv, Safe, Typed, MakerInv,
     DeleteInv, DeletionRefused, Goto, Respond
<1>3. RowInv'
  BY KindsApart, CodesApart, RowStates DEF IInv, Safe, Typed, MakerInv,
     RowInv, DeleteInv, DeletionRefused, Goto, Respond
<1>4. UploadInv'
  BY KindsApart, CodesApart, RowStates, LimitsType DEF IInv, Safe, Typed,
     MakerInv, UploadInv, DeleteInv, DeletionRefused, Goto, Respond
<1>5. ImportInv'
  BY KindsApart, CodesApart, RowStates DEF IInv, Safe, Typed, MakerInv,
     ImportInv, DeleteInv, DeletionRefused, Goto, Respond
<1>6. DeleteInv'
  BY KindsApart, CodesApart, RowStates DEF IInv, Safe, Typed, MakerInv,
     DeleteInv, Remade, DeletionRefused, Goto, Respond
<1>7. TestInv'
  BY KindsApart, CodesApart, RowStates DEF IInv, Safe, Typed, MakerInv,
     TestInv, DeleteInv, DeletionRefused, Goto, Respond
<1>8. LeftoverInv'
  BY KindsApart, CodesApart, RowStates DEF IInv, Safe, Typed, MakerInv,
     LeftoverInv, Explained, Remade, AtWork, DeleteInv, DeletionRefused,
     Goto, Respond
<1> QED BY <1>1, <1>2, <1>3, <1>4, <1>5, <1>6, <1>7, <1>8 DEF IInv, Safe

(* The directory is looked for.                                            *)
LEMMA CheckWorkdirSafe ==
  ASSUME IInv, NEW d \in Deletes, CheckWorkdir(d)
  PROVE  IInv'
<1>1. Typed'
  BY KindsApart, CodesApart, RowStates, LimitsType DEF IInv, Safe, Typed,
     MakerInv, UploadPCs, ImportPCs, DeletePCs, TestPCs, DeleteInv,
     CheckWorkdir, Goto, Respond
<1>2. MakerInv'
  BY KindsApart, CodesApart, RowStates DEF IInv, Safe, Typed, MakerInv,
     DeleteInv, CheckWorkdir, Goto, Respond
<1>3. RowInv'
  BY KindsApart, CodesApart, RowStates DEF IInv, Safe, Typed, MakerInv,
     RowInv, DeleteInv, CheckWorkdir, Goto, Respond
<1>4. UploadInv'
  BY KindsApart, CodesApart, RowStates, LimitsType DEF IInv, Safe, Typed,
     MakerInv, UploadInv, DeleteInv, CheckWorkdir, Goto, Respond
<1>5. ImportInv'
  BY KindsApart, CodesApart, RowStates DEF IInv, Safe, Typed, MakerInv,
     ImportInv, DeleteInv, CheckWorkdir, Goto, Respond
<1>6. DeleteInv'
  BY KindsApart, CodesApart, RowStates DEF IInv, Safe, Typed, MakerInv,
     DeleteInv, Remade, CheckWorkdir, Goto, Respond
<1>7. TestInv'
  BY KindsApart, CodesApart, RowStates DEF IInv, Safe, Typed, MakerInv,
     TestInv, DeleteInv, CheckWorkdir, Goto, Respond
<1>8. LeftoverInv'
  BY KindsApart, CodesApart, RowStates DEF IInv, Safe, Typed, MakerInv,
     LeftoverInv, Explained, Remade, AtWork, DeleteInv, CheckWorkdir,
     Goto, Respond
<1> QED BY <1>1, <1>2, <1>3, <1>4, <1>5, <1>6, <1>7, <1>8 DEF IInv, Safe

(* The directory is removed, or is not.                                    *)
LEMMA RemoveWorkdirSafe ==
  ASSUME IInv, NEW d \in Deletes, RemoveWorkdir(d)
  PROVE  IInv'
<1>1. Typed'
  BY KindsApart, CodesApart, RowStates, LimitsType DEF IInv, Safe, Typed,
     MakerInv, UploadPCs, ImportPCs, DeletePCs, TestPCs, DeleteInv,
     RowInv, RemoveWorkdir, Goto, Respond, SetDir
<1>2. MakerInv'
  BY KindsApart, CodesApart, RowStates DEF IInv, Safe, Typed, MakerInv,
     DeleteInv, RowInv, RemoveWorkdir, Goto, Respond, SetDir
<1>3. RowInv'
  BY KindsApart, CodesApart, RowStates DEF IInv, Safe, Typed, MakerInv,
     RowInv, DeleteInv, RemoveWorkdir, Goto, Respond, SetDir
<1>4. UploadInv'
  BY KindsApart, CodesApart, RowStates, LimitsType DEF IInv, Safe, Typed,
     MakerInv, UploadInv, DeleteInv, RowInv, RemoveWorkdir, Goto, Respond,
     SetDir
<1>5. ImportInv'
  BY KindsApart, CodesApart, RowStates DEF IInv, Safe, Typed, MakerInv,
     ImportInv, DeleteInv, RowInv, RemoveWorkdir, Goto, Respond, SetDir
<1>6. DeleteInv'
  BY KindsApart, CodesApart, RowStates DEF IInv, Safe, Typed, MakerInv,
     DeleteInv, Remade, RowInv, RemoveWorkdir, Goto, Respond, SetDir
<1>7. TestInv'
  BY KindsApart, CodesApart, RowStates DEF IInv, Safe, Typed, MakerInv,
     TestInv, DeleteInv, RowInv, RemoveWorkdir, Goto, Respond, SetDir
<1>8. LeftoverInv'
  BY KindsApart, CodesApart, RowStates DEF IInv, Safe, Typed, MakerInv,
     LeftoverInv, Explained, Remade, AtWork, DeleteInv, RowInv,
     RemoveWorkdir, Goto, Respond, SetDir
<1> QED BY <1>1, <1>2, <1>3, <1>4, <1>5, <1>6, <1>7, <1>8 DEF IInv, Safe

(* A test run finds its repository, or does not.                           *)
LEMMA ReadTestedSafe ==
  ASSUME IInv, NEW t \in Tests, NEW r \in Repositories, ReadTested(t, r)
  PROVE  IInv'
<1>1. Typed'
  BY KindsApart, CodesApart, RowStates, LimitsType DEF IInv, Safe, Typed,
     MakerInv, UploadPCs, ImportPCs, DeletePCs, TestPCs, RowInv,
     ReadTested, Goto, Respond
<1>2. MakerInv'
  BY KindsApart, CodesApart, RowStates DEF IInv, Safe, Typed, MakerInv,
     RowInv, ReadTested, Goto, Respond
<1>3. RowInv'
  BY KindsApart, CodesApart, RowStates DEF IInv, Safe, Typed, MakerInv,
     RowInv, ReadTested, Goto, Respond
<1>4. UploadInv'
  BY KindsApart, CodesApart, RowStates, LimitsType DEF IInv, Safe, Typed,
     MakerInv, UploadInv, RowInv, ReadTested, Goto, Respond
<1>5. ImportInv'
  BY KindsApart, CodesApart, RowStates DEF IInv, Safe, Typed, MakerInv,
     ImportInv, RowInv, ReadTested, Goto, Respond
<1>6. DeleteInv'
  BY KindsApart, CodesApart, RowStates DEF IInv, Safe, Typed, MakerInv,
     DeleteInv, Remade, RowInv, ReadTested, Goto, Respond
<1>7. TestInv'
  BY KindsApart, CodesApart, RowStates DEF IInv, Safe, Typed, MakerInv,
     TestInv, RowInv, ReadTested, Goto, Respond
<1>8. LeftoverInv'
  BY KindsApart, CodesApart, RowStates DEF IInv, Safe, Typed, MakerInv,
     LeftoverInv, Explained, Remade, AtWork, RowInv, ReadTested, Goto,
     Respond
<1> QED BY <1>1, <1>2, <1>3, <1>4, <1>5, <1>6, <1>7, <1>8 DEF IInv, Safe

(* Sources are looked for, and the directory made where there are none.    *)
LEMMA LocateSourcesSafe ==
  ASSUME IInv, NEW t \in Tests, LocateSources(t)
  PROVE  IInv'
<1>1. Typed'
  BY KindsApart, CodesApart, RowStates, LimitsType DEF IInv, Safe, Typed,
     MakerInv, UploadPCs, ImportPCs, DeletePCs, TestPCs, TestInv, RowInv,
     LocateSources, Goto, RepositoryRoot, SetDir
<1>2. MakerInv'
  BY KindsApart, CodesApart, RowStates DEF IInv, Safe, Typed, MakerInv,
     TestInv, RowInv, LocateSources, Goto, RepositoryRoot, SetDir
<1>3. RowInv'
  BY KindsApart, CodesApart, RowStates DEF IInv, Safe, Typed, MakerInv,
     RowInv, TestInv, LocateSources, Goto, RepositoryRoot, SetDir
<1>4. UploadInv'
  BY KindsApart, CodesApart, RowStates, LimitsType DEF IInv, Safe, Typed,
     MakerInv, UploadInv, TestInv, RowInv, LocateSources, Goto, RepositoryRoot, SetDir
<1>5. ImportInv'
  BY KindsApart, CodesApart, RowStates DEF IInv, Safe, Typed, MakerInv,
     ImportInv, TestInv, RowInv, LocateSources, Goto, RepositoryRoot, SetDir
<1>6. DeleteInv'
  BY KindsApart, CodesApart, RowStates DEF IInv, Safe, Typed, MakerInv,
     DeleteInv, Remade, TestInv, RowInv, LocateSources, Goto, RepositoryRoot, SetDir
<1>7. TestInv'
  BY KindsApart, CodesApart, RowStates DEF IInv, Safe, Typed, MakerInv,
     TestInv, RowInv, LocateSources, Goto, RepositoryRoot, SetDir
<1>8. LeftoverInv'
  BY KindsApart, CodesApart, RowStates DEF IInv, Safe, Typed, MakerInv,
     LeftoverInv, Explained, Remade, AtWork, TestInv, RowInv, LocateSources,
     Goto, RepositoryRoot, SetDir
<1> QED BY <1>1, <1>2, <1>3, <1>4, <1>5, <1>6, <1>7, <1>8 DEF IInv, Safe

(* Sources are staged.                                                     *)
LEMMA StageTestsSafe ==
  ASSUME IInv, NEW t \in Tests, StageTests(t)
  PROVE  IInv'
<1>1. Typed'
  BY KindsApart, CodesApart, RowStates, LimitsType DEF IInv, Safe, Typed,
     MakerInv, UploadPCs, ImportPCs, DeletePCs, TestPCs, TestInv, RowInv,
     StageTests, Goto, RepositoryRoot, SetDir
<1>2. MakerInv'
  BY KindsApart, CodesApart, RowStates DEF IInv, Safe, Typed, MakerInv,
     TestInv, RowInv, StageTests, Goto, RepositoryRoot, SetDir
<1>3. RowInv'
  BY KindsApart, CodesApart, RowStates DEF IInv, Safe, Typed, MakerInv,
     RowInv, TestInv, StageTests, Goto, RepositoryRoot, SetDir
<1>4. UploadInv'
  BY KindsApart, CodesApart, RowStates, LimitsType DEF IInv, Safe, Typed,
     MakerInv, UploadInv, TestInv, RowInv, StageTests, Goto, RepositoryRoot, SetDir
<1>5. ImportInv'
  BY KindsApart, CodesApart, RowStates DEF IInv, Safe, Typed, MakerInv,
     ImportInv, TestInv, RowInv, StageTests, Goto, RepositoryRoot, SetDir
<1>6. DeleteInv'
  BY KindsApart, CodesApart, RowStates DEF IInv, Safe, Typed, MakerInv,
     DeleteInv, Remade, TestInv, RowInv, StageTests, Goto, RepositoryRoot, SetDir
<1>7. TestInv'
  BY KindsApart, CodesApart, RowStates DEF IInv, Safe, Typed, MakerInv,
     TestInv, RowInv, StageTests, Goto, RepositoryRoot, SetDir
<1>8. LeftoverInv'
  BY KindsApart, CodesApart, RowStates DEF IInv, Safe, Typed, MakerInv,
     LeftoverInv, Explained, Remade, AtWork, TestInv, RowInv, StageTests,
     Goto, RepositoryRoot, SetDir
<1> QED BY <1>1, <1>2, <1>3, <1>4, <1>5, <1>6, <1>7, <1>8 DEF IInv, Safe

(* A test run is stored, or is not.                                        *)
LEMMA StoreTestRunSafe ==
  ASSUME IInv, NEW t \in Tests, StoreTestRun(t)
  PROVE  IInv'
<1>1. Typed'
  BY KindsApart, CodesApart, RowStates, LimitsType DEF IInv, Safe, Typed,
     MakerInv, UploadPCs, ImportPCs, DeletePCs, TestPCs, TestInv, RowInv,
     StoreTestRun, Goto, Respond
<1>2. MakerInv'
  BY KindsApart, CodesApart, RowStates DEF IInv, Safe, Typed, MakerInv,
     TestInv, RowInv, StoreTestRun, Goto, Respond
<1>3. RowInv'
  BY KindsApart, CodesApart, RowStates DEF IInv, Safe, Typed, MakerInv,
     RowInv, TestInv, StoreTestRun, Goto, Respond
<1>4. UploadInv'
  BY KindsApart, CodesApart, RowStates, LimitsType DEF IInv, Safe, Typed,
     MakerInv, UploadInv, TestInv, RowInv, StoreTestRun, Goto, Respond
<1>5. ImportInv'
  BY KindsApart, CodesApart, RowStates DEF IInv, Safe, Typed, MakerInv,
     ImportInv, TestInv, RowInv, StoreTestRun, Goto, Respond
<1>6. DeleteInv'
  BY KindsApart, CodesApart, RowStates DEF IInv, Safe, Typed, MakerInv,
     DeleteInv, Remade, TestInv, RowInv, StoreTestRun, Goto, Respond
<1>7. TestInv'
  BY KindsApart, CodesApart, RowStates DEF IInv, Safe, Typed, MakerInv,
     TestInv, RowInv, StoreTestRun, Goto, Respond
<1>8. LeftoverInv'
  BY KindsApart, CodesApart, RowStates DEF IInv, Safe, Typed, MakerInv,
     LeftoverInv, Explained, Remade, AtWork, TestInv, RowInv, StoreTestRun,
     Goto, Respond
<1> QED BY <1>1, <1>2, <1>3, <1>4, <1>5, <1>6, <1>7, <1>8 DEF IInv, Safe

(* A restart ends what is at work.                                         *)
LEMMA RestartSafe ==
  ASSUME IInv, Restart
  PROVE  IInv'
<1>1. Typed'
  BY KindsApart, CodesApart, RowStates, LimitsType DEF IInv, Safe, Typed,
     MakerInv, UploadPCs, ImportPCs, DeletePCs, TestPCs, Restart, AtWork
<1>2. MakerInv'
  BY KindsApart, CodesApart, RowStates DEF IInv, Safe, Typed, MakerInv,
     Restart, AtWork
<1>3. RowInv'
  BY KindsApart, CodesApart, RowStates DEF IInv, Safe, Typed, MakerInv,
     RowInv, Restart, AtWork
<1>4. UploadInv'
  BY KindsApart, CodesApart, RowStates, LimitsType DEF IInv, Safe, Typed,
     MakerInv, UploadInv, Restart, AtWork
<1>5. ImportInv'
  BY KindsApart, CodesApart, RowStates DEF IInv, Safe, Typed, MakerInv,
     ImportInv, Restart, AtWork
<1>6. DeleteInv'
  BY KindsApart, CodesApart, RowStates DEF IInv, Safe, Typed, MakerInv,
     DeleteInv, Remade, Restart, AtWork
<1>7. TestInv'
  BY KindsApart, CodesApart, RowStates DEF IInv, Safe, Typed, MakerInv,
     TestInv, Restart, AtWork
<1>8. LeftoverInv'
  BY KindsApart, CodesApart, RowStates DEF IInv, Safe, Typed, MakerInv,
     LeftoverInv, Explained, Remade, AtWork, Restart
<1> QED BY <1>1, <1>2, <1>3, <1>4, <1>5, <1>6, <1>7, <1>8 DEF IInv, Safe

(* A step of a request is a step of one of the actions above.              *)
LEMMA StepSafe ==
  ASSUME IInv, NEW r \in Requests, Step(r)
  PROVE  IInv'
BY StreamChunkSafe, StreamEndSafe, ExtractArchiveSafe, RefuseArchiveSafe,
   ExtractRaisesSafe, CloneSafe, StoreSafe, StoreFailsSafe, RefreshSafe,
   CommitDeletionSafe, DeletionRefusedSafe, CheckWorkdirSafe,
   RemoveWorkdirSafe, LocateSourcesSafe, StageTestsSafe, StoreTestRunSafe DEF Step

(* Nothing has happened yet.                                               *)
LEMMA InitSafe == Init => IInv
<1> SUFFICES ASSUME Init PROVE IInv
  OBVIOUS
<1>1. Typed
  BY KindsApart, LimitsType, RowStates DEF Init, Typed, UploadPCs, ImportPCs,
     DeletePCs, TestPCs
<1>2. MakerInv /\ RowInv /\ ImportInv /\ TestInv /\ LeftoverInv
  BY KindsApart, CodesApart, RowStates DEF Init, MakerInv, RowInv, ImportInv,
     TestInv, LeftoverInv
<1>3. UploadInv /\ DeleteInv
  BY KindsApart, CodesApart, RowStates DEF Init, UploadInv, DeleteInv
<1> QED BY <1>1, <1>2, <1>3 DEF IInv, Safe

(* Every step preserves the invariant.                                     *)
LEMMA NextSafe == IInv /\ [Next]_vars => IInv'
<1>1. ASSUME IInv, Next PROVE IInv'
  BY <1>1, MakeWorkdirSafe, ValidateUrlSafe, ReadRepositorySafe, ReadTestedSafe,
     StepSafe, RestartSafe DEF Next
<1>2. ASSUME IInv, UNCHANGED vars PROVE IInv'
  BY <1>2 DEF vars, IInv, Safe, Typed, MakerInv, RowInv, UploadInv, ImportInv,
     DeleteInv, TestInv, LeftoverInv, Explained, Remade, AtWork
<1> QED BY <1>1, <1>2

(* The inductive invariant holds throughout every behaviour.               *)
THEOREM InvariantHolds == Spec => []IInv
BY InitSafe, NextSafe, PTL DEF Spec

------------------------------------------------------------------------------
(* What follows from it.                                                   *)

(* Every request, directory and row has a value the code knows.            *)
THEOREM TypeCorrect == Spec => []TypeOK
<1>1. IInv => TypeOK
  <2> SUFFICES ASSUME IInv PROVE TypeOK
    OBVIOUS
  <2>1. \A r \in Repositories :
          /\ row[r].state \in {"absent", "present", "deleted"}
          /\ row[r].files \in Nat /\ row[r].unsupported \in Nat
    BY DEF IInv, Typed, Rows
  <2>2. pc \in [Requests -> {"idle", "streaming", "unpacking", "cloning", "scanning", "stored",
                             "deleting", "checking", "removing", "locating", "generating",
                             "running", "answered", "dead"}]
    BY DEF IInv, Typed, UploadPCs, ImportPCs, DeletePCs, TestPCs
  <2> QED BY <2>1, <2>2 DEF IInv, Typed, TypeOK
<1> QED BY <1>1, InvariantHolds, PTL

(* A repository is never shown without its sources, for any number of      *)
(* deletions of it and restarts between any two steps, unless it was a     *)
(* restart without a volume that took them.                                *)
THEOREM RowsAlwaysHaveFiles == Spec => []RowsHaveFiles
<1>1. IInv => RowsHaveFiles
  BY RowStates DEF IInv, Safe, Typed, RowInv, RowsHaveFiles
<1> QED BY <1>1, InvariantHolds, PTL

(* What a scan counts is what it was given, and a present row is a scan's. *)
LEMMA PresentIsScanned ==
  ASSUME IInv, NEW r \in Repositories, row[r].state = "present"
  PROVE  row[r] = Scan(input[r].tree) /\ input[r].tree \in [Kinds -> Nat]
<1>1. row[r] = Scan(input[r].tree)
  BY RowStates DEF IInv, Safe, RowInv
<1>2. input[r].tree \in [Kinds -> Nat]
  BY KindsApart, TreeType DEF IInv, Safe, UploadInv, ImportInv
<1> QED BY <1>1, <1>2

(* Every file that is looked at is counted once, and a repository in which *)
(* nothing can be analysed says so.                                        *)
LEMMA ScanCounts ==
  ASSUME NEW tree \in [Kinds -> Nat]
  PROVE  /\ Scan(tree).files + Scan(tree).unsupported
              = tree.python + tree.java + tree.unsupported + tree.unknown
         /\ Scan(tree).warnings = {} => Scan(tree).files > 0
         /\ "empty" \in Scan(tree).warnings => "nothing supported" \in Scan(tree).warnings
<1>1. /\ tree.python \in Nat /\ tree.java \in Nat
      /\ tree.unsupported \in Nat /\ tree.unknown \in Nat
  BY DEF Kinds
<1>2. /\ "nothing supported" \in Scan(tree).warnings <=> tree.python + tree.java = 0
      /\ "empty" \in Scan(tree).warnings
           <=> (tree.python + tree.java) + (tree.unsupported + tree.unknown) = 0
  BY DEF Scan
<1>3. /\ Scan(tree).files = tree.python + tree.java
      /\ Scan(tree).unsupported = tree.unsupported + tree.unknown
  BY DEF Scan
<1>4. ASSUME NEW p \in Nat, NEW j \in Nat, NEW u \in Nat, NEW k \in Nat
      PROVE  /\ (p + j) + (u + k) = p + j + u + k
             /\ (p + j) + (u + k) = 0 => p + j = 0
             /\ p + j # 0 => p + j > 0
  OBVIOUS
<1>5. Scan(tree).files + Scan(tree).unsupported
        = tree.python + tree.java + tree.unsupported + tree.unknown
  BY <1>1, <1>3, <1>4
<1>6. Scan(tree).warnings = {} => Scan(tree).files > 0
  BY <1>1, <1>2, <1>3, <1>4
<1>7. "empty" \in Scan(tree).warnings => "nothing supported" \in Scan(tree).warnings
  <2> DEFINE p == tree.python
  <2> DEFINE j == tree.java
  <2> DEFINE u == tree.unsupported
  <2> DEFINE k == tree.unknown
  <2>1. p \in Nat /\ j \in Nat /\ u \in Nat /\ k \in Nat
    BY <1>1
  <2>2. (p + j) + (u + k) = 0 => p + j = 0
    <3> HIDE DEF p, j, u, k
    <3> QED BY <2>1
  <2> QED BY <1>2, <2>2
<1> QED BY <1>5, <1>6, <1>7

(* Files and rows agree between any two steps.                             *)
THEOREM FilesAndRowsAlwaysAgree == Spec => []FilesAndRowsAgree
<1>1. IInv => RefusedUploadLeavesNothing
  BY DEF IInv, Safe, UploadInv, RefusedUploadLeavesNothing
<1>2. IInv => ScanAddsUp
  BY PresentIsScanned, ScanCounts DEF ScanAddsUp
<1>3. IInv => RefusedUploadLeavesNothing /\ ScanAddsUp
  BY <1>1, <1>2
<1> QED BY <1>3, TypeCorrect, RowsAlwaysHaveFiles, InvariantHolds, PTL DEF FilesAndRowsAgree

(* A directory left over has one of six causes, whatever the order in      *)
(* which requests and restarts come.                                       *)
THEOREM LeaksAlwaysExplained == Spec => []LeaksAreExplained
<1>1. IInv => LeaksAreExplained
  <2> SUFFICES ASSUME IInv, NEW r \in Repositories,
                      dir[r] # "absent", row[r].state # "present", ~AtWork(r), pc[r] # "dead"
               PROVE  \/ r \in Imports /\ answer[r] \in {422, 504, 500}
                      \/ r \in Uploads /\ answer[r] = 500
                      \/ Explained(r)
    BY DEF LeaksAreExplained, Explained
  <2>1. pc[r] = "answered"
    BY DEF AtWork, IInv, Safe, MakerInv
  <2>2. CASE row[r] = Absent
    BY <2>1, <2>2, KindsApart DEF IInv, Safe, UploadInv, ImportInv
  <2>3. CASE row[r] = Deleted
    BY <2>3 DEF IInv, Safe, LeftoverInv
  <2>4. \A tree : Scan(tree).state = "present"
    BY DEF Scan
  <2>5. row[r] = Absent \/ row[r] = Deleted
    BY <2>4 DEF IInv, Safe, RowInv
  <2> QED BY <2>2, <2>3, <2>5
<1> QED BY <1>1, InvariantHolds, PTL

(* Of an archive that is unpacked, no member leads out of the directory,   *)
(* no prefix of the members is too big, and they are not too many.         *)
LEMMA UnpackedIsWithinLimits ==
  ASSUME NEW a \in Archives, ExtractStatus(a) = 200
  PROVE  /\ Len(a.members) <= MaxFiles
         /\ \A i \in DOMAIN a.members :
              DeclaredBytes(a.members, i) <= MaxBytes /\ ~a.members[i].escapes
<1>1. CASE ~a.zip
  BY <1>1 DEF ExtractStatus
<1>2. CASE a.zip /\ Offences(a.members) # {}
  BY <1>2 DEF ExtractStatus
<1>3. CASE a.zip /\ Offences(a.members) = {}
  <2>1. Len(a.members) \in Nat
    BY IngestionAssumption
  <2>2. Len(a.members) <= MaxFiles
    BY <1>3, <2>1, IngestionAssumption DEF ExtractStatus
  <2> QED BY <1>3, <2>2 DEF Offences
<1> QED BY <1>1, <1>2, <1>3

(* What was accepted from an archive is within every limit.                *)
THEOREM AcceptedAlwaysWithinLimits == Spec => []AcceptedIsWithinLimits
<1>1. IInv => AcceptedIsWithinLimits
  BY UnpackedIsWithinLimits DEF IInv, Safe, UploadInv, AcceptedIsWithinLimits
<1> QED BY <1>1, InvariantHolds, PTL

(* A deletion that says the files are gone is right, for any number of     *)
(* deletions of one repository and of test runs under way.                 *)
THEOREM CleanedAlwaysMeansGone == Spec => []CleanedMeansGone
<1>1. IInv => CleanedMeansGone
  BY DEF IInv, Safe, DeleteInv, CleanedMeansGone
<1> QED BY <1>1, InvariantHolds, PTL

(* A row is stored once, after its sources, and is deleted for good, for   *)
(* any requests at work across its deletion: a step that writes a row      *)
(* takes it from absent to present or from present to deleted.             *)
THEOREM RowsAlwaysGoOneWay == Spec => RowsGoOneWay
<1> DEFINE OneWay ==
             \A r \in Repositories : row'[r] # row[r] =>
               \/ row[r] = Absent /\ row'[r].state = "present" /\ dir[r] = "sources"
               \/ row[r].state = "present" /\ row'[r] = Deleted
<1>1. ASSUME IInv, NEW r \in Repositories, Store(r) PROVE OneWay
  <2>1. row[r] = Absent /\ dir[r] = "sources"
    BY <1>1 DEF Store, IInv, Safe, MakerInv
  <2>2. row' = [row EXCEPT ![r] = Scan(input[r].tree)] /\ row \in [Repositories -> Rows]
    BY <1>1 DEF Store, IInv, Typed
  <2>3. Scan(input[r].tree).state = "present"
    BY DEF Scan
  <2>4. row'[r].state = "present" /\ \A s \in Repositories \ {r} : row'[s] = row[s]
    BY <2>2, <2>3
  <2> QED BY <2>1, <2>4
<1>2. ASSUME IInv, NEW d \in Deletes, CommitDeletion(d) PROVE OneWay
  <2>1. /\ input[d] \in Repositories /\ row[input[d]] # Absent
        /\ row' = [row EXCEPT ![input[d]] = Deleted] /\ row \in [Repositories -> Rows]
    BY <1>2 DEF CommitDeletion, IInv, Safe, DeleteInv, Typed, Deleted
  <2>2. row[input[d]].state = "present" \/ row[input[d]] = Deleted
    <3>1. \A tree : Scan(tree).state = "present"
      BY DEF Scan
    <3> QED BY <1>2, <2>1, <3>1 DEF IInv, Safe, RowInv
  <2>3. row'[input[d]] = Deleted /\ \A s \in Repositories \ {input[d]} : row'[s] = row[s]
    BY <2>1
  <2> QED BY <2>2, <2>3
<1>3. ASSUME UNCHANGED row PROVE OneWay
  BY <1>3
<1>4. ASSUME IInv, NEW r \in Requests, Step(r) PROVE OneWay
  <2>1. CASE r \in Repositories /\ Store(r)
    BY <1>1, <1>4, <2>1
  <2>2. CASE r \in Deletes /\ CommitDeletion(r)
    BY <1>2, <1>4, <2>2
  <2>3. CASE ~(r \in Repositories /\ Store(r)) /\ ~(r \in Deletes /\ CommitDeletion(r))
    <3>1. UNCHANGED row
      BY <1>4, <2>3 DEF Step, StreamChunk, StreamEnd, ExtractArchive, RefuseArchive,
         ExtractRaises, Clone, StoreFails, Refresh, DeletionRefused, CheckWorkdir,
         RemoveWorkdir, LocateSources, StageTests, StoreTestRun
    <3> QED BY <3>1, <1>3
  <2> QED BY <2>1, <2>2, <2>3
<1>5. ASSUME IInv, [Next]_vars PROVE OneWay
  <2>1. CASE \E r \in Requests : Step(r)
    BY <1>4, <1>5, <2>1
  <2>2. CASE ~ \E r \in Requests : Step(r)
    <3>1. UNCHANGED row
      BY <1>5, <2>2 DEF Next, vars, MakeWorkdir, ValidateUrl, ReadRepository, ReadTested, Restart
    <3> QED BY <3>1, <1>3
  <2> QED BY <2>1, <2>2
<1>6. IInv /\ [Next]_vars => [OneWay]_vars
  BY <1>5
<1> QED BY <1>6, InvariantHolds, PTL DEF Spec, RowsGoOneWay, Deleted
==============================================================================
