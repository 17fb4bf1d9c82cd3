--------------------------- MODULE SandboxRunProofs ---------------------------
(***************************************************************************)
(* Theorems of SandboxRun, for any programs, any limit of the output, and  *)
(* any size of a chunk and of a pipe.                                      *)
(*                                                                         *)
(* Flow follows a unit of output from the program to what is kept of it:   *)
(* kept, in the pipe and still to be written are, in this order, a split   *)
(* of what the program writes, for as long as its client lives.  Clients   *)
(* says how a client can have ended before the time-out: with its program, *)
(* because the daemon refused, or by the kill of a reader whose flag is    *)
(* then already set.  Reported is what Return makes of both.               *)
(***************************************************************************)
EXTENDS SandboxRun, SequenceTheorems, NaturalsInduction, WellFoundedInduction,
        TLAPS

Launched == main # "stage" /\ docker /\ program.fits

(* A thread that still keeps what it reads, or has read it all.            *)
Alive(s) == reader[s].pc \in {"none", "reading", "ended"} /\ ~reader[s].exceeded

Readers == [pc : {"none", "reading", "killing", "killed", "ended", "died"},
            data : Seq(Units), exceeded : BOOLEAN]

Typed ==
  /\ docker \in BOOLEAN /\ program \in Programs /\ missed \in BOOLEAN
  /\ todo \in [Streams -> Seq(Units)] /\ pipe \in [Streams -> Seq(Units)]
  /\ reader \in [Streams -> Readers]
  /\ container \in {"none", "starting", "running", "gone"}
  /\ client \in {None, Running} \union 0 .. 255
  /\ main \in {"stage", "wait", "killClient", "join", "joinLate", "returned"}
  /\ result \in Reports \union {None}
  /\ main = "returned" <=> result # None

Phases ==
  /\ ~Launched => container = "none" /\ client = None /\ \A s \in Streams : reader[s].pc = "none"
  /\ Launched => container # "none" /\ client # None /\ \A s \in Streams : reader[s].pc # "none"
  /\ main \notin {"stage", "returned"} => Launched
  /\ main \in {"join", "joinLate"} => client # Running
  /\ container \in {"none", "starting"} => todo = Written

InTime == main \in {"stage", "wait", "join"}

(* What is kept of a stream, what is in its pipe and what is still to be   *)
(* written are the beginning, the middle and the end of what the program   *)
(* writes; they are all of it while the client lives, and in time.         *)
Within(s) == Len(reader[s].data) <= Limit /\ Len(pipe[s]) <= PipeSize

KeptFirst(s) ==
  /\ Len(reader[s].data) <= Len(Written[s])
  /\ \A i \in 1 .. Len(reader[s].data) : reader[s].data[i] = Written[s][i]

TodoLast(s) ==
  /\ Len(todo[s]) <= Len(Written[s])
  /\ \A i \in 1 .. Len(todo[s]) : todo[s][i] = Written[s][Len(Written[s]) - Len(todo[s]) + i]

PipeNext(s) ==
  Alive(s) =>
    /\ Len(reader[s].data) + Len(pipe[s]) <= Len(Written[s])
    /\ \A i \in 1 .. Len(pipe[s]) : pipe[s][i] = Written[s][Len(reader[s].data) + i]

NothingLost(s) ==
  Alive(s) /\ (client = Running \/ InTime) =>
    Len(reader[s].data) + Len(pipe[s]) + Len(todo[s]) = Len(Written[s])

Ends(s) ==
  /\ reader[s].pc = "ended" => Len(pipe[s]) = 0 /\ client # Running
  /\ reader[s].pc \in {"killing", "killed"} => reader[s].exceeded
  /\ reader[s].exceeded => Len(Written[s]) > Limit

Flow(s) ==
  Within(s) /\ KeptFirst(s) /\ TodoLast(s) /\ PipeNext(s) /\ NothingLost(s) /\ Ends(s)

Natural ==
  /\ client = program.exit /\ ~program.hangs /\ container = "gone"
  /\ \A s \in Streams : todo[s] = <<>>

Refused == client = EXIT_RESOURCE_LIMIT /\ container = "gone" /\ todo = Written

Clients ==
  /\ InTime /\ client # Running => container \in {"none", "gone"}
  /\ main \in {"wait", "join"} /\ client # Running =>
       Natural \/ Refused \/ \E s \in Streams : reader[s].exceeded
  /\ ~InTime /\ container \in {"starting", "running"} => missed

Finished(s) == reader[s].pc \in {"ended", "died"}

Reported ==
  result # None =>
    /\ result.timedOut => result.code = EXIT_TIMEOUT
    /\ result.code = EXIT_TIMEOUT => result.timedOut \/ program.exit = EXIT_TIMEOUT
    /\ result.code = EXIT_OOM => program.exit = EXIT_OOM
    /\ result.code = EXIT_RESOURCE_LIMIT =>
         \/ ~program.fits \/ program.exit = EXIT_RESOURCE_LIMIT
         \/ \E s \in Streams : Len(Written[s]) > Limit
         \/ todo = Written /\ container \in {"none", "gone"}
    /\ Launched => \A s \in Streams : reader[s].exceeded \/ Finished(s)
    /\ result.status = "passed" /\ (docker \/ program.language = "python") =>
         program.exit = 0 /\ ~program.hangs
    /\ result.status = "passed" /\ docker =>
         /\ program.fits /\ container = "gone"
         /\ \A s \in Streams : /\ todo[s] = <<>> /\ Finished(s)
                               /\ reader[s].pc = "ended" => reader[s].data = Written[s]
    /\ result.coverage = "forged" =>
         ForgedLast(program.out) \/ ~Contains(reader["out"].data, "coverage")

(* The inductive invariant.                                                *)
IInv == Typed /\ Phases /\ (\A s \in Streams : Flow(s)) /\ Clients /\ Reported
------------------------------------------------------------------------------
(* Sequences.                                                              *)

(* A set of positions that is not empty has a last one.                    *)
LEMMA LastPosition ==
  ASSUME NEW n \in Nat, NEW I \in SUBSET (1 .. n), I # {}
  PROVE  Max(I) \in I /\ \A i \in I : i <= Max(I)
<1> DEFINE Less == OpToRel(<, Nat)
           T == {n - i : i \in I}
<1>1. T \subseteq Nat /\ T # {}
  <2>1. \A i \in I : n - i \in Nat
    OBVIOUS
  <2> QED BY <2>1
<1>2. IsWellFoundedOn(Less, Nat)
  BY NatLessThanWellFounded
<1>3. PICK x \in T : \A y \in T : ~ (<<y, x>> \in Less)
  <2> HIDE DEF T, Less
  <2> QED BY <1>1, <1>2, WFMin
<1>4. \A y \in T : ~ (y < x)
  BY <1>1, <1>3 DEF OpToRel
<1>5. PICK m \in I : x = n - m
  OBVIOUS
<1>6. \A i \in I : m >= i
  <2> TAKE i \in I
  <2>1. n - i \in T
    OBVIOUS
  <2>2. ~ (n - i < n - m)
    BY <2>1, <1>4, <1>5
  <2>3. i \in Int /\ m \in Int
    OBVIOUS
  <2> HIDE DEF T
  <2> QED BY <2>2, <2>3
<1>7. \E max \in I : \A y \in I : max >= y
  BY <1>6
<1>8. Max(I) \in I /\ \A y \in I : Max(I) >= y
  BY <1>7 DEF Max
<1> QED BY <1>8

(* The last report among what was kept is taken; where a forged one is,    *)
(* the run's own is missing or came before it.                             *)
LEMMA CoverageTaken ==
  ASSUME NEW data \in Seq(Units)
  PROVE  /\ ExtractCoverage(data) \in {"coverage", "forged", None}
         /\ ExtractCoverage(data) = "forged" => ForgedLast(data) \/ ~Contains(data, "coverage")
<1> DEFINE I == {i \in 1 .. Len(data) : data[i] \in {"forged", "coverage"}}
<1>1. Len(data) \in Nat /\ I \in SUBSET (1 .. Len(data))
  BY LenProperties
<1>2. ExtractCoverage(data) = IF I # {} THEN (IF Max(I) = 0 THEN None ELSE data[Max(I)]) ELSE None
  BY DEF ExtractCoverage, SelectLastInSeq
<1>3. CASE I = {}
  <2>1. ExtractCoverage(data) = None /\ None # "forged"
    BY <1>2, <1>3, SandboxAssumption DEF Units
  <2> QED BY <2>1
<1>4. CASE I # {}
  <2>1. Max(I) \in I /\ \A i \in I : i <= Max(I)
    <3> HIDE DEF I
    <3> QED BY <1>1, <1>4, LastPosition
  <2>2. ExtractCoverage(data) = data[Max(I)] /\ data[Max(I)] \in {"forged", "coverage"}
    BY <1>2, <1>4, <2>1
  <2>3. ASSUME data[Max(I)] = "forged", NEW j \in 1 .. Len(data), data[j] = "coverage"
        PROVE  ForgedLast(data)
    <3>1. j \in I
      BY <2>3
    <3>2. j <= Max(I) /\ j # Max(I) /\ Max(I) \in 1 .. Len(data)
      BY <2>1, <2>3, <3>1
    <3>3. j < Max(I)
      BY <3>2
    <3> QED BY <2>3, <3>2, <3>3 DEF ForgedLast
  <2> QED BY <2>2, <2>3 DEF Contains
<1> QED BY <1>3, <1>4

(* What all of the output is, of each stream.                              *)
LEMMA WrittenType ==
  ASSUME Typed
  PROVE  Written \in [Streams -> Seq(Units)] /\ Written["out"] = program.out
<1>1. program.out \in Seq(Units) /\ program.err \in Seq(Units)
  BY SandboxAssumption DEF Typed
<1> QED BY <1>1 DEF Written, Streams

LEMMA Sizes ==
  Limit \in Nat /\ Limit >= 1 /\ Chunk \in Nat /\ Chunk >= 1 /\ PipeSize \in Nat
BY SandboxAssumption

(* Lengths are numbers.                                                    *)
LEMMA Lengths ==
  ASSUME Typed, NEW s \in Streams
  PROVE  /\ Len(Written[s]) \in Nat /\ Len(todo[s]) \in Nat /\ Len(pipe[s]) \in Nat
         /\ Len(reader[s].data) \in Nat /\ reader[s].data \in Seq(Units)
         /\ Written[s] \in Seq(Units) /\ todo[s] \in Seq(Units) /\ pipe[s] \in Seq(Units)
         /\ Limit \in Nat /\ PipeSize \in Nat /\ Chunk \in Nat /\ Chunk >= 1
<1>1. /\ Written[s] \in Seq(Units) /\ todo[s] \in Seq(Units) /\ pipe[s] \in Seq(Units)
      /\ reader[s].data \in Seq(Units)
  BY WrittenType DEF Typed, Readers
<1>2. \A q \in Seq(Units) : Len(q) \in Nat
  BY LenProperties
<1> QED BY <1>1, <1>2, Sizes

(* What a read takes is the front of the pipe, and nothing only when there *)
(* is nothing.                                                             *)
LEMMA TakenProperties ==
  ASSUME Typed, NEW s \in Streams
  PROVE  /\ Taken(s) \in Seq(Units) /\ Len(Taken(s)) \in Nat
         /\ Len(Taken(s)) <= Len(pipe[s])
         /\ \A i \in 1 .. Len(Taken(s)) : Taken(s)[i] = pipe[s][i]
         /\ Taken(s) = <<>> => Len(pipe[s]) = 0
<1> DEFINE n == IF Len(pipe[s]) < Chunk THEN Len(pipe[s]) ELSE Chunk
<1>1. n \in Nat /\ n <= Len(pipe[s]) /\ (n = 0 => Len(pipe[s]) = 0)
  BY Lengths
<1>2. Taken(s) = SubSeq(pipe[s], 1, n)
  BY DEF Taken
<1> HIDE DEF n
<1>3. \A i \in 1 .. n : pipe[s][i] \in Units
  BY <1>1, Lengths, ElementOfSeq
<1>4. /\ SubSeq(pipe[s], 1, n) \in Seq(Units)
      /\ Len(SubSeq(pipe[s], 1, n)) = IF 1 <= n THEN n - 1 + 1 ELSE 0
      /\ \A i \in 1 .. n - 1 + 1 : SubSeq(pipe[s], 1, n)[i] = pipe[s][1 + i - 1]
  BY <1>1, <1>3, SubSeqProperties
<1>5. Len(Taken(s)) = n
  BY <1>1, <1>2, <1>4
<1>6. ASSUME NEW i \in 1 .. n PROVE Taken(s)[i] = pipe[s][i]
  <2>1. i \in 1 .. n - 1 + 1 /\ 1 + i - 1 = i
    BY <1>1, <1>6
  <2>2. Taken(s)[i] = pipe[s][1 + i - 1]
    BY <1>2, <1>4, <2>1
  <2> QED BY <2>1, <2>2
<1>7. Taken(s) = <<>> => n = 0
  BY <1>5, EmptySeq
<1> QED BY <1>1, <1>2, <1>4, <1>5, <1>6, <1>7

(* What a read leaves in the pipe.                                         *)
LEMMA LeftProperties ==
  ASSUME Typed, NEW s \in Streams, NEW n \in 0 .. Len(pipe[s])
  PROVE  LET left == SubSeq(pipe[s], n + 1, Len(pipe[s]))
         IN  /\ left \in Seq(Units) /\ Len(left) = Len(pipe[s]) - n
             /\ \A i \in 1 .. Len(left) : left[i] = pipe[s][n + i]
<1> DEFINE len == Len(pipe[s])
           left == SubSeq(pipe[s], n + 1, len)
<1>1. len \in Nat /\ n \in Nat /\ n <= len
  BY Lengths
<1>2. \A i \in n + 1 .. len : pipe[s][i] \in Units
  BY <1>1, Lengths, ElementOfSeq
<1>3. /\ left \in Seq(Units) /\ Len(left) = IF n + 1 <= len THEN len - (n + 1) + 1 ELSE 0
      /\ \A i \in 1 .. len - (n + 1) + 1 : left[i] = pipe[s][n + 1 + i - 1]
  BY <1>1, <1>2, SubSeqProperties
<1> HIDE DEF left, len
<1>4. Len(left) = len - n
  BY <1>1, <1>3
<1>5. ASSUME NEW i \in 1 .. Len(left) PROVE left[i] = pipe[s][n + i]
  <2>1. i \in 1 .. len - (n + 1) + 1 /\ n + 1 + i - 1 = n + i
    BY <1>1, <1>4, <1>5
  <2>2. left[i] = pipe[s][n + 1 + i - 1]
    BY <1>3, <2>1
  <2> QED BY <2>1, <2>2
<1> QED BY <1>3, <1>4, <1>5 DEF left, len

(* What is kept of a chunk: all of it, or what there is room for and the   *)
(* flag before the kill.                                                   *)
LEMMA KeepProperties ==
  ASSUME NEW r \in Readers, NEW chunk \in Seq(Units), Len(r.data) <= Limit
  PROVE  LET k == Keep(r, chunk)
             m == Len(k.data) - Len(r.data)
         IN  /\ k \in Readers /\ Len(k.data) <= Limit
             /\ m \in 0 .. Len(chunk)
             /\ \A i \in 1 .. Len(r.data) : k.data[i] = r.data[i]
             /\ \A i \in 1 .. m : k.data[Len(r.data) + i] = chunk[i]
             /\ k.exceeded <=> Len(r.data) + Len(chunk) > Limit
             /\ k.pc = IF k.exceeded THEN "killing" ELSE "reading"
             /\ ~k.exceeded => m = Len(chunk)
<1> DEFINE k == Keep(r, chunk)
           room == Limit - Len(r.data)
           over == Len(chunk) > room
           n == IF over THEN room ELSE Len(chunk)
           part == SubSeq(chunk, 1, n)
<1>1. /\ Len(chunk) \in Nat /\ Len(r.data) \in Nat /\ r.data \in Seq(Units)
      /\ room \in Nat /\ Limit \in Nat
  <2>1. r.data \in Seq(Units)
    BY DEF Readers
  <2>2. Len(chunk) \in Nat /\ Len(r.data) \in Nat
    BY <2>1, LenProperties
  <2> QED BY <2>1, <2>2, Sizes
<1>2. n \in Nat /\ n <= Len(chunk) /\ n <= room /\ (~over => n = Len(chunk))
  <2> DEFINE len == Len(chunk)
  <2>1. len \in Nat /\ room \in Nat
    BY <1>1
  <2> HIDE DEF len, room
  <2>2. n = IF len > room THEN room ELSE len
    BY DEF len
  <2>3. n \in Nat /\ n <= len /\ n <= room /\ (~ (len > room) => n = len)
    BY <2>1, <2>2
  <2> QED BY <2>3 DEF len
<1>3. k = [r EXCEPT !.data = r.data \o part, !.exceeded = over,
                    !.pc = IF over THEN "killing" ELSE "reading"]
  BY DEF Keep
<1>4. over <=> Len(r.data) + Len(chunk) > Limit
  BY <1>1
<1> HIDE DEF over, n, part, k
<1>5. \A i \in 1 .. n : chunk[i] \in Units
  BY <1>1, <1>2, ElementOfSeq
<1>6. /\ part \in Seq(Units) /\ Len(part) = IF 1 <= n THEN n - 1 + 1 ELSE 0
      /\ \A i \in 1 .. n - 1 + 1 : part[i] = chunk[1 + i - 1]
  BY <1>2, <1>5, SubSeqProperties DEF part
<1>7. Len(part) = n
  BY <1>2, <1>6
<1>8. \A i \in 1 .. n : part[i] = chunk[i]
  <2> TAKE i \in 1 .. n
  <2>1. i \in 1 .. n - 1 + 1 /\ 1 + i - 1 = i
    BY <1>2
  <2>2. part[i] = chunk[1 + i - 1]
    BY <1>6, <2>1
  <2> QED BY <2>1, <2>2
<1>9. /\ r.data \o part \in Seq(Units) /\ Len(r.data \o part) = Len(r.data) + Len(part)
      /\ \A i \in 1 .. Len(r.data) + Len(part) :
           (r.data \o part)[i] = IF i <= Len(r.data) THEN r.data[i] ELSE part[i - Len(r.data)]
  BY <1>1, <1>6, ConcatProperties
<1>10. /\ k.data = r.data \o part /\ (k.exceeded <=> over)
       /\ k.pc = IF over THEN "killing" ELSE "reading"
  BY <1>3 DEF Readers
<1>11. k \in Readers
  <2>1. over \in BOOLEAN
    BY DEF over
  <2> QED BY <1>3, <1>9, <2>1 DEF Readers
<1>12. \A i \in 1 .. Len(r.data) : k.data[i] = r.data[i]
  BY <1>1, <1>2, <1>7, <1>9, <1>10
<1>13. Len(k.data) - Len(r.data) = n
  BY <1>1, <1>2, <1>7, <1>9, <1>10
<1>14. \A i \in 1 .. n : k.data[Len(r.data) + i] = chunk[i]
  <2> TAKE i \in 1 .. n
  <2>1. /\ Len(r.data) + i \in 1 .. Len(r.data) + Len(part)
        /\ ~ (Len(r.data) + i <= Len(r.data)) /\ Len(r.data) + i - Len(r.data) = i
    BY <1>1, <1>2, <1>7
  <2>2. k.data[Len(r.data) + i] = part[Len(r.data) + i - Len(r.data)]
    BY <1>9, <1>10, <2>1
  <2> QED BY <2>1, <2>2, <1>8
<1>15. Len(k.data) <= Limit
  BY <1>1, <1>2, <1>13, <1>7, <1>9, <1>10
<1> DEFINE m == Len(k.data) - Len(r.data)
<1>16. m \in 0 .. Len(chunk) /\ \A i \in 1 .. m : k.data[Len(r.data) + i] = chunk[i]
  BY <1>1, <1>2, <1>13, <1>14
<1>17. ~k.exceeded => m = Len(chunk)
  BY <1>2, <1>10, <1>13
<1>18. /\ k.exceeded <=> Len(r.data) + Len(chunk) > Limit
       /\ k.pc = IF k.exceeded THEN "killing" ELSE "reading"
  BY <1>4, <1>10
<1>19. k = Keep(r, chunk)
  BY DEF k
<1> HIDE DEF m
<1>20. m = Len(k.data) - Len(r.data)
  BY DEF m
<1> QED BY <1>11, <1>12, <1>15, <1>16, <1>17, <1>18, <1>19, <1>20
------------------------------------------------------------------------------
(* The steps.                                                              *)

(* What is written is fixed with the program.                              *)
LEMMA WrittenFixed ==
  ASSUME program' = program
  PROVE  Written' = Written
BY DEF Written

(* The flow of a stream is as it was when nothing of it has moved, and its *)
(* client has not begun.                                                   *)
LEMMA FlowFrame ==
  ASSUME NEW s \in Streams, Flow(s), program' = program, todo'[s] = todo[s],
         pipe'[s] = pipe[s], reader'[s] = reader[s],
         client' = Running => client = Running,
         InTime' => InTime \/ client = Running
  PROVE  Flow(s)'
<1>1. Written'[s] = Written[s]
  BY WrittenFixed
<1>2. Alive(s)' <=> Alive(s)
  BY DEF Alive
<1> QED BY <1>1, <1>2 DEF Flow, Within, KeptFirst, TodoLast, PipeNext, NothingLost, Ends

(* What a report says.                                                     *)
LEMMA ReportSays ==
  ASSUME NEW code \in 0 .. 255, NEW timedOut \in BOOLEAN,
         NEW coverage \in {"coverage", "forged", "fabricated", None},
         NEW tests \in {"counted", "fabricated", None},
         Report(code, timedOut, coverage, tests)
  PROVE  /\ main' = "returned" /\ result' \in Reports
         /\ result'.code = code /\ result'.timedOut = timedOut /\ result'.coverage = coverage
         /\ result'.status = "passed" => code = 0 /\ ~timedOut
<1> DEFINE status == IF code = 0 /\ ~timedOut THEN "passed" ELSE "failed"
<1>1. main' = "returned" /\ result' = [code |-> code, timedOut |-> timedOut,
        coverage |-> coverage, tests |-> tests, status |-> status]
  BY DEF Report
<1>2. status \in {"passed", "failed"} /\ (status = "passed" => code = 0 /\ ~timedOut)
  OBVIOUS
<1> HIDE DEF status
<1> QED BY <1>1, <1>2 DEF Reports

(* A run that is refused or is local has no container, and its report is   *)
(* read from its files.                                                    *)
LEMMA ReportedWithoutContainer ==
  ASSUME IInv, main = "stage", ~ (docker /\ program.fits),
         UNCHANGED <<docker, program, todo, pipe, container, client, reader, missed>>,
         main' = "returned", result' \in Reports, result'.coverage # "forged",
         result'.timedOut => result'.code = EXIT_TIMEOUT,
         result'.code = EXIT_TIMEOUT => result'.timedOut \/ program.exit = EXIT_TIMEOUT,
         result'.code = EXIT_OOM => program.exit = EXIT_OOM,
         result'.code = EXIT_RESOURCE_LIMIT =>
           ~program.fits \/ program.exit = EXIT_RESOURCE_LIMIT,
         result'.status = "passed" =>
           ~docker /\ (program.language = "python" => program.exit = 0 /\ ~program.hangs)
  PROVE  IInv'
<1>1. result' # None
  BY SandboxAssumption
<1>2. Typed'
  BY <1>1 DEF IInv, Typed
<1>3. ~Launched /\ ~Launched'
  BY DEF Launched
<1>4. Phases'
  BY <1>3, WrittenFixed DEF IInv, Phases
<1>5. \A s \in Streams : Flow(s)'
  <2> TAKE s \in Streams
  <2>1. ~InTime'
    BY DEF InTime
  <2> QED BY <2>1, FlowFrame DEF IInv
<1>6. Clients'
  BY <1>3 DEF IInv, Phases, Clients, InTime
<1>7. Reported'
  BY <1>3 DEF Reported
<1> QED BY <1>2, <1>4, <1>5, <1>6, <1>7 DEF IInv

LEMMA StageRefusesSafe ==
  ASSUME IInv, StageRefuses
  PROVE  IInv'
<1>1. /\ main = "stage" /\ ~program.fits /\ Report(EXIT_RESOURCE_LIMIT, FALSE, None, None)
      /\ UNCHANGED <<docker, program, todo, pipe, container, client, reader, missed>>
  BY DEF StageRefuses
<1>2. EXIT_RESOURCE_LIMIT \in 0 .. 255 /\ EXIT_RESOURCE_LIMIT \notin {0, EXIT_TIMEOUT, EXIT_OOM}
  BY DEF EXIT_RESOURCE_LIMIT, EXIT_TIMEOUT, EXIT_OOM
<1>3. /\ main' = "returned" /\ result' \in Reports /\ result'.code = EXIT_RESOURCE_LIMIT
      /\ result'.timedOut = FALSE /\ result'.coverage = None /\ result'.status # "passed"
  BY <1>1, <1>2, ReportSays
<1>4. None # "forged"
  BY SandboxAssumption DEF Units
<1> QED BY <1>1, <1>2, <1>3, <1>4, ReportedWithoutContainer

LEMMA RunLocallySafe ==
  ASSUME IInv, RunLocally
  PROVE  IInv'
<1>1. /\ main = "stage" /\ ~docker
      /\ UNCHANGED <<docker, program, todo, pipe, container, client, reader, missed>>
  BY DEF RunLocally
<1>2. EXIT_RESOURCE_LIMIT = 125 /\ EXIT_TIMEOUT = 124 /\ EXIT_OOM = 137
  BY DEF EXIT_RESOURCE_LIMIT, EXIT_TIMEOUT, EXIT_OOM
<1>3. program.exit \in 0 .. 255 /\ program.language \in {"python", "java"}
  BY SandboxAssumption DEF IInv, Typed
<1>4. None # "forged"
  BY SandboxAssumption DEF Units
<1>5. CASE program.language = "java" /\ Report(0, FALSE, "fabricated", "fabricated")
  <2>1. /\ main' = "returned" /\ result' \in Reports /\ result'.code = 0
        /\ result'.timedOut = FALSE /\ result'.coverage = "fabricated"
    <3>1. /\ 0 \in 0 .. 255 /\ FALSE \in BOOLEAN
          /\ "fabricated" \in {"coverage", "forged", "fabricated", None}
          /\ "fabricated" \in {"counted", "fabricated", None}
      OBVIOUS
    <3> QED BY <1>5, <3>1, ReportSays
  <2> QED BY <1>1, <1>2, <1>5, <2>1, ReportedWithoutContainer
<1>6. CASE Report(EXIT_TIMEOUT, TRUE, None, None)
  <2>1. /\ main' = "returned" /\ result' \in Reports /\ result'.code = 124
        /\ result'.timedOut = TRUE /\ result'.coverage = None /\ result'.status # "passed"
    <3>1. /\ 124 \in 0 .. 255 /\ TRUE \in BOOLEAN
          /\ None \in {"coverage", "forged", "fabricated", None}
          /\ None \in {"counted", "fabricated", None}
      OBVIOUS
    <3>2. Report(124, TRUE, None, None)
      BY <1>2, <1>6
    <3> QED BY <3>1, <3>2, ReportSays
  <2> QED BY <1>1, <1>2, <1>4, <2>1, ReportedWithoutContainer
<1>7. CASE Report(1, FALSE, None, None)
  <2>1. /\ main' = "returned" /\ result' \in Reports /\ result'.code = 1
        /\ result'.timedOut = FALSE /\ result'.coverage = None /\ result'.status # "passed"
    <3>1. /\ 1 \in 0 .. 255 /\ FALSE \in BOOLEAN
          /\ None \in {"coverage", "forged", "fabricated", None}
          /\ None \in {"counted", "fabricated", None}
      OBVIOUS
    <3>2. /\ main' = "returned" /\ result' \in Reports /\ result'.code = 1
          /\ result'.timedOut = FALSE /\ result'.coverage = None
          /\ result'.status = "passed" => 1 = 0 /\ ~FALSE
      BY <1>7, <3>1, ReportSays
    <3> QED BY <3>2
  <2> QED BY <1>1, <1>2, <1>4, <2>1, ReportedWithoutContainer
<1>8. CASE /\ ~program.hangs
           /\ \E coverage \in {"coverage", None}, tests \in {"counted", None} :
                Report(program.exit, FALSE, coverage, tests)
  <2>1. PICK coverage \in {"coverage", None}, tests \in {"counted", None} :
          Report(program.exit, FALSE, coverage, tests)
    BY <1>8
  <2>2. /\ main' = "returned" /\ result' \in Reports /\ result'.code = program.exit
        /\ result'.timedOut = FALSE /\ result'.coverage = coverage
        /\ result'.status = "passed" => program.exit = 0
    BY <1>3, <2>1, ReportSays
  <2>3. coverage # "forged"
    BY <1>4
  <2> QED BY <1>1, <1>2, <1>8, <2>2, <2>3, ReportedWithoutContainer
<1> QED BY <1>5, <1>6, <1>7, <1>8 DEF RunLocally

LEMMA LaunchSafe ==
  ASSUME IInv, Launch
  PROVE  IInv'
<1>1. /\ main = "stage" /\ program.fits /\ docker
      /\ container' = "starting" /\ client' = Running /\ main' = "wait"
      /\ reader' = [s \in Streams |-> [reader[s] EXCEPT !.pc = "reading"]]
      /\ UNCHANGED <<docker, program, todo, pipe, missed, result>>
  BY DEF Launch
<1>2. \A s \in Streams : /\ reader'[s].pc = "reading" /\ reader'[s].data = reader[s].data
                         /\ reader'[s].exceeded = reader[s].exceeded
                         /\ reader'[s] \in Readers /\ reader[s].pc = "none"
  BY <1>1 DEF IInv, Typed, Readers, Phases, Launched
<1>3. reader' \in [Streams -> Readers]
  BY <1>1, <1>2
<1>4. Typed'
  BY <1>1, <1>3 DEF IInv, Typed
<1>5. Phases'
  <2>1. todo = Written /\ Written' = Written
    BY <1>1, WrittenFixed DEF IInv, Phases, Launched
  <2> QED BY <1>1, <1>2, <2>1, SandboxAssumption DEF Phases, Launched
<1>6. \A s \in Streams : Flow(s)'
  <2> TAKE s \in Streams
  <2>1. Written'[s] = Written[s]
    BY <1>1, WrittenFixed
  <2>2. Alive(s)' <=> Alive(s)
    BY <1>2 DEF Alive
  <2>3. Flow(s) /\ InTime
    BY <1>1 DEF IInv, InTime
  <2>4. /\ todo'[s] = todo[s] /\ pipe'[s] = pipe[s] /\ reader'[s].data = reader[s].data
        /\ reader'[s].exceeded = reader[s].exceeded /\ reader'[s].pc = "reading"
    BY <1>1, <1>2
  <2> QED BY <2>1, <2>2, <2>3, <2>4 DEF Flow, Within, KeptFirst, TodoLast, PipeNext, NothingLost, Ends
<1>7. Clients'
  BY <1>1 DEF Clients, InTime
<1>8. Reported'
  BY <1>1 DEF IInv, Typed, Reported
<1> QED BY <1>4, <1>5, <1>6, <1>7, <1>8 DEF IInv

(* A container starts that nobody has killed, or that a kill has missed.   *)
LEMMA StartContainerSafe ==
  ASSUME IInv, StartContainer
  PROVE  IInv'
<1>1. /\ container = "starting" /\ client = Running /\ container' = "running"
      /\ UNCHANGED <<docker, program, todo, pipe, client, reader, main, missed, result>>
  BY DEF StartContainer
<1>2. Typed'
  BY <1>1 DEF IInv, Typed
<1>3. Phases'
  BY <1>1 DEF IInv, Phases, Launched
<1>4. \A s \in Streams : Flow(s)'
  BY <1>1, FlowFrame DEF IInv, InTime
<1>5. Clients'
  BY <1>1 DEF IInv, Clients, InTime
<1>6. Reported'
  BY <1>1, WrittenFixed DEF IInv, Reported, Launched, Finished
<1> QED BY <1>2, <1>3, <1>4, <1>5, <1>6 DEF IInv

LEMMA DaemonRefusesSafe ==
  ASSUME IInv, DaemonRefuses
  PROVE  IInv'
<1>1. /\ container = "starting" /\ client = Running
      /\ container' = "gone" /\ client' = EXIT_RESOURCE_LIMIT
      /\ UNCHANGED <<docker, program, todo, pipe, reader, main, missed, result>>
  BY DEF DaemonRefuses
<1>2. /\ EXIT_RESOURCE_LIMIT \in 0 .. 255 /\ EXIT_RESOURCE_LIMIT # Running
      /\ EXIT_RESOURCE_LIMIT # None
  BY SandboxAssumption DEF EXIT_RESOURCE_LIMIT
<1>3. Typed'
  BY <1>1, <1>2 DEF IInv, Typed
<1>4. Phases'
  BY <1>1, <1>2 DEF IInv, Phases, Launched
<1>5. \A s \in Streams : Flow(s)'
  BY <1>1, <1>2, FlowFrame DEF IInv, InTime
<1>6. Refused'
  BY <1>1, WrittenFixed DEF IInv, Phases, Refused
<1>7. Clients'
  BY <1>1, <1>6 DEF IInv, Clients, InTime
<1>8. Reported'
  BY <1>1, WrittenFixed DEF IInv, Reported, Launched, Finished
<1> QED BY <1>3, <1>4, <1>5, <1>7, <1>8 DEF IInv

(* A unit that is written joins the end of the pipe, or is lost with the   *)
(* client.                                                                 *)
LEMMA WriteSafe ==
  ASSUME IInv, NEW s \in Streams, Write(s)
  PROVE  IInv'
<1>1. /\ container = "running" /\ todo[s] # <<>> /\ todo' = [todo EXCEPT ![s] = Tail(@)]
      /\ UNCHANGED <<docker, program, container, client, reader, main, missed, result>>
  BY DEF Write
<1>2. \/ /\ client = Running /\ Len(pipe[s]) < PipeSize
         /\ pipe' = [pipe EXCEPT ![s] = Append(@, Head(todo[s]))]
      \/ client # Running /\ pipe' = pipe
  BY DEF Write
<1>3. /\ Tail(todo[s]) \in Seq(Units) /\ Len(Tail(todo[s])) = Len(todo[s]) - 1
      /\ \A i \in 1 .. Len(Tail(todo[s])) : Tail(todo[s])[i] = todo[s][i + 1]
      /\ Len(todo[s]) >= 1 /\ Head(todo[s]) \in Units /\ Head(todo[s]) = todo[s][1]
  <2>1. todo[s] \in Seq(Units)
    BY Lengths DEF IInv
  <2> QED BY <1>1, <2>1, HeadTailProperties, EmptySeq
<1>4. /\ Append(pipe[s], Head(todo[s])) \in Seq(Units)
      /\ Len(Append(pipe[s], Head(todo[s]))) = Len(pipe[s]) + 1
      /\ \A i \in 1 .. Len(pipe[s]) : Append(pipe[s], Head(todo[s]))[i] = pipe[s][i]
      /\ Append(pipe[s], Head(todo[s]))[Len(pipe[s]) + 1] = todo[s][1]
  <2>1. pipe[s] \in Seq(Units)
    BY Lengths DEF IInv
  <2> QED BY <1>3, <2>1, AppendProperties
<1>5. /\ todo' \in [Streams -> Seq(Units)] /\ pipe' \in [Streams -> Seq(Units)]
      /\ todo'[s] = Tail(todo[s])
      /\ \A t \in Streams \ {s} : todo'[t] = todo[t] /\ pipe'[t] = pipe[t]
  BY <1>1, <1>2, <1>3, <1>4 DEF IInv, Typed
<1>6. Typed'
  BY <1>1, <1>5 DEF IInv, Typed
<1>7. Phases'
  BY <1>1 DEF IInv, Phases, Launched
<1>8. \A t \in Streams \ {s} : Flow(t)'
  BY <1>1, <1>5, FlowFrame DEF IInv, InTime
<1>9. Flow(s)'
  <2> DEFINE all == Written[s]
             kept == reader[s].data
  <2>1. Written'[s] = all /\ reader'[s] = reader[s] /\ (Alive(s)' <=> Alive(s))
        /\ client' = client /\ (InTime' <=> InTime)
    BY <1>1, WrittenFixed DEF Alive, InTime
  <2>2. /\ Len(all) \in Nat /\ Len(todo[s]) \in Nat /\ Len(pipe[s]) \in Nat
        /\ Len(kept) \in Nat /\ PipeSize \in Nat
    BY Lengths DEF IInv
  <2>3. Flow(s)
    BY DEF IInv
  <2>4. client # Running => ~InTime
    BY <1>1 DEF IInv, Clients
  <2>5. /\ Len(todo'[s]) = Len(todo[s]) - 1
        /\ \A i \in 1 .. Len(todo'[s]) : todo'[s][i] = todo[s][i + 1]
    BY <1>3, <1>5
  <2> HIDE DEF all, kept
  <2>6. \A i \in 1 .. Len(todo'[s]) : todo'[s][i] = all[Len(all) - Len(todo'[s]) + i]
    <3> TAKE i \in 1 .. Len(todo'[s])
    <3>1. i + 1 \in 1 .. Len(todo[s])
      BY <2>2, <2>5
    <3>2. todo[s][i + 1] = all[Len(all) - Len(todo[s]) + (i + 1)]
      BY <2>3, <3>1 DEF Flow, Within, KeptFirst, TodoLast, PipeNext, NothingLost, Ends, all
    <3>3. Len(all) - Len(todo'[s]) + i = Len(all) - Len(todo[s]) + (i + 1)
      BY <2>2, <2>5
    <3> QED BY <2>5, <3>2, <3>3
  <2>7. CASE client = Running
    <3>1. pipe'[s] = Append(pipe[s], Head(todo[s])) /\ Len(pipe[s]) < PipeSize
      BY <1>2, <2>7 DEF IInv, Typed
    <3>2. /\ Len(pipe'[s]) = Len(pipe[s]) + 1
          /\ \A i \in 1 .. Len(pipe[s]) : pipe'[s][i] = pipe[s][i]
          /\ pipe'[s][Len(pipe[s]) + 1] = todo[s][1]
      BY <1>4, <3>1
    <3>3. /\ Len(kept) <= Limit /\ Len(kept) <= Len(all)
          /\ \A i \in 1 .. Len(kept) : kept[i] = all[i]
          /\ Len(todo[s]) <= Len(all)
          /\ reader[s].pc # "ended"
          /\ reader[s].pc \in {"killing", "killed"} => reader[s].exceeded
          /\ reader[s].exceeded => Len(all) > Limit
      BY <2>3, <2>7 DEF Flow, Within, KeptFirst, TodoLast, PipeNext, NothingLost, Ends, all, kept
    <3>4. Alive(s) => /\ Len(kept) + Len(pipe[s]) + Len(todo[s]) = Len(all)
                      /\ \A i \in 1 .. Len(pipe[s]) : pipe[s][i] = all[Len(kept) + i]
      BY <2>3, <2>7 DEF Flow, Within, KeptFirst, TodoLast, PipeNext, NothingLost, Ends, all, kept
    <3>5. todo[s][1] = all[Len(all) - Len(todo[s]) + 1]
      <4>1. 1 \in 1 .. Len(todo[s])
        BY <1>3, <2>2
      <4> QED BY <4>1, <2>3 DEF Flow, Within, KeptFirst, TodoLast, PipeNext, NothingLost, Ends, all
    <3>6. ASSUME Alive(s)
          PROVE  /\ Len(kept) + Len(pipe'[s]) <= Len(all)
                 /\ Len(kept) + Len(pipe'[s]) + Len(todo'[s]) = Len(all)
                 /\ \A i \in 1 .. Len(pipe'[s]) : pipe'[s][i] = all[Len(kept) + i]
      <4> DEFINE k == Len(kept)
                 p == Len(pipe[s])
                 t == Len(todo[s])
                 a == Len(all)
                 p1 == Len(pipe'[s])
                 t1 == Len(todo'[s])
      <4>1. k \in Nat /\ p \in Nat /\ t \in Nat /\ a \in Nat /\ t >= 1
        BY <1>3, <2>2
      <4>2. k + p + t = a
        BY <3>4, <3>6
      <4>3. p1 = p + 1 /\ t1 = t - 1
        BY <2>5, <3>2
      <4> HIDE DEF k, p, t, a, p1, t1
      <4>4. k + p1 + t1 = a /\ k + p1 <= a /\ a - t + 1 = k + (p + 1)
        BY <4>1, <4>2, <4>3
      <4>5. pipe'[s][p + 1] = all[k + (p + 1)]
        <5>1. pipe'[s][p + 1] = all[a - t + 1]
          BY <3>2, <3>5 DEF p, a, t
        <5> QED BY <5>1, <4>4
      <4>6. \A i \in 1 .. p : pipe'[s][i] = all[k + i]
        BY <3>2, <3>4, <3>6 DEF p, k
      <4>7. \A i \in 1 .. p1 : i \in 1 .. p \/ i = p + 1
        BY <4>1, <4>3
      <4>8. \A i \in 1 .. p1 : pipe'[s][i] = all[k + i]
        BY <4>5, <4>6, <4>7
      <4> QED BY <4>4, <4>8 DEF k, p1, t1, a
    <3>7. Len(pipe'[s]) <= PipeSize /\ Len(todo'[s]) <= Len(all)
      BY <2>2, <2>5, <3>1, <3>2, <3>3
    <3>8. client' = Running
      BY <2>1, <2>7
    <3> HIDE DEF InTime, Alive
    <3>9. /\ Written'[s] = all /\ reader'[s].data = kept /\ reader'[s].pc = reader[s].pc
          /\ reader'[s].exceeded = reader[s].exceeded /\ (Alive(s)' <=> Alive(s))
      BY <2>1 DEF kept
    <3> QED BY <2>6, <3>3, <3>6, <3>7, <3>8, <3>9 DEF Flow, Within, KeptFirst, TodoLast, PipeNext, NothingLost, Ends
  <2>8. CASE client # Running
    <3>1. pipe'[s] = pipe[s] /\ ~InTime
      BY <1>2, <2>4, <2>8
    <3>2. Len(todo'[s]) <= Len(all)
      BY <2>2, <2>3, <2>5 DEF Flow, Within, KeptFirst, TodoLast, PipeNext, NothingLost, Ends, all
    <3> QED BY <2>1, <2>3, <2>6, <2>8, <3>1, <3>2 DEF Flow, Within, KeptFirst, TodoLast, PipeNext, NothingLost, Ends, all, kept
  <2> QED BY <2>7, <2>8
<1>10. Clients'
  BY <1>1 DEF IInv, Clients, InTime, Natural, Refused
<1>11. Reported'
  BY <1>1, WrittenFixed DEF IInv, Reported, Launched, Finished
<1> QED BY <1>6, <1>7, <1>8, <1>9, <1>10, <1>11 DEF IInv

(* A program ends by itself when it has written all.                       *)
LEMMA ExitSafe ==
  ASSUME IInv, Exit
  PROVE  IInv'
<1>1. /\ container = "running" /\ ~program.hangs /\ \A s \in Streams : todo[s] = <<>>
      /\ container' = "gone" /\ client' = IF client = Running THEN program.exit ELSE client
      /\ UNCHANGED <<docker, program, todo, pipe, reader, main, missed, result>>
  BY DEF Exit
<1>2. program.exit \in 0 .. 255 /\ program.exit # Running /\ program.exit # None
  BY SandboxAssumption DEF IInv, Typed
<1>3. Typed'
  BY <1>1, <1>2 DEF IInv, Typed
<1>4. Phases'
  BY <1>1, <1>2, SandboxAssumption DEF IInv, Phases, Launched
<1>5. \A s \in Streams : Flow(s)'
  BY <1>1, <1>2, FlowFrame DEF IInv, InTime
<1>6. Clients'
  <2>1. InTime => client = Running
    BY <1>1 DEF IInv, Clients
  <2>2. InTime => Natural'
    BY <1>1, <2>1 DEF Natural
  <2> QED BY <1>1, <2>2 DEF Clients, InTime
<1>7. Reported'
  BY <1>1, WrittenFixed DEF IInv, Reported, Launched, Finished
<1> QED BY <1>3, <1>4, <1>5, <1>6, <1>7 DEF IInv

(* A read moves the front of the pipe to what is kept, or past it.         *)
LEMMA ReadMoves ==
  ASSUME IInv, NEW s \in Streams, Read(s)
  PROVE  /\ reader[s].pc = "reading"
         /\ UNCHANGED <<docker, program, todo, container, client, main, missed, result>>
         /\ pipe' \in [Streams -> Seq(Units)] /\ reader' \in [Streams -> Readers]
         /\ \A t \in Streams \ {s} : pipe'[t] = pipe[t] /\ reader'[t] = reader[t]
         /\ reader[s].exceeded =>
              /\ reader'[s].data = reader[s].data /\ reader'[s].exceeded
              /\ reader'[s].pc \in {"reading", "ended", "died"}
         /\ reader'[s].pc # "none"
         /\ Flow(s)'
<1> DEFINE chunk == Taken(s)
           n == Len(chunk)
           all == Written[s]
           kept == reader[s].data
<1>1. /\ reader[s].pc = "reading" /\ (Len(pipe[s]) >= Chunk \/ client # Running)
      /\ UNCHANGED <<docker, program, todo, container, client, main, missed, result>>
      /\ pipe' = [pipe EXCEPT ![s] = SubSeq(pipe[s], n + 1, Len(pipe[s]))]
      /\ \/ chunk = <<>> /\ reader' = [reader EXCEPT ![s] = [reader[s] EXCEPT !.pc = "ended"]]
         \/ chunk # <<>> /\ reader' = [reader EXCEPT ![s] = [reader[s] EXCEPT !.pc = "died"]]
         \/ chunk # <<>> /\ reader[s].exceeded /\ reader' = [reader EXCEPT ![s] = reader[s]]
         \/ /\ chunk # <<>> /\ ~reader[s].exceeded
            /\ reader' = [reader EXCEPT ![s] = Keep(reader[s], chunk)]
  BY DEF Read, Readable
<1>2. Typed /\ Flow(s)
  BY DEF IInv
<1>3. /\ chunk \in Seq(Units) /\ n \in Nat /\ n <= Len(pipe[s])
      /\ \A i \in 1 .. n : chunk[i] = pipe[s][i]
      /\ chunk = <<>> => Len(pipe[s]) = 0
      /\ chunk = <<>> => n = 0
  <2>1. chunk = <<>> => n = 0
    BY EmptySeq
  <2> HIDE DEF chunk
  <2>2. chunk = Taken(s)
    BY DEF chunk
  <2> QED BY <1>2, <2>1, <2>2, TakenProperties
<1>4. /\ Len(all) \in Nat /\ Len(todo[s]) \in Nat /\ Len(pipe[s]) \in Nat
      /\ Len(kept) \in Nat /\ PipeSize \in Nat /\ Chunk \in Nat /\ Chunk >= 1 /\ Limit \in Nat
  BY <1>2, Lengths
<1> HIDE DEF chunk, n
<1>5. /\ pipe'[s] \in Seq(Units) /\ Len(pipe'[s]) = Len(pipe[s]) - n
      /\ \A i \in 1 .. Len(pipe'[s]) : pipe'[s][i] = pipe[s][n + i]
  <2>1. n \in 0 .. Len(pipe[s])
    BY <1>3, <1>4
  <2>2. pipe'[s] = SubSeq(pipe[s], n + 1, Len(pipe[s]))
    BY <1>1, <1>2 DEF Typed
  <2> QED BY <1>2, <2>1, <2>2, LeftProperties
<1>6. /\ pipe' \in [Streams -> Seq(Units)]
      /\ \A t \in Streams \ {s} : pipe'[t] = pipe[t]
  BY <1>1, <1>2, <1>5 DEF Typed
<1>7. reader[s] \in Readers /\ reader \in [Streams -> Readers]
  BY <1>2 DEF Typed
<1> DEFINE k == Keep(reader[s], chunk)
           m == Len(k.data) - Len(kept)
<1>8. /\ k \in Readers /\ Len(k.data) <= Limit
      /\ m \in 0 .. n
      /\ \A i \in 1 .. Len(kept) : k.data[i] = kept[i]
      /\ \A i \in 1 .. m : k.data[Len(kept) + i] = chunk[i]
      /\ k.exceeded <=> Len(kept) + n > Limit
      /\ k.pc = IF k.exceeded THEN "killing" ELSE "reading"
      /\ ~k.exceeded => m = n
  <2>1. Len(kept) <= Limit
    BY <1>2 DEF Flow, Within, KeptFirst, TodoLast, PipeNext, NothingLost, Ends
  <2> QED BY <1>3, <1>7, <2>1, KeepProperties DEF n
<1>9. \/ /\ chunk = <<>> /\ reader'[s].pc = "ended"
         /\ reader'[s].data = kept /\ reader'[s].exceeded = reader[s].exceeded
      \/ /\ chunk # <<>> /\ reader'[s].pc = "died"
         /\ reader'[s].data = kept /\ reader'[s].exceeded = reader[s].exceeded
      \/ chunk # <<>> /\ reader[s].exceeded /\ reader'[s] = reader[s]
      \/ chunk # <<>> /\ ~reader[s].exceeded /\ reader'[s] = k
  BY <1>1, <1>7 DEF Readers
<1>10. /\ reader' \in [Streams -> Readers]
       /\ \A t \in Streams \ {s} : reader'[t] = reader[t]
  <2>1. /\ [reader[s] EXCEPT !.pc = "ended"] \in Readers
        /\ [reader[s] EXCEPT !.pc = "died"] \in Readers
    BY <1>7 DEF Readers
  <2> HIDE DEF k
  <2>2. k = Keep(reader[s], chunk) /\ k \in Readers
    BY <1>8 DEF k
  <2>3. \E r \in Readers : reader' = [reader EXCEPT ![s] = r]
    BY <1>1, <1>7, <2>1, <2>2
  <2> QED BY <1>7, <2>3
<1>11. reader[s].exceeded =>
         /\ reader'[s].data = reader[s].data /\ reader'[s].exceeded
         /\ reader'[s].pc \in {"reading", "ended", "died"}
  BY <1>1, <1>9
<1>21. reader'[s].pc # "none"
  BY <1>1, <1>8, <1>9
<1> HIDE DEF k, m, all
<1>12. Written'[s] = all /\ todo'[s] = todo[s] /\ client' = client /\ (InTime' <=> InTime)
  BY <1>1, WrittenFixed DEF all, InTime
<1>13. /\ Len(kept) <= Limit /\ Len(pipe[s]) <= PipeSize
       /\ Len(kept) <= Len(all) /\ \A i \in 1 .. Len(kept) : kept[i] = all[i]
       /\ Len(todo[s]) <= Len(all)
       /\ \A i \in 1 .. Len(todo[s]) : todo[s][i] = all[Len(all) - Len(todo[s]) + i]
       /\ reader[s].exceeded => Len(all) > Limit
  BY <1>2 DEF Flow, Within, KeptFirst, TodoLast, PipeNext, NothingLost, Ends, all
<1>14. ~reader[s].exceeded =>
         /\ Len(kept) + Len(pipe[s]) <= Len(all)
         /\ \A i \in 1 .. Len(pipe[s]) : pipe[s][i] = all[Len(kept) + i]
         /\ client = Running \/ InTime => Len(kept) + Len(pipe[s]) + Len(todo[s]) = Len(all)
  BY <1>1, <1>2 DEF Flow, Within, KeptFirst, TodoLast, PipeNext, NothingLost, Ends, Alive, all
<1>15. Len(pipe'[s]) <= PipeSize
  BY <1>3, <1>4, <1>5, <1>13
<1>22. TodoLast(s)'
  BY <1>12, <1>13 DEF TodoLast
<1>16. ASSUME chunk = <<>>
       PROVE  Flow(s)'
  <2>1. Len(pipe'[s]) = 0 /\ Len(pipe[s]) = 0 /\ client # Running
    BY <1>1, <1>3, <1>4, <1>5, <1>16
  <2>2. /\ reader'[s].pc = "ended" /\ reader'[s].data = kept
        /\ reader'[s].exceeded = reader[s].exceeded
    BY <1>9, <1>16
  <2>3. Alive(s)' => ~reader[s].exceeded
    BY <2>2 DEF Alive
  <2>4. \A i \in 1 .. Len(pipe'[s]) : FALSE
    BY <2>1
  <2> HIDE DEF kept
  <2>5. Within(s)' /\ KeptFirst(s)'
    BY <1>12, <1>13, <1>15, <2>2 DEF Within, KeptFirst
  <2>6. PipeNext(s)'
    <3>1. Len(kept) + 0 <= Len(all)
      BY <1>4, <1>13 DEF kept
    <3> QED BY <1>12, <2>1, <2>2, <2>4, <3>1 DEF PipeNext
  <2>7. NothingLost(s)'
    <3>1. ~reader[s].exceeded /\ (client' = Running \/ InTime') =>
            Len(kept) + Len(pipe[s]) + Len(todo[s]) = Len(all)
      BY <1>12, <1>14 DEF InTime
    <3>2. Len(pipe'[s]) = Len(pipe[s])
      BY <2>1
    <3> QED BY <1>12, <2>2, <2>3, <3>1, <3>2 DEF NothingLost
  <2>8. Ends(s)'
    BY <1>12, <1>13, <2>1, <2>2 DEF Ends
  <2> QED BY <1>22, <2>5, <2>6, <2>7, <2>8 DEF Flow
<1>17. ASSUME reader'[s].pc = "died" /\ chunk # <<>>
       PROVE  Flow(s)'
  <2>1. /\ reader'[s].pc = "died" /\ reader'[s].data = kept
        /\ reader'[s].exceeded = reader[s].exceeded
    BY <1>1, <1>9, <1>17, <1>8
  <2>2. ~Alive(s)'
    BY <2>1 DEF Alive
  <2> HIDE DEF kept
  <2>3. Within(s)' /\ KeptFirst(s)' /\ Ends(s)'
    BY <1>12, <1>13, <1>15, <2>1 DEF Within, KeptFirst, Ends
  <2> QED BY <1>22, <2>2, <2>3 DEF Flow, PipeNext, NothingLost
<1>18. ASSUME reader[s].exceeded /\ reader'[s] = reader[s]
       PROVE  Flow(s)'
  <2>1. ~Alive(s)' /\ reader'[s].data = kept /\ reader'[s].pc = "reading" /\ reader'[s].exceeded
    BY <1>1, <1>18 DEF Alive
  <2> HIDE DEF kept
  <2>3. Within(s)' /\ KeptFirst(s)' /\ Ends(s)'
    BY <1>12, <1>13, <1>15, <1>18, <2>1 DEF Within, KeptFirst, Ends
  <2> QED BY <1>22, <2>1, <2>3 DEF Flow, PipeNext, NothingLost
<1>19. ASSUME ~reader[s].exceeded /\ reader'[s] = k
       PROVE  Flow(s)'
  <2> DEFINE a == Len(all)
             d == Len(kept)
             d1 == Len(reader'[s].data)
             p == Len(pipe[s])
             p1 == Len(pipe'[s])
             t == Len(todo[s])
  <2>1. /\ d1 = d + m /\ d1 <= Limit /\ m \in 0 .. n
        /\ reader'[s].exceeded <=> d + n > Limit
        /\ ~reader'[s].exceeded => m = n
        /\ reader'[s].pc = IF reader'[s].exceeded THEN "killing" ELSE "reading"
    <3>1. Len(k.data) \in Nat
      <4>1. k.data \in Seq(Units)
        BY <1>8 DEF Readers
      <4> QED BY <4>1, LenProperties
    <3>2. Len(k.data) = Len(kept) + m
      BY <1>4, <3>1 DEF m
    <3> QED BY <1>8, <1>19, <3>2
  <2>2. p1 = p - n /\ d + p <= a /\ n <= p
    BY <1>3, <1>5, <1>14, <1>19
  <2>3. /\ \A i \in 1 .. d : reader'[s].data[i] = all[i]
        /\ \A i \in 1 .. m : reader'[s].data[d + i] = chunk[i]
    BY <1>8, <1>13, <1>19
  <2>4. \A i \in 1 .. p : pipe[s][i] = all[d + i]
    BY <1>14, <1>19
  <2>5. /\ a \in Nat /\ d \in Nat /\ p \in Nat /\ t \in Nat /\ n \in Nat /\ m \in Nat
        /\ Limit \in Nat
    BY <1>3, <1>4, <2>1
  <2>6. \A i \in 1 .. p1 : pipe'[s][i] = pipe[s][n + i]
    BY <1>5
  <2>7. client = Running \/ InTime => d + p + t = a
    BY <1>14, <1>19
  <2>8. \A i \in 1 .. n : chunk[i] = pipe[s][i]
    BY <1>3
  <2> HIDE DEF a, d, d1, p, p1, t, kept
  <2>9. d1 <= a
    BY <2>1, <2>2, <2>5
  <2>10. \A i \in 1 .. d1 : reader'[s].data[i] = all[i]
    <3> TAKE i \in 1 .. d1
    <3>1. CASE i <= d
      BY <2>3, <2>5, <3>1
    <3>2. CASE i > d
      <4>1. i - d \in 1 .. m /\ i - d \in 1 .. n /\ i - d \in 1 .. p /\ d + (i - d) = i
        BY <2>1, <2>2, <2>5, <3>2
      <4>2. reader'[s].data[d + (i - d)] = chunk[i - d] /\ chunk[i - d] = pipe[s][i - d]
        BY <2>3, <2>8, <4>1
      <4>3. pipe[s][i - d] = all[d + (i - d)]
        BY <2>4, <4>1
      <4> QED BY <4>1, <4>2, <4>3
    <3> QED BY <2>5, <3>1, <3>2
  <2>11. ASSUME ~reader'[s].exceeded
         PROVE  /\ d1 + p1 <= a
                /\ \A i \in 1 .. p1 : pipe'[s][i] = all[d1 + i]
                /\ client = Running \/ InTime => d1 + p1 + t = a
    <3>1. d1 = d + n
      BY <2>1, <2>11
    <3>2. \A i \in 1 .. p1 : pipe'[s][i] = all[d1 + i]
      <4> TAKE i \in 1 .. p1
      <4>1. n + i \in 1 .. p /\ d + (n + i) = d1 + i
        BY <2>2, <2>5, <3>1
      <4>2. pipe'[s][i] = pipe[s][n + i] /\ pipe[s][n + i] = all[d + (n + i)]
        BY <2>4, <2>6, <4>1
      <4> QED BY <4>1, <4>2
    <3>3. d1 + p1 <= a /\ (d + p + t = a => d1 + p1 + t = a)
      BY <2>2, <2>5, <3>1
    <3> QED BY <2>7, <3>2, <3>3
  <2>12. reader'[s].exceeded => a > Limit
    BY <2>1, <2>2, <2>5
  <2>13. Alive(s)' => ~reader'[s].exceeded
    BY DEF Alive
  <2>14. reader'[s].pc # "ended" /\ (reader'[s].pc \in {"killing", "killed"} => reader'[s].exceeded)
    BY <2>1
  <2>15. Within(s)' /\ KeptFirst(s)'
    BY <1>12, <1>15, <2>1, <2>9, <2>10 DEF Within, KeptFirst, a, d1
  <2>16. PipeNext(s)'
    BY <1>12, <2>11, <2>13 DEF PipeNext, a, d1, p1
  <2>17. NothingLost(s)'
    <3>1. client' = Running \/ InTime' => client = Running \/ InTime
      BY <1>12
    <3> QED BY <1>12, <2>11, <2>13, <3>1 DEF NothingLost, a, d1, p1, t
  <2>18. Ends(s)'
    BY <1>12, <2>12, <2>14 DEF Ends, a
  <2> QED BY <1>22, <2>15, <2>16, <2>17, <2>18 DEF Flow
<1>20. Flow(s)'
  BY <1>9, <1>16, <1>17, <1>18, <1>19
<1> QED BY <1>1, <1>6, <1>10, <1>11, <1>20, <1>21

LEMMA ReadSafe ==
  ASSUME IInv, NEW s \in Streams, Read(s)
  PROVE  IInv'
<1>1. /\ reader[s].pc = "reading"
      /\ UNCHANGED <<docker, program, todo, container, client, main, missed, result>>
      /\ pipe' \in [Streams -> Seq(Units)] /\ reader' \in [Streams -> Readers]
      /\ \A t \in Streams \ {s} : pipe'[t] = pipe[t] /\ reader'[t] = reader[t]
      /\ reader[s].exceeded =>
           /\ reader'[s].data = reader[s].data /\ reader'[s].exceeded
           /\ reader'[s].pc \in {"reading", "ended", "died"}
      /\ reader'[s].pc # "none"
      /\ Flow(s)'
  BY ReadMoves
<1>2. Typed'
  BY <1>1 DEF IInv, Typed
<1>3. Launched /\ Launched'
  <2>1. Launched
    BY <1>1 DEF IInv, Phases
  <2>2. Launched' <=> Launched
    BY <1>1 DEF Launched
  <2> QED BY <2>1, <2>2
<1>4. Phases'
  BY <1>1, <1>3, WrittenFixed DEF IInv, Phases
<1>5. \A t \in Streams : Flow(t)'
  BY <1>1, FlowFrame DEF IInv, InTime
<1>6. Clients'
  BY <1>1, WrittenFixed DEF IInv, Clients, InTime, Natural, Refused
<1>7. Reported'
  <2>1. result # None => reader[s].exceeded
    BY <1>1, <1>3 DEF IInv, Reported, Finished
  <2>2. result # None /\ docker => result.status # "passed"
    BY <1>1 DEF IInv, Reported, Finished
  <2>3. "out" \in Streams
    BY DEF Streams
  <2>4. result # None => reader'["out"].data = reader["out"].data
    BY <1>1, <2>1, <2>3
  <2> QED BY <1>1, <1>3, <2>1, <2>2, <2>4, WrittenFixed DEF IInv, Reported, Finished
<1> QED BY <1>2, <1>4, <1>5, <1>6, <1>7 DEF IInv

(* A kill ends a running container and its client, or misses it.           *)
LEMMA KillSays ==
  ASSUME IInv, Launched, KillContainer
  PROVE  /\ container' \in {container, "gone"} /\ container' # "none"
         /\ container' \in {"starting", "running"} => missed'
         /\ missed' \in BOOLEAN /\ (missed => missed')
         /\ client' \in {Running} \union 0 .. 255
         /\ client' = Running => client = Running
         /\ client' # Running => client # Running \/ container' = "gone"
         /\ client # Running => client' = client
         /\ container' \in {"none", "starting"} => container' = container
<1>1. EXIT_OOM \in 0 .. 255 /\ EXIT_OOM # Running
  BY SandboxAssumption DEF EXIT_OOM
<1>2. client \in {Running} \union 0 .. 255 /\ missed \in BOOLEAN /\ container # "none"
  BY DEF IInv, Typed, Phases
<1>3. CASE container = "running"
  BY <1>1, <1>2, <1>3 DEF KillContainer
<1>4. CASE container # "running"
  BY <1>2, <1>4 DEF KillContainer
<1> QED BY <1>3, <1>4

LEMMA ReaderKillsSafe ==
  ASSUME IInv, NEW s \in Streams, ReaderKills(s)
  PROVE  IInv'
<1>1. /\ reader[s].pc = "killing" /\ KillContainer
      /\ reader' = [reader EXCEPT ![s] = [reader[s] EXCEPT !.pc = "killed"]]
      /\ UNCHANGED <<docker, program, todo, pipe, main, result>>
  BY DEF ReaderKills
<1>2. Launched /\ (Launched' <=> Launched) /\ (InTime' <=> InTime)
  BY <1>1 DEF IInv, Phases, Launched, InTime
<1>3. /\ container' \in {container, "gone"} /\ container' # "none"
      /\ container' \in {"starting", "running"} => missed'
      /\ missed' \in BOOLEAN
      /\ client' \in {Running} \union 0 .. 255
      /\ client' = Running => client = Running
      /\ client' # Running => client # Running \/ container' = "gone"
      /\ client # Running => client' = client
      /\ container' \in {"none", "starting"} => container' = container
  BY <1>1, <1>2, KillSays
<1>4. /\ reader' \in [Streams -> Readers] /\ reader[s].exceeded
      /\ reader'[s].pc = "killed" /\ reader'[s].data = reader[s].data
      /\ reader'[s].exceeded = reader[s].exceeded
      /\ \A t \in Streams \ {s} : reader'[t] = reader[t]
  <2>1. reader[s] \in Readers /\ reader \in [Streams -> Readers]
    BY DEF IInv, Typed
  <2>2. reader[s].exceeded
    BY <1>1 DEF IInv, Flow, Ends
  <2>3. [reader[s] EXCEPT !.pc = "killed"] \in Readers
    BY <2>1 DEF Readers
  <2> QED BY <1>1, <2>1, <2>2, <2>3 DEF Readers
<1>5. Typed'
  BY <1>1, <1>3, <1>4 DEF IInv, Typed
<1>6. Phases'
  <2>1. client' # None /\ \A t \in Streams : reader'[t].pc # "none"
    BY <1>2, <1>3, <1>4, SandboxAssumption DEF IInv, Phases
  <2>2. main' \in {"join", "joinLate"} => client' # Running
    BY <1>1, <1>3 DEF IInv, Phases
  <2>3. container' \in {"none", "starting"} => todo' = Written'
    BY <1>1, <1>3, WrittenFixed DEF IInv, Phases
  <2> QED BY <1>2, <1>3, <2>1, <2>2, <2>3 DEF Phases
<1>7. \A t \in Streams : Flow(t)'
  <2>1. ASSUME NEW t \in Streams \ {s} PROVE Flow(t)'
    BY <1>1, <1>2, <1>3, <1>4, FlowFrame DEF IInv
  <2>2. Flow(s) /\ ~Alive(s) /\ ~Alive(s)' /\ Written'[s] = Written[s]
    BY <1>1, <1>4, WrittenFixed DEF IInv, Alive
  <2>3. Within(s)' /\ KeptFirst(s)' /\ TodoLast(s)' /\ Ends(s)'
    BY <1>1, <1>4, <2>2 DEF Flow, Within, KeptFirst, TodoLast, Ends
  <2>4. Flow(s)'
    BY <2>2, <2>3 DEF Flow, PipeNext, NothingLost
  <2> QED BY <2>1, <2>4
<1>8. Clients'
  <2>1. \E t \in Streams : reader'[t].exceeded
    BY <1>4
  <2>2. InTime' /\ client' # Running => container' \in {"none", "gone"}
    BY <1>2, <1>3 DEF IInv, Clients
  <2> QED BY <1>3, <2>1, <2>2 DEF Clients
<1>9. Reported'
  <2>1. \A t \in Streams : reader'[t].exceeded = reader[t].exceeded /\ reader'[t].data = reader[t].data
    BY <1>4
  <2>2. result # None /\ docker => result.status # "passed"
    BY <1>1, <1>2 DEF IInv, Reported, Finished, Launched
  <2>3. \A t \in Streams : Finished(t) => Finished(t)'
    BY <1>1, <1>4 DEF Finished
  <2>4. "out" \in Streams
    BY DEF Streams
  <2>5. Written' = Written
    BY <1>1, WrittenFixed
  <2> QED BY <1>1, <1>2, <1>3, <2>1, <2>2, <2>3, <2>4, <2>5 DEF IInv, Reported
<1> QED BY <1>5, <1>6, <1>7, <1>8, <1>9 DEF IInv

(* A reader whose kill has returned reads on.                              *)
LEMMA KillReturnsSafe ==
  ASSUME IInv, NEW s \in Streams, KillReturns(s)
  PROVE  IInv'
<1>1. /\ reader[s].pc = "killed"
      /\ reader' = [reader EXCEPT ![s] = [reader[s] EXCEPT !.pc = "reading", !.exceeded = TRUE]]
      /\ UNCHANGED <<docker, program, todo, pipe, container, client, main, missed, result>>
  BY DEF KillReturns
<1>2. Launched /\ (Launched' <=> Launched) /\ (InTime' <=> InTime)
  BY <1>1 DEF IInv, Phases, Launched, InTime
<1>3. /\ reader' \in [Streams -> Readers] /\ reader[s].exceeded = TRUE
      /\ reader'[s].pc = "reading" /\ reader'[s].data = reader[s].data
      /\ reader'[s].exceeded = TRUE
      /\ \A t \in Streams \ {s} : reader'[t] = reader[t]
  <2>1. reader[s] \in Readers /\ reader \in [Streams -> Readers]
    BY DEF IInv, Typed
  <2>2. reader[s].exceeded = TRUE
    <3>1. reader[s].exceeded /\ reader[s].exceeded \in BOOLEAN
      BY <1>1, <2>1 DEF IInv, Flow, Ends, Readers
    <3> QED BY <3>1
  <2>3. [reader[s] EXCEPT !.pc = "reading", !.exceeded = TRUE] \in Readers
    BY <2>1 DEF Readers
  <2> QED BY <1>1, <2>1, <2>2, <2>3 DEF Readers
<1>4. Typed'
  BY <1>1, <1>3 DEF IInv, Typed
<1>5. Phases'
  BY <1>1, <1>2, <1>3, WrittenFixed DEF IInv, Phases
<1>6. \A t \in Streams : Flow(t)'
  <2>1. ASSUME NEW t \in Streams \ {s} PROVE Flow(t)'
    BY <1>1, <1>2, <1>3, FlowFrame DEF IInv
  <2>2. Flow(s) /\ ~Alive(s) /\ ~Alive(s)' /\ Written'[s] = Written[s]
    BY <1>1, <1>3, WrittenFixed DEF IInv, Alive
  <2>3. Within(s)' /\ KeptFirst(s)' /\ TodoLast(s)' /\ Ends(s)'
    BY <1>1, <1>3, <2>2 DEF Flow, Within, KeptFirst, TodoLast, Ends
  <2>4. Flow(s)'
    BY <2>2, <2>3 DEF Flow, PipeNext, NothingLost
  <2> QED BY <2>1, <2>4
<1>7. Clients'
  <2>1. \E t \in Streams : reader'[t].exceeded
    BY <1>3
  <2> QED BY <1>1, <1>2, <2>1 DEF IInv, Clients
<1>8. Reported'
  <2>1. \A t \in Streams : reader'[t].exceeded = reader[t].exceeded /\ reader'[t].data = reader[t].data
    BY <1>3
  <2>2. result # None /\ docker => result.status # "passed"
    BY <1>1, <1>2 DEF IInv, Reported, Finished, Launched
  <2>3. \A t \in Streams : Finished(t) => Finished(t)'
    BY <1>1, <1>3 DEF Finished
  <2>4. "out" \in Streams
    BY DEF Streams
  <2>5. Written' = Written
    BY <1>1, WrittenFixed
  <2> QED BY <1>1, <1>2, <2>1, <2>2, <2>3, <2>4, <2>5 DEF IInv, Reported
<1> QED BY <1>4, <1>5, <1>6, <1>7, <1>8 DEF IInv

LEMMA WaitReturnsSafe ==
  ASSUME IInv, WaitReturns
  PROVE  IInv'
<1>1. /\ main = "wait" /\ client # Running /\ main' = "join"
      /\ UNCHANGED <<docker, program, todo, pipe, container, client, reader, missed, result>>
  BY DEF WaitReturns
<1>2. Launched /\ Launched' /\ InTime /\ InTime' /\ result = None
  BY <1>1 DEF IInv, Typed, Phases, Launched, InTime
<1>3. Typed'
  BY <1>1, <1>2 DEF IInv, Typed
<1>4. Phases'
  BY <1>1, <1>2, WrittenFixed DEF IInv, Phases
<1>5. \A s \in Streams : Flow(s)'
  BY <1>1, <1>2, FlowFrame DEF IInv
<1>6. Clients'
  BY <1>1, <1>2 DEF IInv, Clients, Natural, Refused, Written
<1>7. Reported'
  BY <1>1, <1>2 DEF Reported
<1> QED BY <1>3, <1>4, <1>5, <1>6, <1>7 DEF IInv

LEMMA TimeoutSafe ==
  ASSUME IInv, Timeout
  PROVE  IInv'
<1>1. /\ main = "wait" /\ KillContainer /\ main' = "killClient"
      /\ UNCHANGED <<docker, program, todo, pipe, reader, result>>
  BY DEF Timeout
<1>2. Launched /\ Launched' /\ InTime /\ ~InTime' /\ result = None
  BY <1>1 DEF IInv, Typed, Phases, Launched, InTime
<1>3. /\ container' \in {container, "gone"} /\ container' # "none"
      /\ container' \in {"starting", "running"} => missed'
      /\ missed' \in BOOLEAN
      /\ client' \in {Running} \union 0 .. 255
      /\ client' = Running => client = Running
      /\ container' \in {"none", "starting"} => container' = container
  BY <1>1, <1>2, KillSays
<1>4. Typed'
  BY <1>1, <1>2, <1>3 DEF IInv, Typed
<1>5. Phases'
  <2>1. client' # None /\ \A t \in Streams : reader'[t].pc # "none"
    BY <1>1, <1>2, <1>3, SandboxAssumption DEF IInv, Phases
  <2>2. container' \in {"none", "starting"} => todo' = Written'
    BY <1>1, <1>3, WrittenFixed DEF IInv, Phases
  <2> QED BY <1>1, <1>2, <1>3, <2>1, <2>2 DEF Phases
<1>6. \A s \in Streams : Flow(s)'
  BY <1>1, <1>2, <1>3, FlowFrame DEF IInv
<1>7. Clients'
  BY <1>1, <1>2, <1>3 DEF Clients
<1>8. Reported'
  BY <1>1, <1>2 DEF Reported
<1> QED BY <1>4, <1>5, <1>6, <1>7, <1>8 DEF IInv

LEMMA KillClientSafe ==
  ASSUME IInv, KillClient
  PROVE  IInv'
<1>1. /\ main = "killClient" /\ main' = "joinLate"
      /\ client' = IF client = Running THEN EXIT_OOM ELSE client
      /\ UNCHANGED <<docker, program, todo, pipe, container, reader, missed, result>>
  BY DEF KillClient
<1>2. Launched /\ Launched' /\ ~InTime /\ ~InTime' /\ result = None
  BY <1>1 DEF IInv, Typed, Phases, Launched, InTime
<1>3. client' \in 0 .. 255 /\ client' # Running /\ client' # None
  <2>1. EXIT_OOM \in 0 .. 255
    BY DEF EXIT_OOM
  <2>2. client' \in 0 .. 255
    BY <1>1, <1>2, <2>1 DEF IInv, Typed, Phases
  <2> QED BY <2>2, SandboxAssumption
<1>4. Typed'
  BY <1>1, <1>2, <1>3 DEF IInv, Typed
<1>5. Phases'
  BY <1>1, <1>2, <1>3, WrittenFixed DEF IInv, Phases
<1>6. \A s \in Streams : Flow(s)'
  BY <1>1, <1>2, <1>3, FlowFrame DEF IInv
<1>7. Clients'
  BY <1>1, <1>2 DEF IInv, Clients
<1>8. Reported'
  BY <1>1, <1>2 DEF Reported
<1> QED BY <1>4, <1>5, <1>6, <1>7, <1>8 DEF IInv

(* What a reader that has read to the end has kept is all there was, when  *)
(* all was written in time and the limit was not reached.                  *)
LEMMA KeptIsAll ==
  ASSUME IInv, NEW s \in Streams, InTime, todo[s] = <<>>,
         reader[s].pc = "ended", ~reader[s].exceeded
  PROVE  reader[s].data = Written[s]
<1> DEFINE kept == reader[s].data
           all == Written[s]
<1>1. Flow(s) /\ Typed
  BY DEF IInv
<1>2. Len(pipe[s]) = 0 /\ Alive(s)
  BY <1>1 DEF Flow, Ends, Alive
<1>3. Len(todo[s]) = 0
  BY EmptySeq
<1>4. Len(kept) + Len(pipe[s]) + Len(todo[s]) = Len(all)
  BY <1>1, <1>2 DEF Flow, NothingLost
<1>5. Len(kept) \in Nat /\ kept \in Seq(Units) /\ all \in Seq(Units)
  BY <1>1, Lengths
<1>6. \A i \in 1 .. Len(kept) : kept[i] = all[i]
  BY <1>1 DEF Flow, KeptFirst
<1> HIDE DEF kept, all
<1>7. Len(kept) = Len(all)
  BY <1>2, <1>3, <1>4, <1>5
<1>8. kept = all
  BY <1>5, <1>6, <1>7, SeqEqual
<1> QED BY <1>8 DEF kept, all

(* A forged report among what is kept was printed in that place.           *)
LEMMA ForgedIsWritten ==
  ASSUME IInv, ForgedLast(reader["out"].data)
  PROVE  ForgedLast(program.out)
<1> DEFINE kept == reader["out"].data
           all == program.out
<1>1. "out" \in Streams /\ Typed /\ Flow("out") /\ Written["out"] = all
  BY WrittenType DEF Streams, IInv
<1>2. Len(kept) \in Nat /\ Len(all) \in Nat
  BY <1>1, Lengths
<1>3. Len(kept) <= Len(all) /\ \A i \in 1 .. Len(kept) : kept[i] = all[i]
  BY <1>1 DEF Flow, KeptFirst
<1>4. PICK i, j \in 1 .. Len(kept) : i < j /\ kept[i] = "coverage" /\ kept[j] = "forged"
  BY DEF ForgedLast
<1> HIDE DEF kept, all
<1>5. i \in 1 .. Len(all) /\ j \in 1 .. Len(all)
  BY <1>2, <1>3
<1>6. all[i] = "coverage" /\ all[j] = "forged"
  BY <1>3, <1>4
<1>7. \E x, y \in 1 .. Len(all) : x < y /\ all[x] = "coverage" /\ all[y] = "forged"
  BY <1>4, <1>5, <1>6
<1> QED BY <1>7 DEF ForgedLast, all

(* The report: its code says how the client ended, unless the time-out or  *)
(* the limit says it first.                                                *)
LEMMA ReturnSafe ==
  ASSUME IInv, Return
  PROVE  IInv'
<1> DEFINE late == main = "joinLate"
           over == \E s \in Streams : reader[s].exceeded
           data == reader["out"].data
           code == IF late THEN EXIT_TIMEOUT ELSE IF over THEN EXIT_RESOURCE_LIMIT ELSE client
           coverage == ExtractCoverage(data)
           tests == ParseTestsReport(data)
<1>1. /\ main \in {"join", "joinLate"} /\ \A s \in Streams : Joined(s)
      /\ Report(code, late, coverage, tests)
      /\ UNCHANGED <<docker, program, todo, pipe, container, client, reader, missed>>
  BY DEF Return
<1>2. /\ Typed /\ Launched /\ client # Running /\ client # None /\ Clients
      /\ \A s \in Streams : Flow(s)
  BY <1>1 DEF IInv, Phases
<1>3. EXIT_TIMEOUT = 124 /\ EXIT_RESOURCE_LIMIT = 125 /\ EXIT_OOM = 137
  BY DEF EXIT_TIMEOUT, EXIT_RESOURCE_LIMIT, EXIT_OOM
<1>4. client \in 0 .. 255
  BY <1>2 DEF Typed
<1>5. "out" \in Streams /\ data \in Seq(Units)
  BY <1>2, Lengths DEF Streams
<1>6. /\ coverage \in {"coverage", "forged", "fabricated", None}
      /\ coverage = "forged" => ForgedLast(data) \/ ~Contains(data, "coverage")
  BY <1>5, CoverageTaken
<1>7. tests \in {"counted", "fabricated", None} /\ late \in BOOLEAN
  BY DEF ParseTestsReport
<1>8. code \in 0 .. 255
  BY <1>3, <1>4
<1> HIDE DEF over, data, coverage, tests
<1>9. /\ main' = "returned" /\ result' \in Reports
      /\ result'.code = code /\ result'.timedOut = late /\ result'.coverage = coverage
      /\ result'.status = "passed" => code = 0 /\ ~late
  <2> HIDE DEF code, late
  <2> QED BY <1>1, <1>6, <1>7, <1>8, ReportSays
<1>10. result' # None /\ Launched' /\ Written' = Written
  BY <1>1, <1>2, <1>9, SandboxAssumption, WrittenFixed DEF Launched
<1>11. Typed'
  BY <1>1, <1>2, <1>9, <1>10 DEF Typed
<1>12. Phases'
  BY <1>1, <1>9, <1>10 DEF IInv, Phases
<1>13. \A s \in Streams : Flow(s)'
  <2>1. ~InTime'
    BY <1>9 DEF InTime
  <2> QED BY <1>1, <1>2, <2>1, FlowFrame
<1>14. Clients'
  <2>1. main = "join" => InTime
    BY DEF InTime
  <2>2. main = "joinLate" => ~InTime
    BY DEF InTime
  <2>3. ~InTime' /\ main' \notin {"wait", "join"}
    BY <1>9 DEF InTime
  <2> QED BY <1>1, <1>2, <2>1, <2>2, <2>3 DEF Clients
<1>15. \A s \in Streams : reader[s].exceeded \/ Finished(s)
  BY <1>1, <1>2 DEF Joined, Finished, Flow, Ends
<1>16. ~late /\ ~over => code = client /\ (Natural \/ Refused) /\ InTime
  BY <1>1, <1>2 DEF Clients, over, InTime
<1>17. /\ result'.timedOut => result'.code = EXIT_TIMEOUT
       /\ result'.code = EXIT_TIMEOUT => result'.timedOut \/ program.exit = EXIT_TIMEOUT
       /\ result'.code = EXIT_OOM => program.exit = EXIT_OOM
  <2>1. /\ late => result'.code = 124
        /\ over /\ ~late => result'.code = 125
        /\ ~late /\ ~over => result'.code = client /\ (client = program.exit \/ client = 125)
    BY <1>3, <1>9, <1>16 DEF Natural, Refused
  <2> HIDE DEF code, late
  <2> QED BY <1>3, <1>9, <2>1
<1>18. result'.code = EXIT_RESOURCE_LIMIT =>
         \/ program.exit = EXIT_RESOURCE_LIMIT
         \/ \E s \in Streams : Len(Written[s]) > Limit
         \/ todo = Written /\ container = "gone"
  <2>1. over => \E s \in Streams : Len(Written[s]) > Limit
    BY <1>2 DEF over, Flow, Ends
  <2>2. result'.code = EXIT_RESOURCE_LIMIT => ~late
    BY <1>3, <1>9
  <2>3. Natural /\ client = EXIT_RESOURCE_LIMIT => program.exit = EXIT_RESOURCE_LIMIT
    BY DEF Natural
  <2>4. Refused => todo = Written /\ container = "gone"
    BY DEF Refused
  <2> QED BY <1>9, <1>16, <2>1, <2>2, <2>3, <2>4
<1>19. ASSUME result'.status = "passed"
       PROVE  /\ program.exit = 0 /\ ~program.hangs /\ program.fits /\ container = "gone"
              /\ \A s \in Streams : /\ todo[s] = <<>> /\ Finished(s)
                                    /\ reader[s].pc = "ended" => reader[s].data = Written[s]
  <2>1. code = 0 /\ ~late
    BY <1>9, <1>19
  <2>2. ~over
    BY <1>3, <2>1
  <2>3. Natural /\ client = 0 /\ InTime
    BY <1>3, <1>16, <2>1, <2>2 DEF Refused
  <2>4. \A s \in Streams : ~reader[s].exceeded /\ Finished(s)
    BY <1>15, <2>2 DEF over
  <2>5. program.fits
    BY <1>2 DEF Launched
  <2>6. ASSUME NEW s \in Streams, reader[s].pc = "ended" PROVE reader[s].data = Written[s]
    BY <2>3, <2>4, <2>6, KeptIsAll DEF Natural
  <2> QED BY <2>3, <2>4, <2>5, <2>6 DEF Natural
<1>20. coverage = "forged" => ForgedLast(program.out) \/ ~Contains(data, "coverage")
  BY <1>6, ForgedIsWritten DEF data
<1>21. Reported'
  <2>1. \A s \in Streams : Finished(s) => Finished(s)'
    BY <1>1 DEF Finished
  <2>2. data' = data
    BY <1>1 DEF data
  <2>3. result'.coverage = "forged" =>
          ForgedLast(program.out) \/ ~Contains(reader["out"].data, "coverage")
    BY <1>9, <1>20 DEF data
  <2> HIDE DEF code, late
  <2> QED BY <1>1, <1>10, <1>15, <1>17, <1>18, <1>19, <2>1, <2>3 DEF Reported
<1> QED BY <1>11, <1>12, <1>13, <1>14, <1>21 DEF IInv
------------------------------------------------------------------------------
LEMMA InitSafe == Init => IInv
<1> SUFFICES ASSUME Init PROVE IInv
  OBVIOUS
<1>1. /\ docker \in BOOLEAN /\ program \in Programs /\ todo = Written
      /\ pipe = [s \in Streams |-> <<>>] /\ container = "none" /\ client = None
      /\ reader = [s \in Streams |-> [pc |-> "none", data |-> <<>>, exceeded |-> FALSE]]
      /\ main = "stage" /\ missed = FALSE /\ result = None
  BY DEF Init
<1>2. <<>> \in Seq(Units) /\ Len(<<>>) = 0
  BY EmptySeq
<1>3. Written \in [Streams -> Seq(Units)]
  <2>1. program.out \in Seq(Units) /\ program.err \in Seq(Units)
    BY <1>1, SandboxAssumption
  <2> QED BY <2>1 DEF Written
<1>4. Typed
  <2>1. reader \in [Streams -> Readers]
    BY <1>1, <1>2 DEF Readers
  <2>2. pipe \in [Streams -> Seq(Units)]
    BY <1>1, <1>2
  <2> QED BY <1>1, <1>3, <2>1, <2>2 DEF Typed
<1>5. ~Launched
  BY <1>1 DEF Launched
<1>6. Phases
  BY <1>1, <1>5 DEF Phases
<1>7. ASSUME NEW s \in Streams PROVE Flow(s)
  <2>1. /\ reader[s].data = <<>> /\ reader[s].pc = "none" /\ ~reader[s].exceeded
        /\ pipe[s] = <<>> /\ todo[s] = Written[s]
    BY <1>1
  <2>2. Len(Written[s]) \in Nat /\ Limit \in Nat /\ PipeSize \in Nat
    BY <1>4, Lengths
  <2>3. Within(s) /\ KeptFirst(s)
    BY <1>2, <2>1, <2>2 DEF Within, KeptFirst
  <2>4. TodoLast(s)
    BY <2>1, <2>2 DEF TodoLast
  <2>5. PipeNext(s) /\ NothingLost(s)
    BY <1>2, <2>1, <2>2 DEF PipeNext, NothingLost
  <2>6. Ends(s)
    BY <2>1 DEF Ends
  <2> QED BY <2>3, <2>4, <2>5, <2>6 DEF Flow
<1>8. Clients /\ Reported
  BY <1>1 DEF Clients, Reported, InTime
<1> QED BY <1>4, <1>6, <1>7, <1>8 DEF IInv

LEMMA NextSafe == IInv /\ [Next]_vars => IInv'
<1> SUFFICES ASSUME IInv, [Next]_vars PROVE IInv'
  OBVIOUS
<1>1. CASE StageRefuses \/ RunLocally \/ Launch
  BY <1>1, StageRefusesSafe, RunLocallySafe, LaunchSafe
<1>2. CASE StartContainer \/ DaemonRefuses \/ Exit
  BY <1>2, StartContainerSafe, DaemonRefusesSafe, ExitSafe
<1>3. CASE \E s \in Streams : Write(s)
  BY <1>3, WriteSafe
<1>4. CASE \E s \in Streams : Read(s)
  BY <1>4, ReadSafe
<1>5. CASE \E s \in Streams : ReaderKills(s)
  BY <1>5, ReaderKillsSafe
<1>6. CASE \E s \in Streams : KillReturns(s)
  BY <1>6, KillReturnsSafe
<1>7. CASE WaitReturns \/ Timeout \/ KillClient \/ Return
  BY <1>7, WaitReturnsSafe, TimeoutSafe, KillClientSafe, ReturnSafe
<1>8. CASE UNCHANGED vars
  <2>1. UNCHANGED <<docker, program, todo, pipe, container, client, reader, main, missed, result>>
    BY <1>8 DEF vars
  <2>2. Typed' /\ Phases' /\ Clients' /\ Reported'
    <3>1. Written' = Written
      BY <2>1, WrittenFixed
    <3>2. Typed' /\ Phases' /\ Clients'
      BY <2>1, <3>1 DEF IInv, Typed, Phases, Clients, Launched, InTime, Natural, Refused
    <3>3. Reported'
      BY <2>1, <3>1 DEF IInv, Reported, Launched, Finished
    <3> QED BY <3>2, <3>3
  <2>3. \A s \in Streams : Flow(s)'
    BY <2>1, FlowFrame DEF IInv, InTime
  <2> QED BY <2>2, <2>3 DEF IInv
<1> QED BY <1>1, <1>2, <1>3, <1>4, <1>5, <1>6, <1>7, <1>8 DEF Next

(* Every state of a run has the invariant.                                 *)
THEOREM InvariantHolds == Spec => []IInv
<1>1. Init => IInv
  BY InitSafe
<1>2. IInv /\ [Next]_vars => IInv'
  BY NextSafe
<1> QED BY <1>1, <1>2, PTL DEF Spec

LEMMA InvariantTyped ==
  ASSUME IInv
  PROVE  TypeOK
<1>1. Typed /\ \A s \in Streams : Within(s)
  BY DEF IInv, Flow
<1> QED BY <1>1 DEF TypeOK, Typed, Within, Readers

(* Every variable has its type; a reader keeps no more than the limit, and *)
(* a pipe holds no more than its size (run.py:56-77).                      *)
THEOREM TypeCorrect == Spec => []TypeOK
<1>1. IInv => TypeOK
  BY InvariantTyped
<1> QED BY <1>1, InvariantHolds, PTL

(* What is reported of a run: it passed only if it ran to                  *)
(* its end and all of its output was kept by the threads that lived, and a *)
(* forged report is taken only as the last (run.py:150-258).               *)
THEOREM ReportsAreAlwaysTrue == Spec => []ReportIsTrue
<1>1. ASSUME IInv PROVE ReportIsTrue
  <2>1. TypeOK
    BY <1>1, InvariantTyped
  <2>2. main = "returned" => result # None
    BY <1>1 DEF IInv, Typed
  <2>3. PassedMeansItRan
    BY <1>1, <2>2 DEF IInv, Reported, PassedMeansItRan
  <2>4. CoverageIsTheRuns
    BY <1>1, <2>2 DEF IInv, Reported, CoverageIsTheRuns
  <2> QED BY <2>1, <2>3, <2>4 DEF ReportIsTrue
<1> QED BY <1>1, InvariantHolds, PTL

(* A kill of ours is never reported as the program's end, nor the other    *)
(* way round (run.py:73-76, 229-244).                                      *)
THEOREM KillsAreAlwaysOurs == Spec => []OurKillIsNotTheirs
<1>1. ASSUME IInv PROVE OurKillIsNotTheirs
  <2>1. main = "returned" => result # None
    BY <1>1 DEF IInv, Typed
  <2> QED BY <1>1, <2>1 DEF IInv, Reported, OurKillIsNotTheirs
<1> QED BY <1>1, InvariantHolds, PTL

(* A container that goes on after run() has returned was missed by a kill  *)
(* (run.py:229-237).                                                       *)
THEOREM LeftoversAreAlwaysMissed == Spec => []LeftoversAreMissedKills
<1>1. ASSUME IInv PROVE LeftoversAreMissedKills
  BY <1>1 DEF IInv, Clients, InTime, LeftoversAreMissedKills
<1> QED BY <1>1, InvariantHolds, PTL
==============================================================================
