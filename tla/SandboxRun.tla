----------------------------- MODULE SandboxRun -----------------------------
(***************************************************************************)
(* One execution of a repository's tests (sandbox/run.py, called by        *)
(* sandbox_runner.py): the docker client and the container it starts, two  *)
(* threads that read the client's output and keep a bounded part of it,    *)
(* and the calling thread, which waits, kills at the time-out, joins the   *)
(* readers for five seconds and reports.  Where docker is not there the    *)
(* tests run in a subprocess.  Output is counted in units, each a kind of  *)
(* text the parsers tell apart.                                            *)
(***************************************************************************)
EXTENDS Integers, SequencesExt

CONSTANTS Programs,  \* what may be run: [language, fits, out, err, exit, hangs]
          Limit,     \* policy.MAX_STDOUT_BYTES and MAX_STDERR_BYTES
          Chunk,     \* what one read asks for
          PipeSize,  \* what a pipe and the buffer of its reader hold
          Running, None

Streams == {"out", "err"}

(* Text, reports of coverage, real or printed by a test, a report spoilt   *)
(* by a brace, XML, what spoils it, and what cannot be decoded.            *)
Units == {"text", "coverage", "forged", "braced", "xml", "markup", "bytes"}

Reports ==
  [code : 0 .. 255, timedOut : BOOLEAN, status : {"passed", "failed"},
   coverage : {"coverage", "forged", "fabricated", None},
   tests : {"counted", "fabricated", None}]

ASSUME SandboxAssumption ==
  /\ Limit \in Nat \ {0} /\ Chunk \in Nat \ {0} /\ PipeSize \in Nat
  /\ Chunk <= PipeSize
  /\ Programs \subseteq [language : {"python", "java"}, fits : BOOLEAN, hangs : BOOLEAN,
                         out : Seq(Units), err : Seq(Units), exit : 0 .. 255]
  /\ Running # None /\ Running \notin 0 .. 255
  /\ None \notin 0 .. 255 /\ None \notin Units /\ None \notin Reports

EXIT_TIMEOUT == 124
EXIT_RESOURCE_LIMIT == 125
EXIT_OOM == 137

VARIABLES docker,     \* is_docker_sandbox_ready()
          program,
          todo,       \* what the program has still to write
          pipe,       \* written and not yet read
          container,  \* "none", "starting", "running", "gone"
          client,     \* the docker client: None, Running, or its exit code
          reader,     \* [pc, data, exceeded] of each stream
          main,       \* where the calling thread is
          missed,     \* a kill found no container to kill
          result      \* what run() returns, and the stored run's status

vars == <<docker, program, todo, pipe, container, client, reader, main, missed, result>>

Written == [s \in Streams |-> IF s = "out" THEN program.out ELSE program.err]

Init ==
  /\ docker \in BOOLEAN /\ program \in Programs
  /\ todo = Written
  /\ pipe = [s \in Streams |-> <<>>]
  /\ container = "none" /\ client = None
  /\ reader = [s \in Streams |-> [pc |-> "none", data |-> <<>>, exceeded |-> FALSE]]
  /\ main = "stage" /\ missed = FALSE /\ result = None

(* ---- what is made of the output ---------------------------------------- *)

(* Fault: the first line that looks like a report is taken.                *)
ExtractFirst(data) ==
  LET i == SelectInSeq(data, LAMBDA u : u \in {"forged", "coverage"}) IN
  IF i = 0 THEN None ELSE data[i]

(* extract_coverage: the last line that parses as a report, which a test   *)
(* may have printed; coverage.json does not when a brace follows it in the *)
(* line, as a failure message of junit.xml may bring.                      *)
ExtractCoverage(data) ==
  LET i == SelectLastInSeq(data, LAMBDA u : u \in {"forged", "coverage"}) IN
  IF i = 0 THEN None ELSE data[i]

(* parse_tests_report: all of the output has to be XML.                    *)
ParseTestsReport(data) ==
  IF Contains(data, "xml") /\ ~Contains(data, "markup") THEN "counted" ELSE None

Report(code, timedOut, coverage, tests) ==
  /\ result' = [code |-> code, timedOut |-> timedOut, coverage |-> coverage, tests |-> tests,
                status |-> IF code = 0 /\ ~timedOut THEN "passed" ELSE "failed"]
  /\ main' = "returned"

(* ---- staging, and the run without docker -------------------------------- *)
StageRefuses ==
  /\ main = "stage" /\ ~program.fits
  /\ Report(EXIT_RESOURCE_LIMIT, FALSE, None, None)
  /\ UNCHANGED <<docker, program, todo, pipe, container, client, reader, missed>>

(* pytest in a subprocess, its reports read from files; a time-out or an   *)
(* output that cannot be decoded leaves none.  For Java nothing is run and *)
(* the figures are constants.                                              *)
RunLocally ==
  /\ main = "stage" /\ program.fits /\ ~docker
  /\ UNCHANGED <<docker, program, todo, pipe, container, client, reader, missed>>
  /\ IF program.language = "java" THEN Report(0, FALSE, "fabricated", "fabricated")
     ELSE \/ Report(EXIT_TIMEOUT, TRUE, None, None)
          \/ /\ ~program.hangs
             /\ IF Contains(program.out \o program.err, "bytes")
                THEN Report(1, FALSE, None, None)
                ELSE Report(program.exit, FALSE,
                       IF Contains(program.out, "coverage") THEN "coverage" ELSE None,
                       IF Contains(program.out, "xml") THEN "counted" ELSE None)

Launch ==
  /\ main = "stage" /\ program.fits /\ docker
  /\ container' = "starting" /\ client' = Running /\ main' = "wait"
  /\ reader' = [s \in Streams |-> [reader[s] EXCEPT !.pc = "reading"]]
  /\ UNCHANGED <<docker, program, todo, pipe, missed, result>>

(* ---- the container and its client --------------------------------------- *)

(* The client asks the daemon for it, so that it must still run.           *)
StartContainer ==
  /\ container = "starting" /\ client = Running
  /\ container' = "running"
  /\ UNCHANGED <<docker, program, todo, pipe, client, reader, main, missed, result>>

(* Or the daemon refuses, which docker run reports as 125 too.             *)
DaemonRefuses ==
  /\ container = "starting" /\ client = Running
  /\ container' = "gone" /\ client' = EXIT_RESOURCE_LIMIT
  /\ UNCHANGED <<docker, program, todo, pipe, reader, main, missed, result>>

(* The client passes the output on, and waits where a pipe is full; what a *)
(* container writes after its client ended goes nowhere.                   *)
Write(s) ==
  /\ container = "running" /\ todo[s] # <<>>
  /\ todo' = [todo EXCEPT ![s] = Tail(@)]
  /\ IF client = Running
     THEN Len(pipe[s]) < PipeSize /\ pipe' = [pipe EXCEPT ![s] = Append(@, Head(todo[s]))]
     ELSE UNCHANGED pipe
  /\ UNCHANGED <<docker, program, container, client, reader, main, missed, result>>

Exit ==
  /\ container = "running" /\ ~program.hangs /\ \A s \in Streams : todo[s] = <<>>
  /\ container' = "gone"
  /\ client' = IF client = Running THEN program.exit ELSE client
  /\ UNCHANGED <<docker, program, todo, pipe, reader, main, missed, result>>

(* docker kill: a container that is not running is no error to the caller. *)
KillContainer ==
  IF container = "running"
  THEN /\ container' = "gone" /\ UNCHANGED missed
       /\ client' = IF client = Running THEN EXIT_OOM ELSE client
  ELSE missed' = TRUE /\ UNCHANGED <<container, client>>

(* ---- _BoundedReader ----------------------------------------------------- *)

(* A read returns a whole chunk, or the rest once the client has ended.    *)
Readable(s) ==
  /\ reader[s].pc = "reading"
  /\ Len(pipe[s]) >= Chunk \/ client # Running

Taken(s) == SubSeq(pipe[s], 1, IF Len(pipe[s]) < Chunk THEN Len(pipe[s]) ELSE Chunk)

(* Fault: the flag is set when the kill has returned.                      *)
KeepUnflagged(r, chunk) ==
  LET room == Limit - Len(r.data)
      over == Len(chunk) > room
  IN [r EXCEPT !.data = @ \o SubSeq(chunk, 1, IF over THEN room ELSE Len(chunk)),
               !.pc = IF over THEN "killing" ELSE "reading"]

(* Fault: the chunk is kept before the limit is looked at.                 *)
KeepWhole(r, chunk) ==
  LET over == Len(r.data) + Len(chunk) > Limit IN
  [r EXCEPT !.data = @ \o chunk, !.exceeded = over,
            !.pc = IF over THEN "killing" ELSE "reading"]

(* What is kept of a chunk, and whether the limit was passed.              *)
Keep(r, chunk) ==
  LET room == Limit - Len(r.data)
      over == Len(chunk) > room
  IN [r EXCEPT !.data = @ \o SubSeq(chunk, 1, IF over THEN room ELSE Len(chunk)),
               !.exceeded = over,
               !.pc = IF over THEN "killing" ELSE "reading"]

(* The thread ends at the end of the output, and dies where it cannot be   *)
(* decoded; past the limit it reads on and keeps nothing.                  *)
Read(s) ==
  LET chunk == Taken(s) IN
  /\ Readable(s)
  /\ pipe' = [pipe EXCEPT ![s] = SubSeq(@, Len(chunk) + 1, Len(@))]
  /\ reader' = [reader EXCEPT ![s] =
       IF chunk = <<>> THEN [@ EXCEPT !.pc = "ended"]
       ELSE IF Contains(chunk, "bytes") THEN [@ EXCEPT !.pc = "died"]
       ELSE IF @.exceeded THEN @ ELSE Keep(@, chunk)]
  /\ UNCHANGED <<docker, program, todo, container, client, main, missed, result>>

ReaderKills(s) ==
  /\ reader[s].pc = "killing"
  /\ KillContainer
  /\ reader' = [reader EXCEPT ![s].pc = "killed"]
  /\ UNCHANGED <<docker, program, todo, pipe, main, result>>

KillReturns(s) ==
  /\ reader[s].pc = "killed"
  /\ reader' = [reader EXCEPT ![s].pc = "reading", ![s].exceeded = TRUE]
  /\ UNCHANGED <<docker, program, todo, pipe, container, client, main, missed, result>>

(* ---- run(): wait, and kill at the time-out ------------------------------ *)
WaitReturns ==
  /\ main = "wait" /\ client # Running
  /\ main' = "join"
  /\ UNCHANGED <<docker, program, todo, pipe, container, client, reader, missed, result>>

(* Fault: the client is killed and the container left alone.               *)
TimeoutKillingClient ==
  /\ main = "wait"
  /\ main' = "killClient"
  /\ UNCHANGED <<docker, program, todo, pipe, container, client, reader, missed, result>>

(* Fault: the wait has no time-out.                                        *)
TimeoutNever ==
  /\ main = "wait" /\ client # Running
  /\ main' = "killClient"
  /\ UNCHANGED <<docker, program, todo, pipe, container, client, reader, missed, result>>

Timeout ==
  /\ main = "wait"
  /\ KillContainer
  /\ main' = "killClient"
  /\ UNCHANGED <<docker, program, todo, pipe, reader, result>>

KillClient ==
  /\ main = "killClient"
  /\ client' = IF client = Running THEN EXIT_OOM ELSE client
  /\ main' = "joinLate"
  /\ UNCHANGED <<docker, program, todo, pipe, container, reader, missed, result>>

(* Five seconds are enough for a thread that reads what is left, though    *)
(* not always for one that waits for docker kill.                          *)
Joined(s) == reader[s].pc \in {"killing", "killed", "ended", "died"}

(* Fault: what ran out of room is told only in the reason.                 *)
ReturnUnlimited ==
  /\ main \in {"join", "joinLate"} /\ \A s \in Streams : Joined(s)
  /\ LET late == main = "joinLate"
         data == reader["out"].data
     IN Report(IF late THEN EXIT_TIMEOUT ELSE client,
               late, ExtractCoverage(data), ParseTestsReport(data))
  /\ UNCHANGED <<docker, program, todo, pipe, container, client, reader, missed>>

Return ==
  /\ main \in {"join", "joinLate"} /\ \A s \in Streams : Joined(s)
  /\ LET late == main = "joinLate"
         over == \E s \in Streams : reader[s].exceeded
         data == reader["out"].data
     IN Report(IF late THEN EXIT_TIMEOUT ELSE IF over THEN EXIT_RESOURCE_LIMIT ELSE client,
               late, ExtractCoverage(data), ParseTestsReport(data))
  /\ UNCHANGED <<docker, program, todo, pipe, container, client, reader, missed>>

Next ==
  \/ StageRefuses
  \/ RunLocally
  \/ Launch
  \/ StartContainer
  \/ DaemonRefuses
  \/ \E s \in Streams : Write(s)
  \/ Exit
  \/ \E s \in Streams : Read(s)
  \/ \E s \in Streams : ReaderKills(s)
  \/ \E s \in Streams : KillReturns(s)
  \/ WaitReturns
  \/ Timeout
  \/ KillClient
  \/ Return

(* Threads are scheduled and the time-out comes; the program and the       *)
(* daemon owe nothing.                                                     *)
Fairness ==
  /\ WF_vars(StageRefuses) /\ WF_vars(RunLocally) /\ WF_vars(Launch)
  /\ \A s \in Streams : WF_vars(Read(s)) /\ WF_vars(ReaderKills(s)) /\ WF_vars(KillReturns(s))
  /\ WF_vars(WaitReturns) /\ WF_vars(Timeout) /\ WF_vars(KillClient) /\ WF_vars(Return)

Spec == Init /\ [][Next]_vars /\ Fairness
-----------------------------------------------------------------------------
TypeOK ==
  /\ docker \in BOOLEAN /\ program \in Programs /\ missed \in BOOLEAN
  /\ \A s \in Streams : /\ Len(pipe[s]) <= PipeSize
                        /\ Len(reader[s].data) <= Limit
                        /\ reader[s].pc \in {"none", "reading", "killing", "killed", "ended", "died"}
  /\ container \in {"none", "starting", "running", "gone"}
  /\ client \in {None, Running} \union 0 .. 255
  /\ main \in {"stage", "wait", "killClient", "join", "joinLate", "returned"}
  /\ main = "returned" <=> result # None

(***************************************************************************)
(* A run that passed ran: its program exited by itself with 0, all it had  *)
(* to write was written, and each thread that lived to the end kept it all *)
(* (run.py:210-258).  Java without docker passes unrun                     *)
(* (sandbox_runner.py:209-210) and is left out.                            *)
(***************************************************************************)
PassedMeansItRan ==
  main = "returned" /\ result.status = "passed" /\ (docker \/ program.language = "python") =>
    /\ program.exit = 0 /\ ~program.hangs
    /\ docker => \A s \in Streams :
         /\ todo[s] = <<>>
         /\ reader[s].pc = "ended" => reader[s].data = Written[s]

(***************************************************************************)
(* An exit code that stands for a kill or a limit is reported for nothing  *)
(* else, unless the program ended with it by itself: a container killed    *)
(* for its output is reported as 125 and never as 137, one killed at the   *)
(* time-out as 124, however the threads interleave and however long docker *)
(* kill takes; 125 may also be a daemon that refused, and then nothing was *)
(* run (run.py:73-76, 229-244).                                            *)
(***************************************************************************)
OurKillIsNotTheirs ==
  main = "returned" =>
    /\ result.timedOut => result.code = EXIT_TIMEOUT
    /\ result.code = EXIT_TIMEOUT => result.timedOut \/ program.exit = EXIT_TIMEOUT
    /\ result.code = EXIT_OOM => program.exit = EXIT_OOM
    /\ result.code = EXIT_RESOURCE_LIMIT =>
         \/ ~program.fits \/ program.exit = EXIT_RESOURCE_LIMIT
         \/ \E s \in Streams : Len(Written[s]) > Limit
         \/ todo = Written

(***************************************************************************)
(* A report a test printed is taken for the run's coverage only when the   *)
(* run's own was not among what was kept, or one more was printed after it *)
(* by the test report (run.py:33-42, 189-207).                             *)
(***************************************************************************)
ForgedLast(output) ==
  \E i, j \in 1 .. Len(output) : i < j /\ output[i] = "coverage" /\ output[j] = "forged"

CoverageIsTheRuns ==
  main = "returned" /\ result.coverage = "forged" =>
    ForgedLast(program.out) \/ ~Contains(reader["out"].data, "coverage")

(***************************************************************************)
(* What is reported of a run: passed means it ran to its end, docker or a  *)
(* Python program being there, and a line a test printed is reported as    *)
(* coverage only after, or for want of, the run's own (run.py:150-258,     *)
(* sandbox_runner.py:206-245).                                             *)
(***************************************************************************)
ReportIsTrue == TypeOK /\ PassedMeansItRan /\ CoverageIsTheRuns

(***************************************************************************)
(* A container goes on after run() has returned only if the kill was sent  *)
(* before it had started (run.py:229-237).                                 *)
(***************************************************************************)
LeftoversAreMissedKills ==
  main = "returned" /\ container = "running" => missed

(***************************************************************************)
(* Every run is reported and both its threads end, whether the program     *)
(* hangs, floods a pipe or cannot be decoded (run.py:48-77, 229-238).      *)
(***************************************************************************)
EveryRunEnds ==
  <>[](result # None /\ \A s \in Streams : reader[s].pc \in {"none", "ended", "died"})
=============================================================================
