---------------------------- MODULE MCSandboxRun ----------------------------
EXTENDS SandboxRun

Program(out, err) ==
  [language |-> "python", fits |-> TRUE, out |-> out, err |-> err, exit |-> 0, hangs |-> FALSE]

(* Reports alone, after a forged one, lost in a brace or to markup; output *)
(* at the limit, past it, and none to be decoded; programs that hang, are  *)
(* killed for their memory, end with a code that means something else, or  *)
(* are too big to be staged.                                               *)
MCPrograms ==
  {Program(<<"coverage", "xml">>, <<"text">>),
   Program(<<"text", "forged", "coverage", "xml">>, <<>>),
   [Program(<<"forged", "markup", "braced", "xml">>, <<"text">>) EXCEPT !.exit = 1],
   Program(<<"text", "text", "text", "text", "coverage", "xml">>, <<>>),
   Program(<<"text", "text", "text", "coverage", "xml">>, <<"text">>),
   Program(<<"xml">>, <<"text", "text", "text", "text", "text">>),
   Program(<<"bytes", "text", "text", "text", "coverage">>, <<>>),
   Program(<<"text", "bytes">>, <<>>),
   [Program(<<"text", "text", "text">>, <<"text">>) EXCEPT !.hangs = TRUE],
   [Program(<<"text", "text", "text", "text", "text", "text">>, <<"text">>) EXCEPT !.hangs = TRUE],
   [Program(<<"text", "text">>, <<"text">>) EXCEPT !.exit = 137],
   [Program(<<"coverage", "forged">>, <<>>) EXCEPT !.exit = 124],
   [Program(<<"text">>, <<>>) EXCEPT !.exit = 125],
   [Program(<<"coverage", "xml">>, <<>>) EXCEPT !.language = "java"],
   [Program(<<>>, <<>>) EXCEPT !.fits = FALSE]}
=============================================================================
