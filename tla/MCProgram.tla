------------------------------ MODULE MCProgram -----------------------------
(* Startup, LogLine and StackTrace for TLC: in a behaviour one of them moves, *)
(* the one its initial state gives an input, and parse_args may also be that  *)
(* one, with more command lines than Startup is tried with.                   *)
EXTENDS Startup, LogLine, StackTrace

VARIABLE machine

vars == <<machine, args, program, line, trace>>

MCCustomLevel == "LOUD" :> 5 @@ "INFO" :> 2
MCNumber      == "9" :> 9 @@ "-5" :> -5 @@ "100" :> 100 @@ "-100" :> -100
                 @@ "-41" :> -41
MCPrefix      == "7x" :> 7

MCPreambles   == {Range(Columns), {"time", "file", "pipe"}, {}}
MCUptimes     == {0, 9999999, 10000000, 99999999, 1000000000}
MCLineNumbers == {1, 99999, 1000000}
MCVerbosities == {-9, -3, -2, -1, 0, 1, 2, 9, 10, 127, 128, 256}
MCCustomName  == 2 :> "LOUD" @@ 9 :> "DEBUG1" @@ 10 :> "DETAIL"
MCFourLetters == [n \in OwnNames \cup {"LOUD"} |-> n]
                 @@ "DEBUG1" :> "DEBU" @@ "DETAIL" :> "DETA"
MCFourDigits  == [b \in Int8 |-> ToString(b)]

MCSymbols == {<<"a", "b", "c">>, <<"a", "a", "a", "c">>,
              <<"c", "a", "b", "a", "b">>}
MCCleanups == {[find |-> <<"a", "b">>, by |-> <<"a">>],
               [find |-> <<"a", "a">>, by |-> <<"b">>],
               [find |-> <<"b">>, by |-> <<"b">>],
               [find |-> <<"c">>, by |-> <<"c", "c">>]}
MC_REPLACE_LIST == <<[find |-> <<"c">>, by |-> <<"c">>], [find |-> <<"b", "c">>, by |-> <<"c">>]>>

Plain(w)     == [flag |-> FALSE, equals |-> 0, word |-> w]
MCArguments  == {Plain(w) : w \in {"9", "-5", "100", "-100", "-41", "INFO", "LOUD", "OFF", "7x", "data"}}
                \cup [flag : {TRUE}, equals : {0}, word : {"", "9", "erbose"}]
                \cup [flag : {TRUE}, equals : {1}, word : {"", "OFF", "LOUD"}]
                \cup [flag : {FALSE, TRUE}, equals : {1, 2}, word : {"9"}]
Program      == <<Plain("data")>>
CommandLines == {Program \o rest : rest \in BoundedSeq(MCArguments, MaxArgs)}
FewLines     == {Program, Program \o <<Plain("data")>>}
                \cup {Program \o <<[flag |-> TRUE, equals |-> 0, word |-> ""], Plain(w)>> :
                        w \in {"OFF", "9", "7x"}}

Init ==
  /\ machine \in {"args", "program", "line", "trace"}
  /\ IF machine = "args" THEN \E l \in CommandLines : ParseArgs(l, Verbosity_INFO)
     ELSE IF machine = "program"
          THEN \E l \in FewLines, v \in {-9, 0, 1} : ParseArgs(l, v)
          ELSE ParseArgs(Program, Verbosity_INFO)
  /\ NotStarted /\ NoLine /\ NoTrace
  /\ machine # "program" => g_preamble_header /\ ~buffered /\ on_close /\ on_flush
  /\ machine # "line" => g_preamble /\ preamble = Range(Columns)

Next ==
  /\ UNCHANGED machine
  /\ \/ machine = "args"    /\ ParseNext /\ UNCHANGED <<program, line, trace>>
     \/ machine = "program" /\ StartNext /\ UNCHANGED <<line, trace>>
     \/ machine = "line"    /\ LineNext  /\ UNCHANGED <<args, program, trace>>
     \/ machine = "trace"   /\ TraceNext /\ UNCHANGED <<args, program, line>>

(* do_replacements runs on. *)
Cleanup == machine = "trace" /\ (Replace \/ NextRule)
           /\ UNCHANGED <<machine, args, program, line>>

Spec == Init /\ [][Next]_vars /\ WF_vars(Cleanup)

=============================================================================
