----------------------------- MODULE CommandLine ----------------------------
(***************************************************************************)
(* parse_args: init takes the arguments meant for loguru out of argv, in   *)
(* place, and sets g_stderr_verbosity by them.                             *)
(*                                                                         *)
(* An argument is cut where the code looks: whether it begins with the     *)
(* verbosity flag, how many '=' come next, and the rest, a word that       *)
(* stands for itself.  What strtol makes of a word is its value and        *)
(* whether it read the whole word.  The integer types keep their relation: *)
(* a number is clamped to the range of long, then cut down to int.         *)
(***************************************************************************)
EXTENDS Integers, SequencesExt

CONSTANTS
  Null,           (* The end of argv.                                       *)
  CustomLevel,    (* s_name_to_verbosity_callback: a function from words.   *)
  Number,         (* The numbers among the words, a function to Int.        *)
  Prefix,         (* Words that only begin like a number, and that number.  *)
  OtherWords,     (* Words that do not even begin like one ...              *)
  Letters,        (* ... and the words that begin with a letter.            *)
  IntMax,         (* The ranges -IntMax-1 .. IntMax of int ...              *)
  LongMax,        (* ... and -LongMax-1 .. LongMax of long.                 *)
  MaxArgs         (* Bound: arguments after argv[0].                        *)

Verbosity_INVALID == -10
Verbosity_OFF     == -9
Verbosity_FATAL   == -3
Verbosity_ERROR   == -2
Verbosity_WARNING == -1
Verbosity_INFO    == 0

StandardLevel ==
  [OFF |-> Verbosity_OFF, INFO |-> Verbosity_INFO, WARNING |-> Verbosity_WARNING,
   ERROR |-> Verbosity_ERROR, FATAL |-> Verbosity_FATAL]

Words == {""} \cup DOMAIN StandardLevel \cup DOMAIN CustomLevel
         \cup DOMAIN Number \cup DOMAIN Prefix \cup OtherWords

ASSUME CommandLineAssumption ==
  /\ Letters \subseteq Words \ ({""} \cup DOMAIN Number \cup DOMAIN Prefix)
  /\ "" \notin DOMAIN Number \cup DOMAIN Prefix
  /\ IntMax \in Nat /\ LongMax \in Nat
  /\ IntMax < LongMax /\ (LongMax + 1) % (2 * (IntMax + 1)) = 0
  /\ -Verbosity_INVALID <= IntMax + 1
  /\ Verbosity_INVALID \notin Range(CustomLevel)
  /\ Range(CustomLevel) \cup Range(Number) \cup Range(Prefix) \subseteq Int
  /\ MaxArgs \in Nat

VARIABLES
  argc, argv,          (* init's parameters; what an argument is, is said   *)
                       (* above: flag, equals and word.                     *)
  arg_it, arg_dest, out_argc,
  g_stderr_verbosity,
  parsing,             (* "loop", "done" or, when a CHECK failed, "abort".  *)
  given                (* History: argv, and the verbosity, to begin with.  *)

args == <<argc, argv, arg_it, arg_dest, out_argc, g_stderr_verbosity,
          parsing, given>>

(* argv[i] of the code; the sequence begins with argv[0]. *)
Arg(i) == argv[i + 1]

ParseArgs(line, verbosity) ==
  /\ argc = Len(line)
  /\ argv = Append(line, Null)
  /\ arg_it = 1 /\ arg_dest = 1 /\ out_argc = Len(line)
  /\ g_stderr_verbosity = verbosity
  /\ parsing = "loop"
  /\ given = [argv |-> line, verbosity |-> verbosity]

Argument  == [flag : BOOLEAN, equals : Nat, word : Words]
ParseInit == \E line \in Seq(Argument) \ {<<>>}, verbosity \in Int : ParseArgs(line, verbosity)

-----------------------------------------------------------------------------
Clamp(n) == IF n > LongMax THEN LongMax ELSE IF n < -LongMax - 1 THEN -LongMax - 1 ELSE n
ToInt(n) == ((n + IntMax + 1) % (2 * (IntMax + 1))) - IntMax - 1

(* strtol reads nothing of "" and leaves `end` at its terminator: a number. *)
Strtol(w) ==
  IF w \in DOMAIN Number THEN [value |-> ToInt(Clamp(Number[w])), all |-> TRUE]
  ELSE IF w \in DOMAIN Prefix
       THEN [value |-> ToInt(Clamp(Prefix[w])), all |-> FALSE]
       ELSE [value |-> 0, all |-> w = ""]

StandardFirst(w) ==   \* mutant: the user's names are asked for last
  IF w \in DOMAIN StandardLevel THEN StandardLevel[w]
  ELSE IF w \in DOMAIN CustomLevel THEN CustomLevel[w] ELSE Verbosity_INVALID

get_verbosity_from_name(w) ==
  IF w \in DOMAIN CustomLevel THEN CustomLevel[w]
  ELSE IF w \in DOMAIN StandardLevel THEN StandardLevel[w] ELSE Verbosity_INVALID

(* A value: one '=' is skipped.  What begins with the flag or with a second *)
(* '=' is neither a name nor a number.                                       *)
Level(a) ==
  IF a.flag \/ a.equals > 1 THEN [value |-> 0, all |-> FALSE]
  ELSE IF get_verbosity_from_name(a.word) # Verbosity_INVALID
       THEN [value |-> get_verbosity_from_name(a.word), all |-> TRUE]
       ELSE Strtol(a.word)

(* cmd[arg_len] is read whatever the length of cmd: after an argument that is *)
(* shorter than the flag it is any byte.                                      *)
LastIsAlpha(a) ==
  IF a.flag THEN {a.equals = 0 /\ a.word \in Letters} ELSE BOOLEAN

IsFlag(a, alpha) == a.flag /\ ~alpha

(* The value is in the next argument. *)
Separate(a) == a.equals = 0 /\ a.word = ""

Shifted ==   \* mutant: argv[arg_it] is assigned, not argv[arg_dest]
  argv' = [argv EXCEPT ![arg_it + 1] = Arg(arg_it)]

Moved == argv' = [argv EXCEPT ![arg_dest + 1] = Arg(arg_it)]

KeepArgument ==
  /\ parsing = "loop" /\ arg_it < argc
  /\ \E alpha \in LastIsAlpha(Arg(arg_it)) : ~IsFlag(Arg(arg_it), alpha)
  /\ Moved
  /\ arg_dest' = arg_dest + 1
  /\ arg_it' = arg_it + 1
  /\ UNCHANGED <<argc, out_argc, g_stderr_verbosity, parsing, given>>

TakeFlag ==
  /\ parsing = "loop" /\ arg_it < argc
  /\ \E alpha \in LastIsAlpha(Arg(arg_it)) : IsFlag(Arg(arg_it), alpha)
  /\ LET value == arg_it + (IF Separate(Arg(arg_it)) THEN 1 ELSE 0)
         level == Level(IF Separate(Arg(arg_it)) THEN Arg(value)
                        ELSE [Arg(value) EXCEPT !.flag = FALSE])
     IN IF value = argc
        THEN /\ parsing' = "abort"     \* CHECK_LT_F: no value
             /\ out_argc' = out_argc - 1
             /\ UNCHANGED <<arg_it, g_stderr_verbosity>>
        ELSE /\ g_stderr_verbosity' = level.value
             /\ parsing' = IF level.all THEN "loop" ELSE "abort"
             /\ out_argc' = out_argc - 1 - (value - arg_it)
             /\ arg_it' = value + 1
  /\ UNCHANGED <<argc, argv, arg_dest, given>>

EndParseArgs ==
  /\ parsing = "loop" /\ arg_it >= argc
  /\ argc' = out_argc
  /\ argv' = [argv EXCEPT ![out_argc + 1] = Null]
  /\ parsing' = "done"
  /\ UNCHANGED <<arg_it, arg_dest, out_argc, g_stderr_verbosity, given>>

ParseNext == KeepArgument \/ TakeFlag \/ EndParseArgs
ParseSpec == ParseInit /\ [][ParseNext]_args

-----------------------------------------------------------------------------
(***************************************************************************)
(* The reference: what each argument of the command line is.               *)
(***************************************************************************)
TakesFlag(a) == a.flag /\ ~(a.equals = 0 /\ a.word \in Letters)

Role == LET r[i \in DOMAIN given.argv] ==
              IF i = 1 THEN "program"
              ELSE IF r[i - 1] = "flag" /\ Separate(given.argv[i - 1]) THEN "value"
              ELSE IF TakesFlag(given.argv[i]) THEN "flag" ELSE "kept"
        IN r

Kept(i) == Role[i] \in {"program", "kept"}
Flags   == {i \in DOMAIN given.argv : Role[i] = "flag"}

(* What the flag at i has for a value, if anything. *)
HasValue(i) == i < Len(given.argv) \/ ~Separate(given.argv[i])
Value(i) == IF Separate(given.argv[i]) THEN given.argv[i + 1]
            ELSE [given.argv[i] EXCEPT !.flag = FALSE]

Named(w) == w \in DOMAIN StandardLevel \cup DOMAIN CustomLevel
IsLevel(a) == ~a.flag /\ a.equals <= 1
              /\ (Named(a.word) \/ a.word \in DOMAIN Number \/ a.word = "")

(* init leaves argv with the program's own arguments, all of them, in their  *)
(* order, followed by the null pointer, and argc counts them; a flag's value *)
(* goes with the flag even when it looks like another argument.  Meanwhile   *)
(* no argument is overwritten before it was looked at.                       *)
ProgramKeepsItsArguments ==
  /\ \A i \in DOMAIN given.argv : i > arg_it => argv[i] = given.argv[i]
  /\ parsing = "done" =>
    /\ SubSeq(argv, 1, argc) =
         [k \in 1..Cardinality({i \in DOMAIN given.argv : Kept(i)}) |->
            given.argv[CHOOSE i \in DOMAIN given.argv :
              Kept(i) /\ Cardinality({j \in 1..i : Kept(j)}) = k]]
    /\ Arg(argc) = Null

(* The int whose bits are those that an int keeps of n. *)
LowBits(g, n) == g \in (-IntMax - 1)..IntMax /\ (g - n) % (2 * (IntMax + 1)) = 0

(* The last flag decides, by a name, the user's before loguru's own, or by   *)
(* the number as it was written; without a flag the program's setting stays. *)
(* At the edges: "-v=" is level 0; of a number that a long can hold and an   *)
(* int cannot, the low bits are the level, which may be any, OFF too; and    *)
(* one that no long can hold is WARNING or, if negative, INFO: the ends of   *)
(* long cut down to an int.  The program goes on exactly when every flag has *)
(* a value that is a level.                                                  *)
LastFlagDecides ==
  /\ parsing # "loop" =>
       (parsing = "done" <=> \A i \in Flags : HasValue(i) /\ IsLevel(Value(i)))
  /\ parsing = "done" =>
    IF Flags = {} THEN g_stderr_verbosity = given.verbosity
    ELSE LET w == Value(Max(Flags)).word
             Is(level) == g_stderr_verbosity = level
         IN IF w \in DOMAIN CustomLevel THEN Is(CustomLevel[w])
            ELSE IF w \in DOMAIN StandardLevel THEN Is(StandardLevel[w])
            ELSE IF w = "" THEN Is(Verbosity_INFO)
            ELSE /\ Number[w] \in (-IntMax - 1)..IntMax => Is(Number[w])
                 /\ Number[w] \in (-LongMax - 1)..LongMax
                      => LowBits(g_stderr_verbosity, Number[w])
                 /\ Number[w] > LongMax => Is(Verbosity_WARNING)
                 /\ Number[w] < -LongMax => Is(Verbosity_INFO)

=============================================================================
