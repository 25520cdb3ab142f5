---------------------------- MODULE ProgramProofs ---------------------------
(***************************************************************************)
(* What is proved of a program's beginning and end: parse_args leaves the  *)
(* program its arguments and takes its level from the last flag, whatever  *)
(* the command line; the header comes first; what was logged before the    *)
(* exit is durable after it and nobody uses a destroyed s_callbacks; and   *)
(* the columns of a line stand under the header's.                         *)
(***************************************************************************)
EXTENDS Startup, LogLine, FiniteSetTheorems,
        WellFoundedInduction, TLAPS

-----------------------------------------------------------------------------
Below == {p \in Nat \X Nat : p[1] < p[2]}

(* The order of the natural numbers is well founded.                         *)
LEMMA BelowWF == IsWellFoundedOn(Below, Nat)
<1>1. IsWellFoundedOn(OpToRel(<, Nat), Nat)
  BY NatLessThanWellFounded
<1>2. OpToRel(<, Nat) = Below
  BY Zenon DEF OpToRel, Below
<1> QED BY <1>1, <1>2, Zenon

(* Every set of numbers that is not empty has a least one: induction, as a   *)
(* fact about sets.                                                          *)
LEMMA Least ==
  ASSUME NEW T \in SUBSET Nat, T # {}
  PROVE  \E n \in T : \A m \in T : n <= m
<1>2. PICK n \in T : \A m \in T : <<m, n>> \notin Below
  BY BelowWF, WFMin
<1>3. ASSUME NEW m \in T, m < n PROVE FALSE
  <2>1. m \in Nat /\ n \in Nat
    OBVIOUS
  <2>2. <<m, n>> \in Nat \X Nat /\ <<m, n>>[1] < <<m, n>>[2]
    BY <2>1, <1>3, SMT
  <2> QED BY <2>2, <1>2 DEF Below
<1> QED BY <1>3, SMT

-----------------------------------------------------------------------------
(* The values the startup's variables take. *)
StartTypeOK ==
  /\ stage \in {"before", "getcwd", "parse", "header", "messages", "atexit",
                "main", "shutdown", "late_objects", "flush", "flushing",
                "early_objects", "older_objects", "end", "aborted"}
  /\ g_preamble_header \in BOOLEAN /\ buffered \in BOOLEAN
  /\ on_close \in BOOLEAN /\ on_flush \in BOOLEAN
  /\ g_stderr_verbosity \in Int
  /\ on_stderr \in Seq({"warning", "header", "line"})
  /\ s_current_dir \in BOOLEAN /\ atexit_handler \in BOOLEAN
  /\ installed \in BOOLEAN /\ dead \in BOOLEAN /\ s_needs_flushing \in BOOLEAN
  /\ s_mutex \in {"free", "main", "flusher"}
  /\ flusher \in {"unborn", "idle", "flush", "flushing"}
  /\ logged \in Nat /\ durable \in Nat /\ messages \in Nat
  /\ owed.logged \in Nat /\ owed.messages \in Nat
  /\ dead_use \in SUBSET {"main", "flusher"}

(* What the callback was given is kept by on_close when it is removed, and   *)
(* by on_flush at the flush of on_atexit, before s_callbacks goes.           *)
KeptInv ==
  /\ durable <= logged /\ owed.logged <= logged
  /\ ~installed /\ on_close => durable = logged
  /\ dead <=> stage \in {"older_objects", "end"}
  /\ stage \notin {"flush", "flushing", "early_objects", "older_objects", "end"}
       => owed.logged = 0
  /\ stage \in {"early_objects", "older_objects", "end"} /\ Keeps
       => durable >= owed.logged

(* Who has the mutex; and, after on_atexit, why the flush thread sleeps.     *)
DeadInv ==
  /\ ~dead => dead_use = {}
  /\ s_mutex = "flusher" <=> flusher = "flushing"
  /\ s_mutex = "main" <=> stage = "flushing"
  /\ stage \notin {"flush", "flushing", "early_objects", "older_objects", "end"}
       => owed.messages = 0
  /\ messages >= owed.messages
  /\ atexit_handler /\ stage \in {"early_objects", "older_objects", "end"} =>
       \/ on_its_way
       \/ messages > owed.messages
       \/ ~s_needs_flushing /\ flusher \in {"unborn", "idle"} /\ dead_use = {}

(* Before the header nothing but the warning is said.                        *)
HeaderInv ==
  /\ stage \in {"before", "getcwd", "parse", "header", "aborted"} => Said = {}
  /\ stage = "messages" =>
       IF g_stderr_verbosity >= Verbosity_INFO /\ g_preamble_header
       THEN HeaderFirst ELSE Said = {}
  /\ HeaderOnTop

-----------------------------------------------------------------------------
(* What a level is worth is a number, whatever stands for it.               *)
LEMMA ToIntIsInt ==
  ASSUME NEW n \in Int
  PROVE  ToInt(Clamp(n)) \in Int
<1>1. IntMax \in Nat /\ LongMax \in Nat
  BY CommandLineAssumption
<1>2. Clamp(n) \in Int
  BY <1>1, SMT DEF Clamp
<1>3. ASSUME NEW c \in Int PROVE ToInt(c) \in Int
  BY <1>1, SMT DEF ToInt
<1> QED BY <1>2, <1>3

(* Every name of loguru's own has a level,                                   *)
LEMMA StandardIsInt ==
  \A w \in DOMAIN StandardLevel : StandardLevel[w] \in Int
BY SMT DEF StandardLevel, Verbosity_OFF, Verbosity_INFO, Verbosity_WARNING,
           Verbosity_ERROR, Verbosity_FATAL

(* and so has every name that is asked for,                                  *)
LEMMA NameIsInt ==
  ASSUME NEW w
  PROVE  get_verbosity_from_name(w) \in Int
<1>1. ASSUME w \in DOMAIN CustomLevel PROVE CustomLevel[w] \in Int
  BY <1>1, CommandLineAssumption, Zenon DEF Range
<1>2. Verbosity_INVALID \in Int
  BY SMT DEF Verbosity_INVALID
<1> QED BY <1>1, <1>2, StandardIsInt, Zenon DEF get_verbosity_from_name

(* every text strtol reads,                                                  *)
LEMMA StrtolIsInt ==
  ASSUME NEW w
  PROVE  Strtol(w).value \in Int
<1>1. CASE w \in DOMAIN Number
  <2>1. Number[w] \in Int
    BY <1>1, CommandLineAssumption, Zenon DEF Range
  <2> QED BY <1>1, <2>1, ToIntIsInt, Zenon DEF Strtol
<1>2. CASE w \notin DOMAIN Number /\ w \in DOMAIN Prefix
  <2>1. Prefix[w] \in Int
    BY <1>2, CommandLineAssumption, Zenon DEF Range
  <2> QED BY <1>2, <2>1, ToIntIsInt, Zenon DEF Strtol
<1>3. CASE w \notin DOMAIN Number /\ w \notin DOMAIN Prefix
  BY <1>3, 0 \in Int, Zenon DEF Strtol
<1> QED BY <1>1, <1>2, <1>3, Zenon

(* and every value of a flag.                                                *)
LEMMA LevelIsInt ==
  ASSUME NEW a
  PROVE  Level(a).value \in Int
<1>1. CASE a.flag \/ a.equals > 1
  BY <1>1, SMT DEF Level
<1>2. CASE ~(a.flag \/ a.equals > 1)
  BY <1>2, NameIsInt, StrtolIsInt, Zenon DEF Level
<1> QED BY <1>1, <1>2, Zenon

(* parse_args leaves a level in g_stderr_verbosity.                         *)
LEMMA ParseKeepsLevel ==
  ASSUME g_stderr_verbosity \in Int, ParseNext
  PROVE  g_stderr_verbosity' \in Int
<1>1. CASE KeepArgument
  BY <1>1, Zenon DEF KeepArgument
<1>2. CASE TakeFlag
  BY <1>2, LevelIsInt, Zenon DEF TakeFlag
<1>3. CASE EndParseArgs
  BY <1>3, Zenon DEF EndParseArgs
<1> QED BY <1>1, <1>2, <1>3, Zenon DEF ParseNext

-----------------------------------------------------------------------------
(***************************************************************************)
(* CommandLine.                                                            *)
(***************************************************************************)
(* An argument's role, by the one before it.                                *)
NextRole(r, i) == IF i = 1 THEN "program"
                  ELSE IF r = "flag" /\ Separate(given.argv[i - 1]) THEN "value"
                  ELSE IF TakesFlag(given.argv[i]) THEN "flag" ELSE "kept"

(* The roles of the first m arguments exist, whatever m.                    *)
LEMMA RolesExist ==
  ASSUME NEW n \in Nat
  PROVE  \E f : f = [i \in 1..n |-> NextRole(f[i - 1], i)]
<1> DEFINE Roles(f, m) == f = [i \in 1..m |-> NextRole(f[i - 1], i)]
           T == {m \in Nat : ~ \E f : Roles(f, m)}
<1> SUFFICES ASSUME T # {} PROVE FALSE
  <2>1. n \notin T => \E f : Roles(f, n)
    OBVIOUS
  <2> QED BY <2>1
<1>1. PICK m \in T : \A k \in T : m <= k
  <2>1. T \in SUBSET Nat
    OBVIOUS
  <2> HIDE DEF T
  <2> QED BY <2>1, Least
<1>2. CASE m = 0
  <2> DEFINE g == [i \in 1..0 |-> "program"]
  <2>1. Roles(g, 0)
    BY SMT
  <2> QED BY <2>1, <1>2
<1>3. CASE m # 0
  <2>1. m \in Nat /\ m - 1 \in Nat /\ m - 1 < m
    BY <1>3, SMT
  <2>2. m - 1 \notin T
    <3> HIDE DEF T
    <3> QED BY <2>1, <1>1, SMT
  <2>3. PICK f : Roles(f, m - 1)
    BY <2>1, <2>2
  <2> DEFINE g == [i \in 1..m |-> NextRole(f[i - 1], i)]
  <2>4. \A i \in 1..(m - 1) : g[i] = f[i]
    <3>1. ASSUME NEW i \in 1..(m - 1) PROVE g[i] = f[i]
      <4>1. i \in 1..m
        BY <2>1, SMT
      <4>2. f[i] = NextRole(f[i - 1], i)
        BY <2>3, Zenon
      <4> QED BY <4>1, <4>2, Zenon
    <3> QED BY <3>1
  <2>5. \A i \in 1..m : NextRole(f[i - 1], i) = NextRole(g[i - 1], i)
    <3>1. ASSUME NEW i \in 1..m, i # 1 PROVE g[i - 1] = f[i - 1]
      <4>1. i - 1 \in 1..(m - 1)
        BY <3>1, <2>1, SMT
      <4> QED BY <4>1, <2>4, Zenon
    <3>2. ASSUME NEW i \in 1..m, i = 1 PROVE NextRole(f[i - 1], i) = NextRole(g[i - 1], i)
      BY <3>2, Zenon DEF NextRole
    <3> QED BY <3>1, <3>2, Zenon
  <2>6. g = [i \in 1..m |-> NextRole(g[i - 1], i)]
    BY <2>5, Zenon
  <2>7. Roles(g, m)
    BY <2>6
  <2> HIDE DEF g
  <2> QED BY <2>7, <1>1
<1> QED BY <1>2, <1>3

(* The roles are those of the recursion that defines them.                   *)
LEMMA RoleIs ==
  ASSUME given.argv \in Seq(Argument)
  PROVE  \A i \in 1..Len(given.argv) : Role[i] = NextRole(Role[i - 1], i)
<1> DEFINE n == Len(given.argv)
           Roles(f) == f = [i \in DOMAIN given.argv |->
                         IF i = 1 THEN "program"
                         ELSE IF f[i - 1] = "flag" /\ Separate(given.argv[i - 1]) THEN "value"
                         ELSE IF TakesFlag(given.argv[i]) THEN "flag" ELSE "kept"]
<1>1. n \in Nat /\ DOMAIN given.argv = 1..n
  BY SMT
<1>2. PICK f : f = [i \in 1..n |-> NextRole(f[i - 1], i)]
  BY <1>1, RolesExist
<1>3. Roles(f)
  BY <1>1, <1>2, Zenon DEF NextRole
<1>4. Role = CHOOSE r : Roles(r)
  BY DEF Role
<1>5. Roles(Role)
  BY <1>3, <1>4, Zenon
<1> QED BY <1>1, <1>5, Zenon DEF NextRole

(* What the roles are made of does not change while arguments are taken.     *)
LEMMA RolesRest ==
  ASSUME given' = given
  PROVE  /\ Role' = Role
         /\ Flags' = Flags
         /\ \A i : Kept(i)' = Kept(i) /\ HasValue(i)' = HasValue(i) /\ Value(i)' = Value(i)
<1>1. Role' = Role
  BY ZenonT(40) DEF Role
<1> QED BY <1>1, Zenon DEF Flags, Kept, HasValue, Value

(* The kept arguments among the first n.                                     *)
KeptTo(n) == {j \in 1..n : Kept(j)}

(* One argument more, and they are as many or one more.                      *)
LEMMA KeptToIs ==
  ASSUME NEW n \in Nat
  PROVE  /\ IsFiniteSet(KeptTo(n)) /\ Cardinality(KeptTo(n)) \in Nat
         /\ Cardinality(KeptTo(n + 1)) = Cardinality(KeptTo(n)) + (IF Kept(n + 1) THEN 1 ELSE 0)
<1>1. IsFiniteSet(KeptTo(n)) /\ Cardinality(KeptTo(n)) \in Nat
  <2>1. KeptTo(n) \subseteq 1..n
    BY DEF KeptTo
  <2>2. IsFiniteSet(1..n)
    BY FS_Interval
  <2> QED BY <2>1, <2>2, FS_Subset, FS_CardinalityType
<1>2. CASE Kept(n + 1)
  <2>1. KeptTo(n + 1) = KeptTo(n) \cup {n + 1} /\ n + 1 \notin KeptTo(n)
    BY <1>2, SMT DEF KeptTo
  <2>2. Cardinality(KeptTo(n) \cup {n + 1}) = Cardinality(KeptTo(n)) + 1
    BY <1>1, <2>1, FS_AddElement
  <2> QED BY <1>1, <1>2, <2>1, <2>2
<1>3. CASE ~Kept(n + 1)
  <2>1. KeptTo(n + 1) = KeptTo(n)
    BY <1>3, SMT DEF KeptTo
  <2> QED BY <1>1, <1>3, <2>1, SMT
<1> QED BY <1>1, <1>2, <1>3

(* Two kept arguments do not have as many before them.                       *)
LEMMA KeptToGrows ==
  ASSUME NEW n \in Nat, NEW m \in Nat, n < m, Kept(m)
  PROVE  Cardinality(KeptTo(n)) < Cardinality(KeptTo(m))
<1>1. KeptTo(n) \subseteq KeptTo(m) /\ m \in KeptTo(m) /\ m \notin KeptTo(n)
  BY SMT DEF KeptTo
<1>2. IsFiniteSet(KeptTo(m))
  BY KeptToIs
<1>3. /\ Cardinality(KeptTo(n)) <= Cardinality(KeptTo(m))
      /\ Cardinality(KeptTo(n)) = Cardinality(KeptTo(m)) => KeptTo(n) = KeptTo(m)
  BY <1>1, <1>2, FS_Subset
<1>4. Cardinality(KeptTo(n)) \in Nat /\ Cardinality(KeptTo(m)) \in Nat
  BY KeptToIs
<1>5. KeptTo(n) # KeptTo(m)
  BY <1>1
<1> QED BY <1>3, <1>4, <1>5, SMT

(* The values parse_args' variables take.                                    *)
ParseTypeOK ==
  /\ given.argv \in Seq(Argument) /\ given.argv # <<>> /\ given.verbosity \in Int
  /\ argv \in Seq(Argument \cup {Null}) /\ Len(argv) = Len(given.argv) + 1
  /\ arg_it \in 1..Len(given.argv) /\ arg_dest \in 1..arg_it
  /\ g_stderr_verbosity \in Int
  /\ parsing \in {"loop", "done", "abort"}
  /\ parsing = "loop" =>
       argc = Len(given.argv) /\ out_argc = Len(given.argv) - (arg_it - arg_dest)
  /\ parsing = "done" =>
       argc = arg_dest /\ arg_it = Len(given.argv) /\ argv[argc + 1] = Null

(* What is ahead is as it was given; what is behind are the kept arguments,  *)
(* each where it belongs, and the next one is not a flag's value.            *)
ArgsInv ==
  /\ \A i \in 1..Len(given.argv) : i > arg_it => argv[i] = given.argv[i]
  /\ Cardinality(KeptTo(arg_it)) = arg_dest
  /\ \A k \in 1..arg_dest : \E i \in 1..arg_it :
       Kept(i) /\ Cardinality(KeptTo(i)) = k /\ argv[k] = given.argv[i]
  /\ parsing = "loop" =>
       ~(Role[arg_it] = "flag" /\ Separate(given.argv[arg_it]))

(* A flag that has a level, and the flags behind.                            *)
Good(i)     == HasValue(i) /\ IsLevel(Value(i))
FlagsTo(n)  == {i \in Flags : i <= n}

(* The verbosity is that of the last flag behind.                            *)
FlagInv ==
  /\ parsing # "abort" =>
       /\ \A i \in FlagsTo(arg_it) : Good(i)
       /\ \/ FlagsTo(arg_it) = {} /\ g_stderr_verbosity = given.verbosity
          \/ \E m \in FlagsTo(arg_it) :
               /\ \A i \in FlagsTo(arg_it) : i <= m
               /\ g_stderr_verbosity = Level(Value(m)).value
  /\ parsing = "abort" => \E i \in Flags : ~Good(i)

(* The inductive invariant of parse_args.                                    *)
ParseInv == ParseTypeOK /\ ArgsInv /\ FlagInv

(* The argument at arg_it is as it was given, and its role is new.           *)
LEMMA Ahead ==
  ASSUME ParseTypeOK, ArgsInv, parsing = "loop", arg_it < argc
  PROVE  /\ arg_it \in Nat /\ arg_it + 1 \in 1..Len(given.argv)
         /\ Len(given.argv) \in Nat /\ argc = Len(given.argv)
         /\ Arg(arg_it) = given.argv[arg_it + 1] /\ given.argv[arg_it + 1] \in Argument
         /\ Role[arg_it + 1] = IF TakesFlag(given.argv[arg_it + 1]) THEN "flag" ELSE "kept"
<1> DEFINE L == given.argv
           N == Len(given.argv)
<1>1. /\ L \in Seq(Argument) /\ N \in Nat /\ arg_it \in 1..N /\ argc = N
  BY SMT DEF ParseTypeOK
<1>2. /\ arg_it \in Nat /\ arg_it + 1 \in 1..N /\ arg_it + 1 > arg_it /\ arg_it + 1 # 1
      /\ (arg_it + 1) - 1 = arg_it /\ L[arg_it + 1] \in Argument
  BY <1>1, SMT
<1>3. Arg(arg_it) = L[arg_it + 1]
  BY <1>2, Zenon DEF Arg, ArgsInv
<1>4. Role[arg_it + 1] = NextRole(Role[arg_it], arg_it + 1)
  BY <1>1, <1>2, RoleIs
<1>5. ~(Role[arg_it] = "flag" /\ Separate(L[arg_it]))
  BY Zenon DEF ArgsInv
<1>6. Role[arg_it + 1] = IF TakesFlag(L[arg_it + 1]) THEN "flag" ELSE "kept"
  BY <1>2, <1>4, <1>5, Zenon DEF NextRole
<1> QED BY <1>1, <1>2, <1>3, <1>6

(* What is taken for a flag does not depend on the byte after the argument.  *)
LEMMA AlphaIs ==
  ASSUME NEW a \in Argument, NEW alpha \in LastIsAlpha(a)
  PROVE  IsFlag(a, alpha) <=> TakesFlag(a)
<1>1. CASE a.flag
  <2>1. alpha = (a.equals = 0 /\ a.word \in Letters)
    BY <1>1, Zenon DEF LastIsAlpha
  <2> QED BY <1>1, <2>1, Zenon DEF IsFlag, TakesFlag
<1>2. CASE ~a.flag
  BY <1>2, Zenon DEF IsFlag, TakesFlag
<1> QED BY <1>1, <1>2

(* To begin with, the program's name is kept and no flag was seen.           *)
LEMMA ParseInvInit ==
  ASSUME ParseInit
  PROVE  ParseInv
<1>1. PICK l \in Seq(Argument) \ {<<>>}, v \in Int : ParseArgs(l, v)
  BY Zenon DEF ParseInit
<1> DEFINE N == Len(given.argv)
<1>2. /\ given.argv = l /\ given.verbosity = v
      /\ argc = Len(l) /\ argv = Append(l, Null)
      /\ arg_it = 1 /\ arg_dest = 1 /\ out_argc = Len(l)
      /\ g_stderr_verbosity = v /\ parsing = "loop"
  BY <1>1, SMT DEF ParseArgs
<1>3. /\ given.argv \in Seq(Argument) /\ given.argv # <<>> /\ given.verbosity \in Int
      /\ N \in Nat /\ N >= 1
  BY <1>2, SMT
<1>4. /\ Append(l, Null) \in Seq(Argument \cup {Null}) /\ Len(Append(l, Null)) = Len(l) + 1
      /\ \A i \in 1..Len(l) : Append(l, Null)[i] = l[i]
  <2>1. l \in Seq(Argument \cup {Null})
    BY SMT
  <2> QED BY <2>1, SMT
<1>5. ParseTypeOK
  BY <1>2, <1>3, <1>4, SMT DEF ParseTypeOK
<1>6. Role[1] = "program"
  <2>1. Role[1] = NextRole(Role[1 - 1], 1)
    BY <1>3, RoleIs, SMT
  <2> QED BY <2>1 DEF NextRole
<1>7. Kept(1) /\ 1 \notin Flags
  BY <1>6, Zenon DEF Kept, Flags
<1>8. KeptTo(1) = {1} /\ Cardinality(KeptTo(1)) = 1
  <2>1. KeptTo(1) = {1}
    BY <1>7, SMT DEF KeptTo
  <2> QED BY <2>1, FS_Singleton
<1>9. ArgsInv
  <2>1. \A i \in 1..N : argv[i] = given.argv[i]
    BY <1>2, <1>4
  <2>2. \A k \in 1..1 : \E i \in 1..1 :
          Kept(i) /\ Cardinality(KeptTo(i)) = k /\ argv[k] = given.argv[i]
    <3>1. 1 \in 1..N /\ \A k \in 1..1 : k = 1
      BY <1>3, SMT
    <3> QED BY <1>7, <1>8, <2>1, <3>1
  <2> QED BY <1>2, <1>6, <1>8, <2>1, <2>2 DEF ArgsInv
<1>10. FlagInv
  <2>1. FlagsTo(1) = {}
    BY <1>3, <1>7, SMT DEF FlagsTo, Flags
  <2> QED BY <1>2, <2>1 DEF FlagInv
<1> QED BY <1>5, <1>9, <1>10 DEF ParseInv

(* An argument that is kept,                                                 *)
LEMMA KeepStep ==
  ASSUME ParseInv, KeepArgument
  PROVE  ParseInv'
<1> DEFINE L == given.argv
           N == Len(given.argv)
           n == arg_it + 1
<1>1. ParseTypeOK /\ ArgsInv /\ FlagInv
  BY DEF ParseInv
<1>2. /\ parsing = "loop" /\ arg_it < argc
      /\ argv' = [argv EXCEPT ![arg_dest + 1] = Arg(arg_it)]
      /\ arg_dest' = arg_dest + 1 /\ arg_it' = n
      /\ UNCHANGED <<argc, out_argc, g_stderr_verbosity, parsing, given>>
  BY Zenon DEF KeepArgument, Moved
<1>3. /\ arg_it \in Nat /\ n \in 1..N /\ N \in Nat /\ argc = N
      /\ Arg(arg_it) = L[n] /\ L[n] \in Argument
      /\ Role[n] = IF TakesFlag(L[n]) THEN "flag" ELSE "kept"
  BY <1>1, <1>2, Ahead
<1>4. Role[n] = "kept"
  <2>1. PICK alpha \in LastIsAlpha(L[n]) : ~IsFlag(L[n], alpha)
    BY <1>3, Zenon DEF KeepArgument
  <2>2. ~TakesFlag(L[n])
    BY <1>3, <2>1, AlphaIs
  <2> QED BY <1>3, <2>2
<1>5. Kept(n) /\ n \notin Flags
  BY <1>4, Zenon DEF Kept, Flags
<1>6. Role' = Role /\ Flags' = Flags
      /\ \A i : Kept(i)' = Kept(i) /\ HasValue(i)' = HasValue(i) /\ Value(i)' = Value(i)
  BY <1>2, RolesRest
<1>7. \A i : KeptTo(i)' = KeptTo(i)
  BY <1>6, Zenon DEF KeptTo
<1>8. /\ argv \in Seq(Argument \cup {Null}) /\ Len(argv) = N + 1
      /\ arg_dest \in 1..arg_it /\ arg_it \in 1..N
  BY <1>1 DEF ParseTypeOK
<1>9. /\ argv' \in Seq(Argument \cup {Null}) /\ Len(argv') = N + 1
      /\ argv'[arg_dest + 1] = L[n]
      /\ \A i \in 1..N : i # arg_dest + 1 => argv'[i] = argv[i]
  BY <1>2, <1>3, <1>8, SMT
<1>10. ParseTypeOK'
  BY <1>1, <1>2, <1>3, <1>8, <1>9, SMT DEF ParseTypeOK
<1>11. Cardinality(KeptTo(n)) = arg_dest + 1
  <2>1. Cardinality(KeptTo(arg_it)) = arg_dest
    BY <1>1 DEF ArgsInv
  <2> QED BY <1>3, <1>5, <2>1, KeptToIs
<1>12. ArgsInv'
  <2>1. \A i \in 1..N : i > n => argv'[i] = L[i]
    <3>1. \A i \in 1..N : i > arg_it => argv[i] = L[i]
      BY <1>1 DEF ArgsInv
    <3>2. \A i \in 1..N : i > n => i > arg_it /\ i # arg_dest + 1
      BY <1>3, <1>8, SMT
    <3> HIDE DEF n, L, N
    <3> QED BY <3>1, <3>2, <1>9, Zenon
  <2>2. \A k \in 1..(arg_dest + 1) : \E i \in 1..n :
          Kept(i) /\ Cardinality(KeptTo(i)) = k /\ argv'[k] = L[i]
    <3>1. ASSUME NEW k \in 1..arg_dest
          PROVE  \E i \in 1..n : Kept(i) /\ Cardinality(KeptTo(i)) = k /\ argv'[k] = L[i]
      <4>1. PICK i \in 1..arg_it : Kept(i) /\ Cardinality(KeptTo(i)) = k /\ argv[k] = L[i]
        BY <1>1, <3>1 DEF ArgsInv
      <4>2. i \in 1..n
        BY <1>3, SMT
      <4>3. argv'[k] = argv[k]
        BY <1>3, <1>8, <1>9, SMT
      <4> QED BY <4>1, <4>2, <4>3
    <3>2. \A k \in 1..(arg_dest + 1) : k \in 1..arg_dest \/ k = arg_dest + 1
      BY <1>8, SMT
    <3> QED BY <1>3, <1>5, <1>9, <1>11, <3>1, <3>2
  <2>3. Role[n] # "flag"
    BY <1>4
  <2>4. KeptTo(arg_it)' = KeptTo(n)
    BY <1>2, <1>6, Zenon DEF KeptTo
  <2>5. Cardinality(KeptTo(arg_it))' = arg_dest'
    BY <1>2, <1>11, <2>4
  <2>6. \A i \in 1..Len(given'.argv) : i > arg_it' => argv'[i] = given'.argv[i]
    BY <1>2, <2>1
  <2>7. \A k \in 1..arg_dest' : \E i \in 1..arg_it' :
          Kept(i)' /\ Cardinality(KeptTo(i)') = k /\ argv'[k] = given'.argv[i]
    <3> HIDE DEF n
    <3> QED BY <1>2, <1>6, <1>7, <2>2, ZenonT(40)
  <2>8. Role'[arg_it'] # "flag"
    BY <1>2, <1>6, <2>3
  <2> QED BY <2>5, <2>6, <2>7, <2>8, Zenon DEF ArgsInv
<1>13. FlagInv'
  <2>1. FlagsTo(n) = FlagsTo(arg_it)
    BY <1>1, <1>3, <1>5, SMT DEF FlagsTo, Flags, ParseTypeOK
  <2>2. FlagsTo(arg_it)' = FlagsTo(n) /\ \A i : Good(i)' = Good(i)
    BY <1>2, <1>6, Zenon DEF FlagsTo, Good
  <2> QED BY <1>1, <1>2, <1>6, <2>1, <2>2, Zenon DEF FlagInv
<1> QED BY <1>10, <1>12, <1>13 DEF ParseInv

(* A value is read as a level exactly when it is one.                       *)
LEMMA LevelAll ==
  ASSUME NEW a \in Argument
  PROVE  Level(a).all <=> IsLevel(a)
<1> DEFINE w == a.word
<1>1. a.flag \in BOOLEAN /\ a.equals \in Nat /\ (a.equals > 1 <=> ~(a.equals <= 1))
  BY SMT DEF Argument
<1>2. get_verbosity_from_name(w) # Verbosity_INVALID <=> Named(w)
  <2>1. ASSUME w \in DOMAIN CustomLevel PROVE CustomLevel[w] # Verbosity_INVALID
    BY <2>1, CommandLineAssumption, Zenon DEF Range
  <2>2. \A x \in DOMAIN StandardLevel : StandardLevel[x] # Verbosity_INVALID
    BY SMT DEF StandardLevel, Verbosity_OFF, Verbosity_INFO, Verbosity_WARNING,
               Verbosity_ERROR, Verbosity_FATAL, Verbosity_INVALID
  <2> QED BY <2>1, <2>2, Zenon DEF get_verbosity_from_name, Named
<1>3. Strtol(w).all <=> w \in DOMAIN Number \/ w = ""
  <2>1. CASE w \in DOMAIN Number
    BY <2>1, Zenon DEF Strtol
  <2>2. CASE w \notin DOMAIN Number /\ w \in DOMAIN Prefix
    <3>1. w # ""
      BY <2>2, CommandLineAssumption
    <3> QED BY <2>2, <3>1, Zenon DEF Strtol
  <2>3. CASE w \notin DOMAIN Number /\ w \notin DOMAIN Prefix
    BY <2>3, Zenon DEF Strtol
  <2> QED BY <2>1, <2>2, <2>3, Zenon
<1>4. CASE a.flag \/ a.equals > 1
  <2>1. ~Level(a).all
    BY <1>4, Zenon DEF Level
  <2> QED BY <1>1, <1>4, <2>1, Zenon DEF IsLevel
<1>5. CASE ~(a.flag \/ a.equals > 1)
  <2>1. CASE Named(w)
    <3>1. Level(a).all
      BY <1>2, <1>5, <2>1, Zenon DEF Level
    <3> QED BY <1>1, <1>5, <2>1, <3>1, Zenon DEF IsLevel
  <2>2. CASE ~Named(w)
    <3>1. Level(a) = Strtol(w)
      BY <1>2, <1>5, <2>2, Zenon DEF Level
    <3> QED BY <1>1, <1>3, <1>5, <2>2, <3>1, Zenon DEF IsLevel
  <2> QED BY <2>1, <2>2
<1> QED BY <1>4, <1>5

(* a flag that is taken, with its value,                                     *)
LEMMA TakeStep ==
  ASSUME ParseInv, TakeFlag
  PROVE  ParseInv'
<1> DEFINE L == given.argv
           N == Len(given.argv)
           n == arg_it + 1
           value == arg_it + (IF Separate(Arg(arg_it)) THEN 1 ELSE 0)
           level == Level(IF Separate(Arg(arg_it)) THEN Arg(value)
                          ELSE [Arg(value) EXCEPT !.flag = FALSE])
<1>1. ParseTypeOK /\ ArgsInv /\ FlagInv
  BY DEF ParseInv
<1>2. /\ parsing = "loop" /\ arg_it < argc
      /\ UNCHANGED <<argc, argv, arg_dest, given>>
  BY Zenon DEF TakeFlag
<1>3. /\ arg_it \in Nat /\ n \in 1..N /\ N \in Nat /\ argc = N
      /\ Arg(arg_it) = L[n] /\ L[n] \in Argument
      /\ Role[n] = IF TakesFlag(L[n]) THEN "flag" ELSE "kept"
  BY <1>1, <1>2, Ahead
<1>4. Role[n] = "flag"
  <2>1. PICK alpha \in LastIsAlpha(L[n]) : IsFlag(L[n], alpha)
    BY <1>3, Zenon DEF TakeFlag
  <2>2. TakesFlag(L[n])
    BY <1>3, <2>1, AlphaIs
  <2> QED BY <1>3, <2>2
<1>5. ~Kept(n) /\ n \in Flags
  <2>1. n \in DOMAIN L
    BY <1>1, <1>3, SMT DEF ParseTypeOK
  <2> QED BY <1>4, <2>1, Zenon DEF Kept, Flags
<1>6. Role' = Role /\ Flags' = Flags
      /\ \A i : Kept(i)' = Kept(i) /\ HasValue(i)' = HasValue(i) /\ Value(i)' = Value(i)
  BY <1>2, RolesRest
<1>7. \A i : KeptTo(i)' = KeptTo(i) /\ Good(i)' = Good(i)
  BY <1>6, Zenon DEF KeptTo, Good
<1>8. /\ L \in Seq(Argument) /\ L # <<>> /\ given.verbosity \in Int
      /\ argv \in Seq(Argument \cup {Null}) /\ Len(argv) = N + 1
      /\ arg_dest \in 1..arg_it /\ arg_it \in 1..N
      /\ out_argc = N - (arg_it - arg_dest)
  BY <1>1, <1>2 DEF ParseTypeOK
<1>9. CASE value = argc
  <2>1. /\ parsing' = "abort" /\ out_argc' = out_argc - 1
        /\ UNCHANGED <<arg_it, g_stderr_verbosity>>
    BY <1>9, Zenon DEF TakeFlag
  <2>2. Separate(L[n]) /\ n = N
    BY <1>2, <1>3, <1>9, SMT
  <2>3. ~HasValue(n)
    BY <1>3, <2>2, SMT DEF HasValue
  <2>4. ParseTypeOK'
    BY <1>1, <1>2, <2>1, SMT DEF ParseTypeOK
  <2>5. ArgsInv'
    <3>1. KeptTo(arg_it)' = KeptTo(arg_it)
      BY <1>6, <2>1, Zenon DEF KeptTo
    <3>2. Cardinality(KeptTo(arg_it))' = arg_dest'
      BY <1>1, <1>2, <3>1 DEF ArgsInv
    <3>3. \A i \in 1..Len(given'.argv) : i > arg_it' => argv'[i] = given'.argv[i]
      BY <1>1, <1>2, <2>1 DEF ArgsInv
    <3>4. \A k \in 1..arg_dest' : \E i \in 1..arg_it' :
            Kept(i)' /\ Cardinality(KeptTo(i)') = k /\ argv'[k] = given'.argv[i]
      <4>1. \A k \in 1..arg_dest : \E i \in 1..arg_it :
              Kept(i) /\ Cardinality(KeptTo(i)) = k /\ argv[k] = L[i]
        BY <1>1 DEF ArgsInv
      <4> QED BY <1>2, <1>6, <1>7, <2>1, <4>1, Zenon
    <3> QED BY <2>1, <3>2, <3>3, <3>4, Zenon DEF ArgsInv
  <2>6. FlagInv'
    <3>1. \E i \in Flags : ~Good(i)
      BY <1>5, <2>3, Zenon DEF Good
    <3> QED BY <1>6, <1>7, <2>1, <3>1, Zenon DEF FlagInv
  <2> QED BY <2>4, <2>5, <2>6 DEF ParseInv
<1>10. CASE value # argc
  <2>1. /\ g_stderr_verbosity' = level.value
        /\ parsing' = IF level.all THEN "loop" ELSE "abort"
        /\ out_argc' = out_argc - 1 - (value - arg_it)
        /\ arg_it' = value + 1
    BY <1>10, Zenon DEF TakeFlag
  <2> DEFINE m == value + 1
  <2>2. /\ m \in 1..N /\ m > arg_it /\ value = m - 1
        /\ Separate(L[n]) => n < N /\ m = n + 1
        /\ ~Separate(L[n]) => m = n
    <3> HIDE DEF n, L, N
    <3>1. value = arg_it + (IF Separate(L[n]) THEN 1 ELSE 0)
      BY <1>3
    <3> HIDE DEF value
    <3> QED BY <1>3, <1>8, <1>10, <3>1, SMT DEF n
  <2>3. Arg(value) = L[m] /\ L[m] \in Argument
    <3>1. argv[m] = L[m]
      BY <1>1, <2>2, Zenon DEF ArgsInv
    <3> QED BY <1>8, <2>2, <3>1, SMT DEF Arg
  <2>4. HasValue(n)
    <3> HIDE DEF m, value
    <3> QED BY <1>3, <2>2, SMT DEF HasValue
  <2>5. level = Level(Value(n)) /\ Value(n) \in Argument
    <3>1. CASE Separate(L[n])
      BY <1>3, <2>2, <2>3, <3>1, Zenon DEF Value
    <3>2. CASE ~Separate(L[n])
      <4>1. m = n /\ Value(n) = [L[n] EXCEPT !.flag = FALSE]
        BY <2>2, <3>2, Zenon DEF Value
      <4>2. [L[n] EXCEPT !.flag = FALSE] \in Argument
        BY <1>3, Zenon DEF Argument
      <4>3. level = Level([L[n] EXCEPT !.flag = FALSE])
        BY <1>3, <2>3, <3>2, <4>1, Zenon
      <4> QED BY <4>1, <4>2, <4>3, Zenon
    <3> QED BY <3>1, <3>2
  <2>6. level.all <=> Good(n)
    BY <2>4, <2>5, LevelAll, Zenon DEF Good
  <2>7. level.value \in Int
    BY <2>5, LevelIsInt
  <2> HIDE DEF level
  <2>8. ASSUME Separate(L[n]) PROVE Role[m] = "value" /\ m = n + 1
    <3>1. m = n + 1 /\ m # 1 /\ m - 1 = n
      BY <1>3, <2>2, <2>8, SMT
    <3>2. Role[m] = NextRole(Role[m - 1], m)
      BY <1>8, <2>2, RoleIs
    <3> HIDE DEF m
    <3> QED BY <1>4, <2>8, <3>1, <3>2, Zenon DEF NextRole
  <2>9. Cardinality(KeptTo(m)) = arg_dest
    <3>1. Cardinality(KeptTo(arg_it)) = arg_dest
      BY <1>1 DEF ArgsInv
    <3>2. Cardinality(KeptTo(n)) = arg_dest
      BY <1>3, <1>5, <1>8, <3>1, KeptToIs, SMT
    <3>3. CASE Separate(L[n])
      <4>1. ~Kept(n + 1)
        BY <2>8, <3>3, Zenon DEF Kept
      <4>2. n \in Nat
        BY <1>3, SMT
      <4>3. Cardinality(KeptTo(n + 1)) = Cardinality(KeptTo(n)) + 0
        BY <4>1, <4>2, KeptToIs
      <4>4. Cardinality(KeptTo(n + 1)) = arg_dest
        BY <3>2, <4>3, <1>8, SMT
      <4> QED BY <4>4, <2>8, <3>3
    <3> QED BY <2>2, <3>2, <3>3
  <2>10. FlagsTo(m) = FlagsTo(arg_it) \cup {n} /\ \A i \in FlagsTo(m) : i <= n
    <3>1. n + 1 \notin Flags \/ ~Separate(L[n])
      BY <2>8, Zenon DEF Flags
    <3>2. \A i \in Flags : i \in Int
      BY <1>8, SMT DEF Flags
    <3> HIDE DEF m, L
    <3> QED BY <1>3, <1>5, <2>2, <3>1, <3>2, SMT DEF FlagsTo
  <2>11. ParseTypeOK'
    <3>1. parsing' \in {"loop", "abort"}
      BY <2>1, Zenon
    <3>2. /\ arg_it' \in 1..N /\ arg_dest \in 1..arg_it'
          /\ out_argc' = N - (arg_it' - arg_dest)
      <4> HIDE DEF value, L
      <4>1. arg_it' = m /\ value = m - 1 /\ m \in 1..N /\ m > arg_it
        BY <2>1, <2>2
      <4> HIDE DEF m, n, N
      <4>2. arg_dest \in 1..m
        BY <1>3, <1>8, <4>1, SMT
      <4>3. out_argc' = N - (m - arg_dest)
        BY <1>3, <1>8, <2>1, <4>1, SMT
      <4> QED BY <4>1, <4>2, <4>3
    <3>3. g_stderr_verbosity' \in Int /\ argc' = N
      BY <1>2, <1>3, <2>1, <2>7
    <3> HIDE DEF L, N
    <3>4. argc' = Len(given.argv) /\ out_argc' = Len(given.argv) - (arg_it' - arg_dest)
          /\ arg_it' \in 1..Len(given.argv)
      BY <3>2, <3>3 DEF N
    <3>5. /\ given'.argv \in Seq(Argument) /\ given'.argv # <<>>
          /\ given'.verbosity \in Int
          /\ argv' \in Seq(Argument \cup {Null}) /\ Len(argv') = Len(given'.argv) + 1
      BY <1>1, <1>2, <2>1, Zenon DEF ParseTypeOK
    <3>6. given' = given /\ arg_dest' = arg_dest
      BY <1>2, <2>1, Zenon
    <3>7. parsing' # "done"
      BY <3>1
    <3> HIDE DEF n, m, value
    <3> QED BY <3>1, <3>2, <3>3, <3>4, <3>5, <3>6, <3>7, Zenon DEF ParseTypeOK
  <2>12. ArgsInv'
    <3>1. KeptTo(arg_it)' = KeptTo(m)
      BY <1>6, <2>1, Zenon DEF KeptTo
    <3>2. Cardinality(KeptTo(arg_it))' = arg_dest'
      BY <1>2, <2>9, <3>1
    <3>3. \A i \in 1..Len(given'.argv) : i > arg_it' => argv'[i] = given'.argv[i]
      <4>1. \A i \in 1..N : i > arg_it => argv[i] = L[i]
        BY <1>1 DEF ArgsInv
      <4>2. \A i \in 1..N : i > m => i > arg_it
        <5> HIDE DEF value, L
        <5> QED BY <1>3, <2>2, SMT
      <4>3. given' = given /\ argv' = argv /\ arg_it' = m
        BY <1>2, <2>1
      <4> HIDE DEF m
      <4> QED BY <4>1, <4>2, <4>3, Zenon
    <3>4. \A k \in 1..arg_dest' : \E i \in 1..arg_it' :
            Kept(i)' /\ Cardinality(KeptTo(i)') = k /\ argv'[k] = given'.argv[i]
      <4>1. \A k \in 1..arg_dest : \E i \in 1..arg_it :
              Kept(i) /\ Cardinality(KeptTo(i)) = k /\ argv[k] = L[i]
        BY <1>1 DEF ArgsInv
      <4>2. \A i \in 1..arg_it : i \in 1..m
        <5> HIDE DEF value, L, N
        <5> QED BY <1>3, <2>2, SMT
      <4>3. given' = given /\ argv' = argv /\ arg_it' = m /\ arg_dest' = arg_dest
        BY <1>2, <2>1
      <4> HIDE DEF m
      <4> QED BY <1>6, <1>7, <4>1, <4>2, <4>3, Zenon
    <3>5. ~(Role'[arg_it'] = "flag" /\ Separate(given'.argv[arg_it']))
      <4>1. ~(Role[m] = "flag" /\ Separate(L[m]))
        <5> HIDE DEF m
        <5> QED BY <2>2, <2>8, Zenon
      <4> QED BY <1>2, <1>6, <2>1, <4>1, Zenon
    <3> QED BY <3>2, <3>3, <3>4, <3>5, Zenon DEF ArgsInv
  <2>13. FlagInv'
    <3>1. FlagsTo(arg_it)' = FlagsTo(m)
      BY <1>6, <2>1, Zenon DEF FlagsTo
    <3>2. CASE level.all
      <4>1. \A i \in FlagsTo(arg_it) : Good(i)
        BY <1>1, <1>2 DEF FlagInv
      <4>2. \A i \in FlagsTo(m) : Good(i)
        BY <2>6, <2>10, <3>2, <4>1, Zenon
      <4>3. n \in FlagsTo(m) /\ g_stderr_verbosity' = Level(Value(n)).value
        BY <2>1, <2>5, <2>10 DEF level
      <4>4. parsing' = "loop"
        BY <2>1, <3>2
      <4>5. \E k \in FlagsTo(arg_it)' : /\ \A i \in FlagsTo(arg_it)' : i <= k
                                       /\ g_stderr_verbosity' = Level(Value(k)').value
        <5> HIDE DEF n, m
        <5> QED BY <1>6, <2>10, <3>1, <4>3, Zenon
      <4>6. \A i \in FlagsTo(arg_it)' : Good(i)'
        BY <1>7, <3>1, <4>2, Zenon
      <4> QED BY <4>4, <4>5, <4>6, Zenon DEF FlagInv, Level, Strtol, Named, ToInt, Clamp,
                  get_verbosity_from_name
    <3>3. CASE ~level.all
      <4>1. n \in Flags /\ ~Good(n)
        BY <1>5, <2>6, <3>3
      <4>2. parsing' = "abort"
        BY <2>1, <3>3
      <4> HIDE DEF n
      <4> QED BY <1>6, <1>7, <4>1, <4>2, Zenon DEF FlagInv
    <3> QED BY <3>2, <3>3
  <2> QED BY <2>11, <2>12, <2>13 DEF ParseInv
<1> QED BY <1>9, <1>10

(* the end of the loop,                                                      *)
LEMMA EndStep ==
  ASSUME ParseInv, EndParseArgs
  PROVE  ParseInv'
<1> DEFINE L == given.argv
           N == Len(given.argv)
<1>1. ParseTypeOK /\ ArgsInv /\ FlagInv
  BY DEF ParseInv
<1>2. /\ parsing = "loop" /\ arg_it >= argc /\ argc' = out_argc
      /\ argv' = [argv EXCEPT ![out_argc + 1] = Null] /\ parsing' = "done"
      /\ UNCHANGED <<arg_it, arg_dest, out_argc, g_stderr_verbosity, given>>
  BY Zenon DEF EndParseArgs
<1>3. /\ L \in Seq(Argument) /\ N \in Nat /\ arg_it = N /\ out_argc = arg_dest
      /\ arg_dest \in 1..N /\ argv \in Seq(Argument \cup {Null}) /\ Len(argv) = N + 1
  BY <1>1, <1>2, SMT DEF ParseTypeOK
<1>4. /\ argv' \in Seq(Argument \cup {Null}) /\ Len(argv') = N + 1
      /\ argv'[arg_dest + 1] = Null
      /\ \A i \in 1..arg_dest : argv'[i] = argv[i]
  BY <1>2, <1>3, SMT
<1>5. ParseTypeOK'
  BY <1>1, <1>2, <1>3, <1>4, SMT DEF ParseTypeOK
<1>6. Role' = Role /\ Flags' = Flags
      /\ \A i : Kept(i)' = Kept(i) /\ HasValue(i)' = HasValue(i) /\ Value(i)' = Value(i)
  BY <1>2, RolesRest
<1>7. \A i : KeptTo(i)' = KeptTo(i) /\ Good(i)' = Good(i)
  BY <1>6, Zenon DEF KeptTo, Good
<1>8. ArgsInv'
  <2>1. KeptTo(arg_it)' = KeptTo(arg_it)
    BY <1>2, <1>6, Zenon DEF KeptTo
  <2>2. Cardinality(KeptTo(arg_it))' = arg_dest'
    BY <1>1, <1>2, <2>1 DEF ArgsInv
  <2>3. \A i \in 1..Len(given'.argv) : i > arg_it' => argv'[i] = given'.argv[i]
    <3>1. \A i \in 1..N : ~(i > N)
      BY <1>3, SMT
    <3> QED BY <1>2, <1>3, <3>1
  <2>4. \A k \in 1..arg_dest' : \E i \in 1..arg_it' :
          Kept(i)' /\ Cardinality(KeptTo(i)') = k /\ argv'[k] = given'.argv[i]
    <3>1. \A k \in 1..arg_dest : \E i \in 1..arg_it :
            Kept(i) /\ Cardinality(KeptTo(i)) = k /\ argv[k] = L[i]
      BY <1>1 DEF ArgsInv
    <3>2. ASSUME NEW k \in 1..arg_dest
          PROVE  \E i \in 1..arg_it :
                   Kept(i) /\ Cardinality(KeptTo(i)) = k /\ argv'[k] = L[i]
      <4>1. argv'[k] = argv[k]
        BY <1>4
      <4> QED BY <3>1, <4>1, Zenon
    <3>3. given' = given /\ arg_it' = arg_it /\ arg_dest' = arg_dest
      BY <1>2
    <3> QED BY <1>6, <1>7, <3>2, <3>3, Zenon
  <2>5. parsing' # "loop"
    BY <1>2
  <2> QED BY <2>2, <2>3, <2>4, <2>5, Zenon DEF ArgsInv
<1>9. FlagInv'
  <2>1. FlagsTo(arg_it)' = FlagsTo(arg_it)
    BY <1>2, <1>6, Zenon DEF FlagsTo
  <2>2. parsing # "abort" /\ parsing' # "abort"
    BY <1>2
  <2>3. /\ \A i \in FlagsTo(arg_it) : Good(i)
        /\ \/ FlagsTo(arg_it) = {} /\ g_stderr_verbosity = given.verbosity
           \/ \E m \in FlagsTo(arg_it) :
                /\ \A i \in FlagsTo(arg_it) : i <= m
                /\ g_stderr_verbosity = Level(Value(m)).value
    BY <1>1, <2>2, Zenon DEF FlagInv
  <2>4. \/ FlagsTo(arg_it)' = {} /\ g_stderr_verbosity' = given'.verbosity
        \/ \E m \in FlagsTo(arg_it)' : /\ \A i \in FlagsTo(arg_it)' : i <= m
                                      /\ g_stderr_verbosity' = Level(Value(m)').value
    BY <1>2, <1>6, <2>1, <2>3, Zenon
  <2>5. \A i \in FlagsTo(arg_it)' : Good(i)'
    BY <1>7, <2>1, <2>3, Zenon
  <2> QED BY <2>2, <2>4, <2>5, Zenon DEF FlagInv, Level, Strtol, Named, ToInt, Clamp,
              get_verbosity_from_name
<1> QED BY <1>5, <1>8, <1>9 DEF ParseInv

(* and every step of parse_args keeps the invariant.                         *)
LEMMA ParseInvStep ==
  ASSUME ParseInv, [ParseNext]_args
  PROVE  ParseInv'
<1>1. CASE UNCHANGED args
  <2>1. UNCHANGED <<argc, argv, arg_it, arg_dest, out_argc, g_stderr_verbosity, parsing, given>>
    BY <1>1, Zenon DEF args
  <2>2. ParseTypeOK'
    BY <2>1, Zenon DEF ParseInv, ParseTypeOK
  <2>3. Role' = Role /\ Flags' = Flags
        /\ \A i : Kept(i)' = Kept(i) /\ HasValue(i)' = HasValue(i) /\ Value(i)' = Value(i)
    BY <2>1, RolesRest
  <2>4. \A i : KeptTo(i)' = KeptTo(i) /\ Good(i)' = Good(i)
    BY <2>3, Zenon DEF KeptTo, Good
  <2>5. KeptTo(arg_it)' = KeptTo(arg_it) /\ FlagsTo(arg_it)' = FlagsTo(arg_it)
    BY <2>1, <2>3, Zenon DEF KeptTo, FlagsTo
  <2>6. ArgsInv'
    <3>1. ArgsInv
      BY DEF ParseInv
    <3> QED BY <2>1, <2>3, <2>4, <2>5, <3>1, Zenon DEF ArgsInv
  <2>7. FlagInv'
    <3>1. FlagInv
      BY DEF ParseInv
    <3> QED BY <2>1, <2>3, <2>4, <2>5, <3>1, Zenon DEF FlagInv
  <2> QED BY <2>2, <2>6, <2>7 DEF ParseInv
<1> QED BY <1>1, KeepStep, TakeStep, EndStep, Zenon DEF ParseNext

(* It is an invariant.                                                       *)
THEOREM ParseInvariant == ParseSpec => []ParseInv
<1>1. ParseInit => ParseInv
  BY ParseInvInit
<1>2. ParseInv /\ [ParseNext]_args => ParseInv'
  BY ParseInvStep
<1> QED BY <1>1, <1>2, PTL DEF ParseSpec

(* parse_args: argv keeps the program's own arguments, whatever they are.    *)
THEOREM ProgramKeepsItsArgumentsCorrect == ParseSpec => []ProgramKeepsItsArguments
<1> DEFINE L == given.argv
           N == Len(given.argv)
           At(k, i) == Kept(i) /\ Cardinality({j \in 1..i : Kept(j)}) = k
<1>1. ASSUME ParseInv PROVE ProgramKeepsItsArguments
  <2>1. ParseTypeOK /\ ArgsInv
    BY <1>1 DEF ParseInv
  <2>2. L \in Seq(Argument) /\ N \in Nat /\ DOMAIN L = 1..N
    BY <2>1, SMT DEF ParseTypeOK
  <2>3. \A i \in DOMAIN L : i > arg_it => argv[i] = L[i]
    BY <2>1, <2>2 DEF ArgsInv
  <2>4. ASSUME parsing = "done"
        PROVE  /\ SubSeq(argv, 1, argc) =
                    [k \in 1..Cardinality({i \in DOMAIN L : Kept(i)}) |->
                       L[CHOOSE i \in DOMAIN L : At(k, i)]]
               /\ Arg(argc) = Null
    <3>1. /\ argc = arg_dest /\ arg_it = N /\ argv[argc + 1] = Null
          /\ argv \in Seq(Argument \cup {Null}) /\ Len(argv) = N + 1
          /\ arg_dest \in 1..N
      BY <2>1, <2>4, SMT DEF ParseTypeOK
    <3>2. Cardinality({i \in DOMAIN L : Kept(i)}) = argc
      <4>1. {i \in DOMAIN L : Kept(i)} = KeptTo(N)
        BY <2>2, Zenon DEF KeptTo
      <4> QED BY <2>1, <3>1, <4>1 DEF ArgsInv
    <3>3. ASSUME NEW k \in 1..argc
          PROVE  argv[k] = L[CHOOSE i \in DOMAIN L : At(k, i)]
      <4>1. PICK i \in 1..N : Kept(i) /\ Cardinality(KeptTo(i)) = k /\ argv[k] = L[i]
        BY <2>1, <3>1, <3>3 DEF ArgsInv
      <4>2. i \in DOMAIN L /\ At(k, i)
        BY <2>2, <4>1, Zenon DEF KeptTo
      <4>3. ASSUME NEW j \in DOMAIN L, At(k, j) PROVE j = i
        <5>1. i \in Nat /\ j \in Nat
          BY <2>2, <4>1, <4>3, SMT
        <5>2. Kept(j) /\ Cardinality(KeptTo(j)) = k
          BY <4>3, Zenon DEF KeptTo
        <5>3. k \in Nat
          BY <3>1, <3>3, SMT
        <5>4. ~(i < j) /\ ~(j < i)
          BY <4>1, <5>1, <5>2, <5>3, KeptToGrows, SMT
        <5> QED BY <5>1, <5>4, SMT
      <4> HIDE DEF At
      <4>4. (CHOOSE j \in DOMAIN L : At(k, j)) = i
        BY <4>2, <4>3, Zenon
      <4> QED BY <4>1, <4>4, Zenon
    <3>4. SubSeq(argv, 1, argc) = [k \in 1..argc |-> argv[k]]
      BY <3>1, SMT
    <3>5. Arg(argc) = Null
      BY <3>1, Zenon DEF Arg
    <3> HIDE DEF At, L
    <3>6. [k \in 1..argc |-> argv[k]] = [k \in 1..argc |-> L[CHOOSE i \in DOMAIN L : At(k, i)]]
      BY <3>3, Zenon
    <3> QED BY <3>2, <3>4, <3>5, <3>6, Zenon
  <2> QED BY <2>3, <2>4, Zenon DEF ProgramKeepsItsArguments
<1>2. ParseInv => ProgramKeepsItsArguments
  BY <1>1
<1> QED BY <1>2, ParseInvariant, PTL

(* A number as it was written, or the ends of long cut down to an int.      *)
LEMMA CutDown ==
  ASSUME NEW n \in Int
  PROVE  /\ n \in (-IntMax - 1)..IntMax => ToInt(Clamp(n)) = n
         /\ n \in (-LongMax - 1)..LongMax => LowBits(ToInt(Clamp(n)), n)
         /\ n > LongMax => ToInt(Clamp(n)) = Verbosity_WARNING
         /\ n < -LongMax => ToInt(Clamp(n)) = Verbosity_INFO
<1> DEFINE M == 2 * (IntMax + 1)
           q == (LongMax + 1) \div M
<1>1. /\ IntMax \in Nat /\ LongMax \in Nat /\ IntMax < LongMax
      /\ M \in Nat /\ M > 0 /\ (LongMax + 1) % M = 0
  <2>1. /\ IntMax \in Nat /\ LongMax \in Nat /\ IntMax < LongMax
        /\ (LongMax + 1) % M = 0
    BY CommandLineAssumption
  <2>2. M \in Nat /\ M > 0
    BY <2>1, SMT
  <2> QED BY <2>1, <2>2
<1>2. q \in Int /\ LongMax + 1 = M * q
  BY <1>1, SMT
<1>3. ASSUME NEW p \in Int, NEW k \in Int, 0 <= k, k < M PROVE (M * p + k) % M = k
  BY <1>1, <1>3, SMT
<1> HIDE DEF q
<1>4. ASSUME NEW c \in Int, NEW p \in Int, NEW k \in Int, 0 <= k, k < M,
             c + IntMax + 1 = M * p + k
      PROVE  ToInt(c) = k - IntMax - 1
  <2>1. (c + IntMax + 1) % M = k
    BY <1>3, <1>4
  <2> QED BY <2>1 DEF ToInt
<1>5. ASSUME n \in (-IntMax - 1)..IntMax PROVE ToInt(Clamp(n)) = n
  <2>1. Clamp(n) = n
    BY <1>1, <1>5, SMT DEF Clamp
  <2>2. /\ n + IntMax + 1 \in Int /\ 0 <= n + IntMax + 1 /\ n + IntMax + 1 < M
        /\ n + IntMax + 1 = M * 0 + (n + IntMax + 1)
    BY <1>1, <1>5, SMT
  <2>3. ToInt(n) = (n + IntMax + 1) - IntMax - 1
    BY <1>4, <2>2
  <2> QED BY <1>1, <2>1, <2>3, SMT
<1>6. ASSUME n > LongMax PROVE ToInt(Clamp(n)) = Verbosity_WARNING
  <2>1. Clamp(n) = LongMax
    BY <1>1, <1>6, SMT DEF Clamp
  <2>2. IntMax \in Int /\ 0 <= IntMax /\ IntMax < M /\ LongMax + IntMax + 1 = M * q + IntMax
    <3> DEFINE z == M * q
    <3>1. LongMax + 1 = z
      BY <1>2
    <3> HIDE DEF z
    <3> QED BY <1>1, <3>1, SMT DEF z
  <2>3. ToInt(LongMax) = IntMax - IntMax - 1
    <3>1. LongMax \in Int
      BY <1>1, SMT
    <3> QED BY <1>2, <1>4, <2>2, <3>1
  <2> QED BY <1>1, <2>1, <2>3, SMT DEF Verbosity_WARNING
<1>7. ASSUME n < -LongMax PROVE ToInt(Clamp(n)) = Verbosity_INFO
  <2>1. Clamp(n) = -LongMax - 1
    BY <1>1, <1>7, SMT DEF Clamp
  <2>2. /\ IntMax + 1 \in Int /\ 0 <= IntMax + 1 /\ IntMax + 1 < M /\ -q \in Int
        /\ -LongMax - 1 \in Int
        /\ (-LongMax - 1) + IntMax + 1 = M * (-q) + (IntMax + 1)
    <3>1. M * (-q) = -(M * q)
      BY <1>1, <1>2, SMT
    <3> QED BY <1>1, <1>2, <3>1, SMT
  <2>3. ToInt(-LongMax - 1) = (IntMax + 1) - IntMax - 1
    BY <1>4, <2>2
  <2> QED BY <1>1, <2>1, <2>3, SMT DEF Verbosity_INFO
<1>8. ASSUME n \in (-LongMax - 1)..LongMax PROVE LowBits(ToInt(Clamp(n)), n)
  <2> DEFINE p == (n + IntMax + 1) \div M
             k == (n + IntMax + 1) % M
  <2>1. Clamp(n) = n
    BY <1>1, <1>8, SMT DEF Clamp
  <2>2. /\ n + IntMax + 1 \in Int /\ p \in Int /\ k \in Int /\ 0 <= k /\ k < M
        /\ n + IntMax + 1 = M * p + k
    BY <1>1, SMT
  <2> HIDE DEF p, k
  <2>3. ToInt(n) = k - IntMax - 1
    BY <1>4, <2>2
  <2>4. ToInt(n) \in (-IntMax - 1)..IntMax
    BY <1>1, <2>2, <2>3, SMT
  <2>5. (ToInt(n) - n) % M = 0
    <3>1. -p \in Int /\ M * (-p) = -(M * p) /\ M * p \in Int
      BY <1>1, <2>2, SMT
    <3>2. ToInt(n) - n = M * (-p) + 0
      <4> DEFINE z == M * p
      <4>1. z \in Int /\ n + IntMax + 1 = z + k /\ M * (-p) = -z
        BY <2>2, <3>1
      <4> HIDE DEF z
      <4> QED BY <1>1, <2>2, <2>3, <4>1, SMT
    <3> QED BY <1>1, <1>3, <3>1, <3>2
  <2> QED BY <2>1, <2>4, <2>5 DEF LowBits
<1> QED BY <1>5, <1>6, <1>7, <1>8

(* What a level read from a word is worth.                                  *)
LEMMA LevelWorth ==
  ASSUME NEW a \in Argument, IsLevel(a), NEW g, g = Level(a).value
  PROVE  LET w == a.word
             Is(level) == g = level
         IN IF w \in DOMAIN CustomLevel THEN Is(CustomLevel[w])
            ELSE IF w \in DOMAIN StandardLevel THEN Is(StandardLevel[w])
            ELSE IF w = "" THEN Is(Verbosity_INFO)
            ELSE /\ Number[w] \in (-IntMax - 1)..IntMax => Is(Number[w])
                 /\ Number[w] \in (-LongMax - 1)..LongMax => LowBits(g, Number[w])
                 /\ Number[w] > LongMax => Is(Verbosity_WARNING)
                 /\ Number[w] < -LongMax => Is(Verbosity_INFO)
<1> DEFINE w == a.word
<1>1. ~(a.flag \/ a.equals > 1)
  <2>1. ~a.flag /\ a.equals <= 1
    BY Zenon DEF IsLevel
  <2>2. a.equals \in Nat
    BY DEF Argument
  <2> QED BY <2>1, <2>2, SMT
<1>2. CASE w \in DOMAIN CustomLevel
  <2>1. CustomLevel[w] # Verbosity_INVALID
    BY <1>2, CommandLineAssumption, Zenon DEF Range
  <2>2. g = CustomLevel[w]
    BY <1>1, <1>2, <2>1, Zenon DEF Level, get_verbosity_from_name
  <2> QED BY <1>2, <2>2, Zenon
<1>3. CASE w \notin DOMAIN CustomLevel /\ w \in DOMAIN StandardLevel
  <2>1. StandardLevel[w] # Verbosity_INVALID
    BY <1>3, SMT DEF StandardLevel, Verbosity_OFF, Verbosity_INFO, Verbosity_WARNING,
               Verbosity_ERROR, Verbosity_FATAL, Verbosity_INVALID
  <2>2. g = StandardLevel[w]
    BY <1>1, <1>3, <2>1, Zenon DEF Level, get_verbosity_from_name
  <2> QED BY <1>3, <2>2, Zenon
<1>4. CASE w \notin DOMAIN CustomLevel /\ w \notin DOMAIN StandardLevel
  <2>1. g = Strtol(w).value
    BY <1>1, <1>4, Zenon DEF Level, get_verbosity_from_name
  <2>2. CASE w = ""
    <3>1. w \notin DOMAIN Number /\ w \notin DOMAIN Prefix
      BY <2>2, CommandLineAssumption
    <3>2. Strtol(w).value = 0
      BY <3>1, Zenon DEF Strtol
    <3> QED BY <1>4, <2>1, <2>2, <3>2, Zenon DEF Verbosity_INFO
  <2>3. CASE w # ""
    <3>1. w \in DOMAIN Number
      BY <1>4, <2>3, Zenon DEF IsLevel, Named
    <3>2. Number[w] \in Int
      BY <3>1, CommandLineAssumption, Zenon DEF Range
    <3>3. g = ToInt(Clamp(Number[w]))
      BY <2>1, <3>1, Zenon DEF Strtol
    <3> QED BY <1>4, <2>3, <3>2, <3>3, CutDown, Zenon
  <2> QED BY <2>2, <2>3
<1> QED BY <1>2, <1>3, <1>4

(* parse_args: the last flag decides, or the program stops.                  *)
THEOREM LastFlagDecidesCorrect == ParseSpec => []LastFlagDecides
<1>1. ASSUME ParseInv, parsing # "loop"
      PROVE  parsing = "done" <=> \A i \in Flags : HasValue(i) /\ IsLevel(Value(i))
  <2>1. parsing \in {"done", "abort"}
    BY <1>1, Zenon DEF ParseInv, ParseTypeOK
  <2>2. CASE parsing = "done"
    <3>1. FlagsTo(arg_it) = Flags
      BY <1>1, <2>2, SMT DEF ParseInv, ParseTypeOK, FlagsTo, Flags
    <3> QED BY <1>1, <2>2, <3>1, Zenon DEF ParseInv, FlagInv, Good
  <2>3. CASE parsing = "abort"
    BY <1>1, <2>3, Zenon DEF ParseInv, FlagInv, Good
  <2> QED BY <2>1, <2>2, <2>3
<1>2. ASSUME ParseInv, parsing = "done", Flags = {}
      PROVE  g_stderr_verbosity = given.verbosity
  BY <1>2, Zenon DEF ParseInv, FlagInv, FlagsTo
<1>3. ASSUME ParseInv, parsing = "done", Flags # {}
      PROVE  /\ Value(Max(Flags)) \in Argument /\ IsLevel(Value(Max(Flags)))
             /\ g_stderr_verbosity = Level(Value(Max(Flags))).value
  <2>1. FlagsTo(arg_it) = Flags /\ \A i \in Flags : i \in Int /\ i \in 1..Len(given.argv)
    BY <1>3, SMT DEF ParseInv, ParseTypeOK, FlagsTo, Flags
  <2>2. PICK m \in Flags : /\ \A i \in Flags : i <= m
                           /\ g_stderr_verbosity = Level(Value(m)).value
    BY <1>3, <2>1, Zenon DEF ParseInv, FlagInv
  <2>3. Max(Flags) = m
    <3>1. \A x, y \in Flags : (x >= y <=> y <= x) /\ (x <= y /\ y <= x => x = y)
      BY <2>1, SMT
    <3>2. Max(Flags) \in Flags /\ \A y \in Flags : Max(Flags) >= y
      BY <2>2, <3>1, Zenon DEF Max
    <3> QED BY <2>2, <3>1, <3>2, Zenon
  <2>4. HasValue(m) /\ IsLevel(Value(m))
    BY <1>1, <1>3, <2>2
  <2>5. Value(m) \in Argument
    <3>1. given.argv \in Seq(Argument) /\ m \in 1..Len(given.argv)
      BY <1>3, <2>1, <2>2, Zenon DEF ParseInv, ParseTypeOK
    <3>2. given.argv[m] \in Argument
      BY <3>1, SMT
    <3>3. CASE Separate(given.argv[m])
      <4>1. m + 1 \in 1..Len(given.argv)
        BY <2>4, <3>1, <3>3, SMT DEF HasValue
      <4>2. given.argv[m + 1] \in Argument
        BY <3>1, <4>1, SMT
      <4> QED BY <3>3, <4>2, Zenon DEF Value
    <3>4. CASE ~Separate(given.argv[m])
      <4>1. [given.argv[m] EXCEPT !.flag = FALSE] \in Argument
        BY <3>2, Zenon DEF Argument
      <4> QED BY <3>4, <4>1, Zenon DEF Value
    <3> QED BY <3>3, <3>4
  <2> QED BY <2>2, <2>3, <2>4, <2>5
<1>4. ASSUME ParseInv, parsing = "done", Flags # {}
      PROVE  LET w == Value(Max(Flags)).word
                 Is(level) == g_stderr_verbosity = level
             IN IF w \in DOMAIN CustomLevel THEN Is(CustomLevel[w])
                ELSE IF w \in DOMAIN StandardLevel THEN Is(StandardLevel[w])
                ELSE IF w = "" THEN Is(Verbosity_INFO)
                ELSE /\ Number[w] \in (-IntMax - 1)..IntMax => Is(Number[w])
                     /\ Number[w] \in (-LongMax - 1)..LongMax
                          => LowBits(g_stderr_verbosity, Number[w])
                     /\ Number[w] > LongMax => Is(Verbosity_WARNING)
                     /\ Number[w] < -LongMax => Is(Verbosity_INFO)
  BY <1>3, <1>4, LevelWorth, Zenon
<1>5. ParseInv => LastFlagDecides
  BY <1>1, <1>2, <1>4, Zenon DEF LastFlagDecides
<1> QED BY <1>5, ParseInvariant, PTL

-----------------------------------------------------------------------------
(* Only the main thread and the flush thread use s_callbacks.                *)
LEMMA UseTypes ==
  ASSUME dead_use \in SUBSET {"main", "flusher"}, NEW who \in {"main", "flusher"},
         UseCallbacks(who)
  PROVE  /\ dead_use' \in SUBSET {"main", "flusher"}
         /\ ~dead => dead_use' = dead_use
BY SMT DEF UseCallbacks

(* LogF gives what it logs to the callback, or to nobody, and leaves the     *)
(* flush thread asleep unless it starts it.                                  *)
LEMMA LogFTypes ==
  ASSUME StartTypeOK, NEW n \in Nat, NEW v, LogF(n, v)
  PROVE  /\ logged' \in Nat /\ durable' \in Nat
         /\ s_needs_flushing' \in BOOLEAN
         /\ flusher' \in {"unborn", "idle", "flush", "flushing"}
         /\ dead_use' \in SUBSET {"main", "flusher"}
         /\ installed' = installed /\ dead' = dead
         /\ s_mutex = "free" /\ s_mutex' = "free"
<1>1. s_needs_flushing' \in BOOLEAN
  BY Zenon DEF LogF, CanFlush, StartTypeOK
<1>2. logged' \in Nat /\ durable' \in Nat
  BY SMT DEF LogF, CanFlush, StartTypeOK
<1>3. /\ flusher' \in {"unborn", "idle", "flush", "flushing"}
      /\ installed' = installed /\ dead' = dead
      /\ s_mutex = "free" /\ s_mutex' = "free"
  BY Zenon DEF LogF, CanFlush, StartTypeOK
<1>4. dead_use' \in SUBSET {"main", "flusher"}
  BY UseTypes, Zenon DEF LogF, CanFlush, StartTypeOK
<1> QED BY <1>1, <1>2, <1>3, <1>4, Zenon

(* What the callback keeps is what it was given, at most.                    *)
LEMMA LogFKeeps ==
  ASSUME StartTypeOK, KeptInv, NEW n \in Nat, NEW v, LogF(n, v)
  PROVE  /\ logged <= logged' /\ durable <= durable' /\ durable' <= logged'
         /\ ~installed /\ on_close => durable' = logged'
BY SMT DEF LogF, CanFlush, StartTypeOK, KeptInv

(* The flush thread may be born, but not woken.                              *)
LEMMA LogFWakesNobody ==
  ASSUME NEW n, NEW v, LogF(n, v)
  PROVE  /\ flusher' = flusher \/ (flusher = "unborn" /\ flusher' = "idle")
         /\ ~dead => dead_use' = dead_use
BY SMT DEF LogF, CanFlush, UseCallbacks

(* How far parse_args gets init.                                             *)
LEMMA ParseStages ==
  ASSUME g_stderr_verbosity \in Int, Parse
  PROVE  /\ stage = "parse" /\ stage' \in {"parse", "aborted", "header"}
         /\ g_stderr_verbosity' \in Int
         /\ UNCHANGED <<g_preamble_header, buffered, on_close, on_flush, owed, on_its_way, s_current_dir,
                        on_stderr, atexit_handler, installed, dead, s_needs_flushing,
                        s_mutex, flusher, logged, durable, dead_use, messages>>
<1>1. /\ stage = "parse" /\ ParseNext
      /\ UNCHANGED <<settings, history, inits, outputs, messages>>
  BY Zenon DEF Parse
<1>2. g_stderr_verbosity' \in Int
  BY <1>1, ParseKeepsLevel
<1>3. parsing' \in {"loop", "abort", "done"}
  BY <1>1, Zenon DEF ParseNext, KeepArgument, TakeFlag, EndParseArgs
<1>4. stage' \in {"parse", "aborted", "header"}
  BY <1>3, SMT DEF Parse
<1> QED BY <1>1, <1>2, <1>4, Zenon DEF settings, history, inits, outputs

(* A step of the startup keeps the types,                                    *)
LEMMA TypeStep ==
  ASSUME StartTypeOK, [StartNext]_<<args, program>>
  PROVE  StartTypeOK'
<1>0. StartTypeOK /\ g_internal_verbosity \in Int /\ Len(OwnLines) \in Nat
      /\ OwnLines \in Seq({"line"})
  <2>1. OwnLines \in Seq({"line"}) /\ Len(OwnLines) \in Nat
    BY SMT DEF OwnLines
  <2> QED BY <2>1, StartupAssumption
<1>1. CASE CallInit
  BY <1>1, <1>0, SMT DEF StartTypeOK, CallInit, Go, args, settings, history, inits, outputs
<1>2. CASE GetCwd
  <2>1. on_stderr' \in Seq({"warning", "header", "line"})
    <3>1. on_stderr \in Seq({"warning", "header", "line"})
      BY <1>0 DEF StartTypeOK
    <3>2. on_stderr \o <<"warning">> \in Seq({"warning", "header", "line"})
      BY <3>1, SMT
    <3> QED BY <1>2, <3>1, <3>2, Zenon DEF GetCwd, Tell
  <2>2. CASE LogF(1, Verbosity_WARNING)
    BY <1>2, <1>0, <2>1, <2>2, LogFTypes, SMT DEF StartTypeOK, GetCwd, args, settings, history
  <2>3. CASE UNCHANGED outputs
    BY <1>2, <1>0, <2>1, <2>3, SMT DEF StartTypeOK, GetCwd, args, settings, history, outputs
  <2> QED BY <1>2, <2>2, <2>3, Zenon DEF GetCwd
<1>3. CASE Parse
  <2>1. g_stderr_verbosity \in Int
    BY <1>0 DEF StartTypeOK
  <2>2. /\ stage = "parse" /\ stage' \in {"parse", "aborted", "header"}
        /\ g_stderr_verbosity' \in Int
        /\ UNCHANGED <<g_preamble_header, buffered, on_close, on_flush, owed, on_its_way, s_current_dir,
                       on_stderr, atexit_handler, installed, dead, s_needs_flushing,
                       s_mutex, flusher, logged, durable, dead_use, messages>>
    BY <1>3, <2>1, ParseStages, Zenon
  <2> QED BY <1>0, <2>2, SMT DEF StartTypeOK
<1>4. CASE Header
  BY <1>4, <1>0, SMT DEF StartTypeOK, Header, Go, args, settings, history, inits, outputs
<1>5. CASE Messages
  <2>1. LogF(Len(OwnLines), g_internal_verbosity)
    BY <1>5, Zenon DEF Messages
  <2>2. on_stderr' \in Seq({"warning", "header", "line"})
    BY <1>5, <1>0, SMT DEF StartTypeOK, Messages, Tell
  <2> QED BY <1>5, <1>0, <2>1, <2>2, LogFTypes, SMT DEF StartTypeOK, Messages, Go, args, settings, history, inits
<1>6. CASE AtExit
  BY <1>6, <1>0, SMT DEF StartTypeOK, AtExit, Go, args, settings, history, inits, outputs
<1>7. CASE Log
  <2>1. LogF(1, Verbosity_INFO)
    BY <1>7, Zenon DEF Log
  <2> QED BY <1>7, <1>0, <2>1, LogFTypes, SMT DEF StartTypeOK, Log, args, settings, history, inits
<1>8. CASE AddCallback
  BY <1>8, <1>0, SMT DEF StartTypeOK, AddCallback, args, settings, history, inits, outputs
<1>9. CASE Shutdown
  <2>1. LogF(1, g_internal_verbosity)
    BY <1>9, Zenon DEF Shutdown
  <2> QED BY <1>9, <1>0, <2>1, LogFTypes, SMT DEF StartTypeOK, Shutdown, Go, args, settings, history, inits
<1>10. CASE RemoveAll
  <2>1. installed' \in BOOLEAN
    BY <1>10, Zenon DEF RemoveAll
  <2> QED BY <1>10, <1>0, <2>1, SMT DEF StartTypeOK, RemoveAll, Go, args, settings, history, inits
<1>11. CASE Exit
  BY <1>11, <1>0, SMT DEF StartTypeOK, Exit, args, settings, history, inits, outputs
<1>12. CASE OnAtexit
  <2>1. LogF(1, g_internal_verbosity)
    BY <1>12, Zenon DEF OnAtexit
  <2> QED BY <1>12, <1>0, <2>1, LogFTypes, SMT DEF StartTypeOK, OnAtexit, args, settings, history, inits
<1>13. CASE NoAtexit
  BY <1>13, <1>0, SMT DEF StartTypeOK, NoAtexit, Go, args, settings, history, inits, outputs
<1>14. CASE AtexitFlush
  BY <1>14, <1>0, SMT DEF StartTypeOK, AtexitFlush, Go, BeginFlush, UseCallbacks, args, settings, history, inits, outputs
<1>15. CASE AtexitFlushed
  <2>1. UseCallbacks("main")
    BY <1>15, Zenon DEF AtexitFlushed, EndFlush, CanFlush
  <2>2. dead_use' \in SUBSET {"main", "flusher"}
    BY <1>0, <2>1, UseTypes, Zenon DEF StartTypeOK
  <2>3. s_needs_flushing' \in BOOLEAN /\ durable' \in Nat
    BY <1>15, <1>0, Zenon DEF AtexitFlushed, EndFlush, CanFlush, StartTypeOK
  <2> QED BY <1>15, <1>0, <2>2, <2>3, SMT DEF StartTypeOK, AtexitFlushed, Go, EndFlush, CanFlush, args, settings, history, inits
<1>16. CASE DestroyCallbacks
  BY <1>16, <1>0, SMT DEF StartTypeOK, DestroyCallbacks, Go, args, settings, history, inits, outputs
<1>17. CASE EndProcess
  BY <1>17, <1>0, SMT DEF StartTypeOK, EndProcess, Go, args, settings, history, inits, outputs
<1>18. CASE Poll
  BY <1>18, <1>0, SMT DEF StartTypeOK, Poll, Flusher, args, settings, history, inits, outputs
<1>19. CASE ThreadFlush
  BY <1>19, <1>0, SMT DEF StartTypeOK, ThreadFlush, Flusher, BeginFlush, UseCallbacks, args, settings, history, inits, outputs
<1>20. CASE ThreadFlushed
  <2>1. UseCallbacks("flusher")
    BY <1>20, Zenon DEF ThreadFlushed, EndFlush, CanFlush
  <2>2. dead_use' \in SUBSET {"main", "flusher"}
    BY <1>0, <2>1, UseTypes, Zenon DEF StartTypeOK
  <2>3. s_needs_flushing' \in BOOLEAN /\ durable' \in Nat
    BY <1>20, <1>0, Zenon DEF ThreadFlushed, EndFlush, CanFlush, StartTypeOK
  <2> QED BY <1>20, <1>0, <2>2, <2>3, SMT DEF StartTypeOK, ThreadFlushed, Flusher, EndFlush, CanFlush, args, settings, history, inits
<1>21. CASE UNCHANGED <<args, program>>
  BY <1>21, <1>0, SMT DEF StartTypeOK, program, args, settings, history, inits, outputs
<1> QED BY <1>1, <1>2, <1>3, <1>4, <1>5, <1>6, <1>7, <1>8, <1>9, <1>10, <1>11, <1>12, <1>13, <1>14, <1>15, <1>16, <1>17, <1>18, <1>19, <1>20, <1>21, Zenon DEF StartNext

(* keeps what was given to the callback,                                     *)
LEMMA KeptStep ==
  ASSUME StartTypeOK, KeptInv, [StartNext]_<<args, program>>
  PROVE  KeptInv'
<1>0. StartTypeOK /\ KeptInv /\ Len(OwnLines) \in Nat
  <2>1. Len(OwnLines) \in Nat
    BY SMT DEF OwnLines
  <2> QED BY <2>1
<1>1. CASE CallInit
  BY <1>1, <1>0, SMT DEF KeptInv, Keeps, StartTypeOK, CallInit, Go, args, settings, history, inits, outputs
<1>2. CASE GetCwd
  BY <1>2, <1>0, SMT DEF KeptInv, Keeps, StartTypeOK, GetCwd, Tell, LogF, CanFlush, UseCallbacks, args, settings, history, inits, outputs
<1>3. CASE Parse
  <2>1. g_stderr_verbosity \in Int
    BY <1>0 DEF StartTypeOK
  <2> QED BY <1>3, <1>0, <2>1, ParseStages, SMT DEF KeptInv, Keeps, StartTypeOK
<1>4. CASE Header
  BY <1>4, <1>0, SMT DEF KeptInv, Keeps, StartTypeOK, Header, Go, args, settings, history, inits, outputs
<1>5. CASE Messages
  BY <1>5, <1>0, SMT DEF KeptInv, Keeps, StartTypeOK, Messages, Go, Tell, LogF, CanFlush, UseCallbacks, OwnLines, args, settings, history, inits, outputs
<1>6. CASE AtExit
  BY <1>6, <1>0, SMT DEF KeptInv, Keeps, StartTypeOK, AtExit, Go, args, settings, history, inits, outputs
<1>7. CASE Log
  BY <1>7, <1>0, SMT DEF KeptInv, Keeps, StartTypeOK, Log, LogF, CanFlush, UseCallbacks, args, settings, history, inits, outputs
<1>8. CASE AddCallback
  BY <1>8, <1>0, SMT DEF KeptInv, Keeps, StartTypeOK, AddCallback, args, settings, history, inits, outputs
<1>9. CASE Shutdown
  BY <1>9, <1>0, SMT DEF KeptInv, Keeps, StartTypeOK, Shutdown, Go, LogF, CanFlush, UseCallbacks, args, settings, history, inits, outputs
<1>10. CASE RemoveAll
  BY <1>10, <1>0, SMT DEF KeptInv, Keeps, StartTypeOK, RemoveAll, Go, args, settings, history, inits, outputs
<1>11. CASE Exit
  BY <1>11, <1>0, SMT DEF KeptInv, Keeps, StartTypeOK, Exit, args, settings, history, inits, outputs
<1>12. CASE OnAtexit
  BY <1>12, <1>0, SMT DEF KeptInv, Keeps, StartTypeOK, OnAtexit, LogF, CanFlush, UseCallbacks, args, settings, history, inits, outputs
<1>13. CASE NoAtexit
  BY <1>13, <1>0, SMT DEF KeptInv, Keeps, StartTypeOK, NoAtexit, Go, args, settings, history, inits, outputs
<1>14. CASE AtexitFlush
  BY <1>14, <1>0, SMT DEF KeptInv, Keeps, StartTypeOK, AtexitFlush, Go, BeginFlush, UseCallbacks, args, settings, history, inits, outputs
<1>15. CASE AtexitFlushed
  BY <1>15, <1>0, SMT DEF KeptInv, Keeps, StartTypeOK, AtexitFlushed, Go, EndFlush, CanFlush, UseCallbacks, args, settings, history, inits, outputs
<1>16. CASE DestroyCallbacks
  BY <1>16, <1>0, SMT DEF KeptInv, Keeps, StartTypeOK, DestroyCallbacks, Go, args, settings, history, inits, outputs
<1>17. CASE EndProcess
  BY <1>17, <1>0, SMT DEF KeptInv, Keeps, StartTypeOK, EndProcess, Go, args, settings, history, inits, outputs
<1>18. CASE Poll
  BY <1>18, <1>0, SMT DEF KeptInv, Keeps, StartTypeOK, Poll, Flusher, args, settings, history, inits, outputs
<1>19. CASE ThreadFlush
  BY <1>19, <1>0, SMT DEF KeptInv, Keeps, StartTypeOK, ThreadFlush, Flusher, BeginFlush, UseCallbacks, args, settings, history, inits, outputs
<1>20. CASE ThreadFlushed
  BY <1>20, <1>0, SMT DEF KeptInv, Keeps, StartTypeOK, ThreadFlushed, Flusher, EndFlush, CanFlush, UseCallbacks, args, settings, history, inits, outputs
<1>21. CASE UNCHANGED <<args, program>>
  BY <1>21, <1>0, SMT DEF KeptInv, Keeps, StartTypeOK, program, args, settings, history, inits, outputs
<1> QED BY <1>1, <1>2, <1>3, <1>4, <1>5, <1>6, <1>7, <1>8, <1>9, <1>10, <1>11, <1>12, <1>13, <1>14, <1>15, <1>16, <1>17, <1>18, <1>19, <1>20, <1>21, Zenon DEF StartNext

(* and lets the flush thread sleep once s_callbacks is gone.                 *)
LEMMA DeadStep ==
  ASSUME StartTypeOK, KeptInv, DeadInv, [StartNext]_<<args, program>>
  PROVE  DeadInv'
<1>0. StartTypeOK /\ DeadInv /\ (dead <=> stage \in {"older_objects", "end"})
  BY DEF KeptInv
<1>1. CASE CallInit
  BY <1>1, <1>0, SMT DEF DeadInv, StartTypeOK, CallInit, Go, args, settings, history, inits, outputs
<1>2. CASE GetCwd
  <2>1. CASE LogF(1, Verbosity_WARNING)
    BY <1>2, <1>0, <2>1, LogFTypes, LogFWakesNobody, SMT
       DEF DeadInv, StartTypeOK, GetCwd, args, settings, history
  <2>2. CASE UNCHANGED outputs
    BY <1>2, <1>0, <2>2, SMT DEF DeadInv, StartTypeOK, GetCwd, args, settings, history, outputs
  <2> QED BY <1>2, <2>1, <2>2, Zenon DEF GetCwd
<1>3. CASE Parse
  <2>1. g_stderr_verbosity \in Int
    BY <1>0 DEF StartTypeOK
  <2>2. /\ stage = "parse" /\ stage' \in {"parse", "aborted", "header"}
        /\ g_stderr_verbosity' \in Int
        /\ UNCHANGED <<g_preamble_header, buffered, on_close, on_flush, owed, on_its_way, s_current_dir,
                       on_stderr, atexit_handler, installed, dead, s_needs_flushing,
                       s_mutex, flusher, logged, durable, dead_use, messages>>
    BY <1>3, <2>1, ParseStages, Zenon
  <2> QED BY <1>0, <2>2, SMT DEF DeadInv, StartTypeOK
<1>4. CASE Header
  BY <1>4, <1>0, SMT DEF DeadInv, StartTypeOK, Header, Go, args, settings, history, inits, outputs
<1>5. CASE Messages
  <2>1. LogF(Len(OwnLines), g_internal_verbosity)
    BY <1>5, Zenon DEF Messages
  <2> QED BY <1>5, <1>0, <2>1, LogFTypes, LogFWakesNobody, SMT
          DEF DeadInv, StartTypeOK, Messages, Go, args, settings, history, inits
<1>6. CASE AtExit
  BY <1>6, <1>0, SMT DEF DeadInv, StartTypeOK, AtExit, Go, args, settings, history, inits, outputs
<1>7. CASE Log
  <2>1. LogF(1, Verbosity_INFO)
    BY <1>7, Zenon DEF Log
  <2> QED BY <1>7, <1>0, <2>1, LogFTypes, LogFWakesNobody, SMT
          DEF DeadInv, StartTypeOK, Log, args, settings, history, inits
<1>8. CASE AddCallback
  BY <1>8, <1>0, SMT DEF DeadInv, StartTypeOK, AddCallback, args, settings, history, inits, outputs
<1>9. CASE Shutdown
  <2>1. LogF(1, g_internal_verbosity)
    BY <1>9, Zenon DEF Shutdown
  <2> QED BY <1>9, <1>0, <2>1, LogFTypes, LogFWakesNobody, SMT
          DEF DeadInv, StartTypeOK, Shutdown, Go, args, settings, history, inits
<1>10. CASE RemoveAll
  BY <1>10, <1>0, SMT DEF DeadInv, StartTypeOK, RemoveAll, Go, args, settings, history, inits, outputs
<1>11. CASE Exit
  BY <1>11, <1>0, SMT DEF DeadInv, StartTypeOK, Exit, args, settings, history, inits, outputs
<1>12. CASE OnAtexit
  <2>1. LogF(1, g_internal_verbosity)
    BY <1>12, Zenon DEF OnAtexit
  <2> QED BY <1>12, <1>0, <2>1, LogFTypes, LogFWakesNobody, SMT
          DEF DeadInv, StartTypeOK, OnAtexit, args, settings, history, inits
<1>13. CASE NoAtexit
  BY <1>13, <1>0, SMT DEF DeadInv, StartTypeOK, NoAtexit, Go, args, settings, history, inits, outputs
<1>14. CASE AtexitFlush
  BY <1>14, <1>0, SMT DEF DeadInv, StartTypeOK, AtexitFlush, Go, BeginFlush, UseCallbacks, args, settings, history, inits, outputs
<1>15. CASE AtexitFlushed
  BY <1>15, <1>0, SMT DEF DeadInv, StartTypeOK, AtexitFlushed, Go, EndFlush, CanFlush, UseCallbacks, args, settings, history, inits, outputs
<1>16. CASE DestroyCallbacks
  BY <1>16, <1>0, SMT DEF DeadInv, StartTypeOK, DestroyCallbacks, Go, args, settings, history, inits, outputs
<1>17. CASE EndProcess
  BY <1>17, <1>0, SMT DEF DeadInv, StartTypeOK, EndProcess, Go, args, settings, history, inits, outputs
<1>18. CASE Poll
  BY <1>18, <1>0, SMT DEF DeadInv, StartTypeOK, Poll, Flusher, args, settings, history, inits, outputs
<1>19. CASE ThreadFlush
  BY <1>19, <1>0, SMT DEF DeadInv, StartTypeOK, ThreadFlush, Flusher, BeginFlush, UseCallbacks, args, settings, history, inits, outputs
<1>20. CASE ThreadFlushed
  BY <1>20, <1>0, SMT DEF DeadInv, StartTypeOK, ThreadFlushed, Flusher, EndFlush, CanFlush, UseCallbacks, args, settings, history, inits, outputs
<1>21. CASE UNCHANGED <<args, program>>
  BY <1>21, <1>0, SMT DEF DeadInv, StartTypeOK, program, args, settings, history, inits, outputs
<1> QED BY <1>1, <1>2, <1>3, <1>4, <1>5, <1>6, <1>7, <1>8, <1>9, <1>10, <1>11, <1>12, <1>13, <1>14, <1>15, <1>16, <1>17, <1>18, <1>19, <1>20, <1>21, Zenon DEF StartNext

(* The smaller of loguru's own level and INFO.                               *)
LEMMA MinIs ==
  ASSUME NEW a \in Int, NEW b \in Int
  PROVE  Min({a, b}) \in {a, b} /\ Min({a, b}) <= a /\ Min({a, b}) <= b
<1>1. \E x \in {a, b} : \A y \in {a, b} : x <= y
  <2>1. CASE a <= b
    BY <2>1, SMT
  <2>2. CASE b <= a
    BY <2>2, SMT
  <2> QED BY <2>1, <2>2, SMT
<1>2. Min({a, b}) \in {a, b} /\ \A y \in {a, b} : Min({a, b}) <= y
  BY <1>1, Zenon DEF Min
<1> QED BY <1>2

(* Who may say something is not below both.                                  *)
LEMMA NotBelowMin ==
  ASSUME g_stderr_verbosity \in Int,
         g_stderr_verbosity >= Verbosity_INFO \/ g_internal_verbosity <= g_stderr_verbosity
  PROVE  ~(g_stderr_verbosity < Min({Verbosity_INFO, g_internal_verbosity}))
<1>1. Verbosity_INFO \in Int /\ g_internal_verbosity \in Int
  BY StartupAssumption DEF Verbosity_INFO
<1> DEFINE m == Min({Verbosity_INFO, g_internal_verbosity})
<1>2. m \in {Verbosity_INFO, g_internal_verbosity}
      /\ m <= Verbosity_INFO /\ m <= g_internal_verbosity
  BY <1>1, MinIs
<1> HIDE DEF m
<1>3. ~(g_stderr_verbosity < m)
  BY <1>1, <1>2, SMT
<1> QED BY <1>3 DEF m

(* What a text, or several, add to what is said.                             *)
LEMMA SaidThen ==
  ASSUME on_stderr \in Seq({"warning", "header", "line"}),
         NEW more \in Seq({"warning", "header", "line"}),
         on_stderr' = on_stderr \o more
  PROVE  /\ Said \subseteq Said'
         /\ \A n \in Said' : n \in Said \/ n > Len(on_stderr)
         /\ \A n \in Said : on_stderr'[n] = on_stderr[n]
         /\ \A n \in Said : n \in Nat /\ n <= Len(on_stderr)
         /\ \A n \in Said' : n > Len(on_stderr) => more[n - Len(on_stderr)] # "warning"
                                            /\ n - Len(on_stderr) \in 1..Len(more)
                                            /\ n \in Nat
BY SMT DEF Said

(* Where nothing is written, the header stays where it is.                   *)
LEMMA HeaderStays ==
  ASSUME HeaderInv, StartTypeOK, UNCHANGED <<g_stderr_verbosity, g_preamble_header, on_stderr>>,
         stage' \in {"before", "getcwd", "parse", "header", "aborted"}
            => stage \in {"before", "getcwd", "parse", "header", "aborted"},
         stage' = "messages" => stage = "messages"
  PROVE  HeaderInv'
<1>1. Said' = Said
  BY Zenon DEF Said
<1>2. HeaderFirst' <=> HeaderFirst
  BY <1>1, Zenon DEF HeaderFirst
<1> QED BY <1>1, <1>2, Zenon DEF HeaderInv, HeaderOnTop

(* The header comes first, or nothing is said.                               *)
LEMMA HeaderStep ==
  ASSUME StartTypeOK, HeaderInv, [StartNext]_<<args, program>>
  PROVE  HeaderInv'
<1>0. StartTypeOK /\ HeaderInv
  OBVIOUS
<1>1. ASSUME Said' = {}, stage' # "messages" PROVE HeaderInv'
  BY <1>1, Zenon DEF HeaderInv, HeaderOnTop
<1>2. CASE GetCwd
  <2>1. Said' = {}
    <3>1. Said = {}
      BY <1>2, Zenon DEF GetCwd, HeaderInv
    <3>2. CASE on_stderr' = on_stderr
      BY <3>1, <3>2, Zenon DEF Said
    <3>3. CASE on_stderr' = on_stderr \o <<"warning">>
      <4>1. <<"warning">> \in Seq({"warning", "header", "line"})
        OBVIOUS
      <4>2. \A n \in Said' : n > Len(on_stderr) /\ <<"warning">>[n - Len(on_stderr)] # "warning"
                              /\ n - Len(on_stderr) \in 1..1
        BY <4>1, <3>1, <3>3, SaidThen DEF StartTypeOK
      <4> QED BY <4>2
    <3> QED BY <1>2, <3>2, <3>3, Zenon DEF GetCwd, Tell
  <2> QED BY <1>1, <1>2, <2>1, SMT DEF GetCwd
<1>3. CASE Parse
  <2>1. Said' = {}
    BY <1>3, ParseStages, Zenon DEF HeaderInv, StartTypeOK, Said
  <2>2. stage' \in {"parse", "aborted", "header"}
    BY <1>3, ParseStages, Zenon DEF StartTypeOK
  <2> QED BY <1>1, <2>1, <2>2
<1>4. CASE Header
  <2>1. Said = {} /\ stage' = "messages"
        /\ UNCHANGED <<g_preamble_header, g_stderr_verbosity>>
    BY <1>4, Zenon DEF Header, Go, HeaderInv, args, settings
  <2>2. CASE g_stderr_verbosity >= Verbosity_INFO /\ g_preamble_header
    <3>1. on_stderr' = on_stderr \o <<"header">>
      BY <1>4, <2>2, SMT DEF Header, StartTypeOK
    <3>2. Said' = {Len(on_stderr) + 1} /\ on_stderr'[Len(on_stderr) + 1] = "header"
      BY <2>1, <3>1, SMT DEF Said, StartTypeOK
    <3>3. HeaderFirst' /\ Len(on_stderr) + 1 \in Int
      BY <3>2, SMT DEF HeaderFirst, StartTypeOK
    <3>4. ~(g_stderr_verbosity < Min({Verbosity_INFO, g_internal_verbosity}))
      BY <2>2, NotBelowMin DEF StartTypeOK
    <3> QED BY <2>1, <2>2, <3>3, <3>4, SMT DEF HeaderInv, HeaderOnTop
  <2>3. CASE ~(g_stderr_verbosity >= Verbosity_INFO /\ g_preamble_header)
    <3>1. Said' = {}
      BY <1>4, <2>1, <2>3, Zenon DEF Header, Said
    <3> QED BY <2>1, <2>3, <3>1, SMT DEF HeaderInv, HeaderOnTop
  <2> QED BY <2>2, <2>3, Zenon
<1>5. CASE Messages
  <2>1. /\ stage = "messages" /\ stage' = "atexit"
        /\ UNCHANGED <<g_preamble_header, g_stderr_verbosity>>
    BY <1>5, Zenon DEF Messages, Go, args, settings
  <2>2. CASE on_stderr' = on_stderr
    BY <2>1, <2>2, HeaderStays
  <2>3. CASE g_internal_verbosity <= g_stderr_verbosity /\ on_stderr' = on_stderr \o OwnLines
    <3>1. OwnLines \in Seq({"warning", "header", "line"})
      BY SMT DEF OwnLines
    <3>2. ~(g_stderr_verbosity < Min({Verbosity_INFO, g_internal_verbosity}))
      BY <2>3, NotBelowMin DEF StartTypeOK
    <3>3. CASE g_stderr_verbosity >= Verbosity_INFO /\ g_preamble_header
      <4>1. PICK n \in Said : on_stderr[n] = "header" /\ \A m \in Said : n <= m
        BY <2>1, <3>3, Zenon DEF HeaderInv, HeaderFirst
      <4>2. n \in Said' /\ on_stderr'[n] = "header" /\ n \in Nat /\ n <= Len(on_stderr)
        BY <4>1, <2>3, <3>1, SaidThen DEF StartTypeOK
      <4>3. \A m \in Said' : m \in Said \/ (m > Len(on_stderr) /\ m \in Nat)
        BY <2>3, <3>1, SaidThen DEF StartTypeOK
      <4>4. \A m \in Said' : n <= m
        BY <4>1, <4>2, <4>3, SMT DEF StartTypeOK
      <4>5. HeaderFirst'
        BY <4>2, <4>4, Zenon DEF HeaderFirst
      <4> QED BY <2>1, <3>2, <4>5, SMT DEF HeaderInv, HeaderOnTop
    <3>4. CASE ~(g_stderr_verbosity >= Verbosity_INFO /\ g_preamble_header)
      <4>1. ~(g_internal_verbosity >= Verbosity_INFO /\ g_preamble_header)
        BY <3>4, <2>3, StartupAssumption, SMT DEF StartTypeOK, Verbosity_INFO
      <4> QED BY <2>1, <3>2, <4>1, SMT DEF HeaderInv, HeaderOnTop
    <3> QED BY <3>3, <3>4, Zenon
  <2> QED BY <1>5, <2>2, <2>3, Zenon DEF Messages, Tell
<1>6. CASE CallInit
  BY <1>0, <1>6, HeaderStays, SMT DEF CallInit, Go, args, settings, inits
<1>7. CASE AtExit
  BY <1>0, <1>7, HeaderStays, SMT DEF AtExit, Go, args, settings, inits
<1>8. CASE Log
  BY <1>0, <1>8, HeaderStays, SMT DEF Log, args, settings, inits
<1>9. CASE AddCallback
  BY <1>0, <1>9, HeaderStays, SMT DEF AddCallback, args, settings, inits
<1>10. CASE Shutdown
  BY <1>0, <1>10, HeaderStays, SMT DEF Shutdown, Go, args, settings, inits
<1>11. CASE RemoveAll
  BY <1>0, <1>11, HeaderStays, SMT DEF RemoveAll, Go, args, settings, inits
<1>12. CASE Exit
  BY <1>0, <1>12, HeaderStays, SMT DEF Exit, args, settings, inits
<1>13. CASE OnAtexit
  BY <1>0, <1>13, HeaderStays, SMT DEF OnAtexit, args, settings, inits
<1>14. CASE NoAtexit
  BY <1>0, <1>14, HeaderStays, SMT DEF NoAtexit, Go, args, settings, inits
<1>15. CASE AtexitFlush
  BY <1>0, <1>15, HeaderStays, SMT DEF AtexitFlush, Go, args, settings, inits
<1>16. CASE AtexitFlushed
  BY <1>0, <1>16, HeaderStays, SMT DEF AtexitFlushed, Go, args, settings, inits
<1>17. CASE DestroyCallbacks
  BY <1>0, <1>17, HeaderStays, SMT DEF DestroyCallbacks, Go, args, settings, inits
<1>18. CASE EndProcess
  BY <1>0, <1>18, HeaderStays, SMT DEF EndProcess, Go, args, settings, inits
<1>19. CASE Poll
  BY <1>0, <1>19, HeaderStays, SMT DEF Poll, Flusher, args, settings, inits
<1>20. CASE ThreadFlush
  BY <1>0, <1>20, HeaderStays, SMT DEF ThreadFlush, Flusher, args, settings, inits
<1>21. CASE ThreadFlushed
  BY <1>0, <1>21, HeaderStays, SMT DEF ThreadFlushed, Flusher, args, settings, inits
<1>22. CASE UNCHANGED <<args, program>>
  BY <1>0, <1>22, HeaderStays, SMT DEF args, program, settings, inits
<1> QED BY <1>2, <1>3, <1>4, <1>5, <1>6, <1>7, <1>8, <1>9, <1>10, <1>11, <1>12, <1>13, <1>14, <1>15, <1>16, <1>17, <1>18, <1>19, <1>20, <1>21, <1>22, Zenon DEF StartNext

-----------------------------------------------------------------------------
(* The inductive invariant of the startup, and that it is one.               *)
StartInv == StartTypeOK /\ KeptInv /\ DeadInv /\ HeaderInv

(* It holds to begin with,                                                   *)
LEMMA StartInvInit ==
  ASSUME StartInit
  PROVE  StartInv
<1>1. g_stderr_verbosity \in Int /\ NotStarted
  BY Zenon DEF StartInit, ParseInit, ParseArgs
<1>2. StartTypeOK
  <2>1. /\ s_current_dir \in BOOLEAN /\ atexit_handler \in BOOLEAN
        /\ installed \in BOOLEAN /\ dead \in BOOLEAN /\ s_needs_flushing \in BOOLEAN
    BY <1>1, Zenon DEF NotStarted
  <2> QED BY <1>1, <2>1, SMT DEF NotStarted, StartTypeOK
<1>3. KeptInv /\ DeadInv
  BY <1>1, SMT DEF NotStarted, KeptInv, DeadInv
<1>4. Said = {}
  BY <1>1, SMT DEF NotStarted, Said
<1>5. HeaderInv
  BY <1>1, <1>4, SMT DEF NotStarted, HeaderInv, HeaderOnTop
<1> QED BY <1>2, <1>3, <1>5 DEF StartInv

(* and every step keeps it.                                                  *)
LEMMA StartInvStep ==
  ASSUME StartInv, [StartNext]_<<args, program>>
  PROVE  StartInv'
BY TypeStep, KeptStep, DeadStep, HeaderStep, Zenon DEF StartInv

(* It is an invariant.                                                       *)
THEOREM StartInvariant == StartSpec => []StartInv
<1>1. StartInit => StartInv
  BY StartInvInit
<1>2. StartInv /\ [StartNext]_<<args, program>> => StartInv'
  BY StartInvStep
<1> QED BY <1>1, <1>2, PTL DEF StartSpec

(* init: the header is above what init logs, whatever the arguments.         *)
THEOREM HeaderOnTopCorrect == StartSpec => []HeaderOnTop
<1>1. StartInv => HeaderOnTop
  BY DEF StartInv, HeaderInv
<1> QED BY <1>1, StartInvariant, PTL

(* on_atexit: what was logged until its flush is durable at the end.         *)
THEOREM ExitLosesNothingCorrect == StartSpec => []ExitLosesNothing
<1>1. StartInv => ExitLosesNothing
  BY DEF StartInv, KeptInv, ExitLosesNothing
<1> QED BY <1>1, StartInvariant, PTL

(* The flush thread and s_callbacks after its destructor.                    *)
THEOREM DeadCallbacksUnusedCorrect == StartSpec => []DeadCallbacksUnused
<1>1. StartInv => DeadCallbacksUnused
  BY DEF StartInv, StartTypeOK, KeptInv, DeadInv, DeadCallbacksUnused
<1> QED BY <1>1, StartInvariant, PTL

(* The program's life contains parse_args as CommandLine has it: a step of   *)
(* the startup is one of parse_args or leaves its variables alone, so what   *)
(* holds of parse_args alone holds of it in init.                            *)
THEOREM StartParses == StartSpec => ParseSpec
<1>1. StartInit => ParseInit
  BY DEF StartInit
<1>2. [StartNext]_<<args, program>> => [ParseNext]_args
  BY Zenon DEF StartNext, CallInit, GetCwd, Parse, Header, Messages, AtExit, Log,
     AddCallback, Shutdown, RemoveAll, Exit, OnAtexit, NoAtexit, AtexitFlush,
     AtexitFlushed, DestroyCallbacks, EndProcess, Poll, ThreadFlush, ThreadFlushed, Flusher
<1> QED BY <1>1, <1>2, PTL DEF StartSpec, ParseSpec

-----------------------------------------------------------------------------
(***************************************************************************)
(* LogLine.                                                                *)
(***************************************************************************)
(* The larger of two numbers,                                                *)
LEMMA MaxIs ==
  ASSUME NEW a \in Int, NEW b \in Int
  PROVE  Max({a, b}) \in {a, b} /\ Max({a, b}) >= a /\ Max({a, b}) >= b
<1>1. \E x \in {a, b} : \A y \in {a, b} : x >= y
  <2>1. CASE a >= b
    BY <2>1, SMT
  <2>2. CASE b >= a
    BY <2>2, SMT
  <2> QED BY <2>1, <2>2, SMT
<1>2. Max({a, b}) \in {a, b} /\ \A y \in {a, b} : Max({a, b}) >= y
  BY <1>1, Zenon DEF Max
<1> QED BY <1>2

(* a field that is padded,                                                   *)
LEMMA AtLeastIs ==
  ASSUME NEW a \in Int, NEW b \in Int
  PROVE  AtLeast(a, b) = IF a >= b THEN a ELSE b
<1> DEFINE m == Max({a, b})
<1>1. m \in {a, b} /\ m >= a /\ m >= b
  BY MaxIs
<1> HIDE DEF m
<1>2. m = IF a >= b THEN a ELSE b
  BY <1>1, SMT
<1> QED BY <1>2 DEF AtLeast, m

(* and one that is cut.                                                      *)
LEMMA AtMostIs ==
  ASSUME NEW a \in Int, NEW b \in Int
  PROVE  AtMost(a, b) = IF a <= b THEN a ELSE b
<1> DEFINE m == Min({a, b})
<1>1. m \in {a, b} /\ m <= a /\ m <= b
  BY MinIs
<1> HIDE DEF m
<1>2. m = IF a <= b THEN a ELSE b
  BY <1>1, SMT
<1> QED BY <1>2 DEF AtMost, m

(* A number below 10000 has at most four digits, one below 100000 five.      *)
LEMMA DigitsIs ==
  ASSUME NEW n \in Nat
  PROVE  /\ Digits(n) \in 1..9
         /\ n < 10000 => Digits(n) <= 4
         /\ n < 100000 => Digits(n) <= 5
<1> DEFINE Powers == <<10, 100, 1000, 10000, 100000, 1000000, 10000000, 100000000>>
           T == {d \in DOMAIN Powers : n < Powers[d]} \cup {9}
           m == Min(T)
<1>1. /\ DOMAIN Powers = 1..8
      /\ Powers[4] = 10000 /\ Powers[5] = 100000
  OBVIOUS
<1>2. /\ T \in SUBSET (1..9) /\ 9 \in T
      /\ n < 10000 => 4 \in T
      /\ n < 100000 => 5 \in T
  BY <1>1, SMT
<1> HIDE DEF T, Powers
<1>3. T \in SUBSET Nat /\ T # {}
  BY <1>2
<1>4. \E x \in T : \A y \in T : x <= y
  BY <1>3, Least
<1>5. m \in T /\ \A y \in T : m <= y
  BY <1>4, Zenon DEF Min
<1>6. m = Digits(n)
  BY DEF Digits, T, Powers
<1> HIDE DEF m
<1>7. /\ m \in 1..9
      /\ n < 10000 => m <= 4
      /\ n < 100000 => m <= 5
  BY <1>2, <1>5, SMT
<1> QED BY <1>6, <1>7

(* The values the variables of a line take.                                  *)
LineTypeOK ==
  /\ writing \in {"none", "header", "between", "line", "whole"}
  /\ entry \in [uptime : Nat, name : Nat, file : Nat, line : Nat, verbosity : Int]
  /\ column \in 1..8 /\ pos \in Nat /\ room \in Int
  /\ begins \in [{"header", "line"} -> Seq(Nat)]
  /\ stored \in [{"header", "line"} -> Nat]

(* The header up to a column: where the columns begin, and where the next.   *)
Nothing     == [pos |-> 0, begins |-> <<>>]
Column(p, k) == IF Columns[k] \in preamble
                THEN [pos |-> p.pos + HeaderWidth[Columns[k]],
                      begins |-> Append(p.begins, p.pos)]
                ELSE p
Header2 == Column(Nothing, 1)
Header3 == Column(Header2, 2)
Header4 == Column(Header3, 3)
Header5 == Column(Header4, 4)
Header6 == Column(Header5, 5)
Header7 == Column(Header6, 6)
Header8 == Column(Header7, 7)
HeaderTo == <<Nothing, Header2, Header3, Header4, Header5, Header6, Header7, Header8>>

(* How far a column may begin from the left, within 99 999 seconds.          *)
Farthest ==
  <<0, 11, 24, 37, 39 + LOGURU_THREADNAME_WIDTH,
    46 + LOGURU_THREADNAME_WIDTH + LOGURU_FILENAME_WIDTH,
    50 + LOGURU_THREADNAME_WIDTH + LOGURU_FILENAME_WIDTH,
    52 + LOGURU_THREADNAME_WIDTH + LOGURU_FILENAME_WIDTH>>

(* An entry of the first day, and one of its first hours.                    *)
Early(e)    == uptime_sec(e) < 100000 /\ e.line < 100000
Earliest(e) == uptime_sec(e) < 10000 /\ e.line < 100000

(* The header is laid out column by column, without being cut ...            *)
HeaderLaid ==
  /\ writing = "header" =>
       /\ pos = HeaderTo[column].pos
       /\ begins.header = HeaderTo[column].begins
       /\ stored.header = pos
  /\ writing \in {"between", "line", "whole"} =>
       /\ begins.header = HeaderTo[8].begins
       /\ stored.header = HeaderTo[8].pos
  /\ writing = "none" => column = 1 /\ pos = 0 /\ begins.header = <<>> /\ stored.header = 0
  /\ writing \in {"none", "header", "between"} => begins.line = <<>> /\ stored.line = 0

(* ... and an early line is not cut either, and follows the header.          *)
LineLaid ==
  /\ writing = "whole" => column = 8
  /\ writing \in {"line", "whole"} /\ Early(entry) =>
       pos <= Farthest[column] /\ stored.line = pos
  /\ writing \in {"line", "whole"} /\ g_preamble /\ Earliest(entry) =>
       pos = HeaderTo[column].pos /\ begins.line = HeaderTo[column].begins

(* The inductive invariant of a line.                                        *)
LineInv == LineTypeOK /\ room >= 1 /\ HeaderLaid /\ LineLaid

(* The buffer has room for the widest columns of the first day.              *)
LEMMA Widths ==
  /\ LOGURU_THREADNAME_WIDTH \in Nat /\ LOGURU_FILENAME_WIDTH \in Nat
  /\ LOGURU_PREAMBLE_WIDTH \in Nat
  /\ LOGURU_PREAMBLE_WIDTH = 53 + LOGURU_THREADNAME_WIDTH + LOGURU_FILENAME_WIDTH
BY LogLineAssumption, SMT DEF LOGURU_PREAMBLE_WIDTH

(* No column begins beyond the buffer in that time.                          *)
LEMMA FarthestIs ==
  /\ \A k \in 1..8 : Farthest[k] \in Nat /\ Farthest[k] < LOGURU_PREAMBLE_WIDTH
  /\ Farthest[1] = 0
<1> DEFINE T == LOGURU_THREADNAME_WIDTH
           F == LOGURU_FILENAME_WIDTH
<1>1. T \in Nat /\ F \in Nat
  BY Widths
<1>2. /\ Farthest[1] = 0 /\ Farthest[2] = 11 /\ Farthest[3] = 24 /\ Farthest[4] = 37
      /\ Farthest[5] = 39 + T /\ Farthest[6] = 46 + T + F
      /\ Farthest[7] = 50 + T + F /\ Farthest[8] = 52 + T + F
  BY DEF Farthest
<1> HIDE DEF T, F
<1>3. LOGURU_PREAMBLE_WIDTH = 53 + T + F
  BY Widths DEF T, F
<1> QED BY <1>1, <1>2, <1>3, SMT

(* What each column of the header may add.                                   *)
LEMMA HeaderWidthIs ==
  ASSUME NEW k \in 1..7
  PROVE  /\ HeaderWidth[Columns[k]] \in Nat
         /\ Farthest[k] + HeaderWidth[Columns[k]] <= Farthest[k + 1]
<1>1. CASE k = 1
  <2>1. Columns[1] = "date"
    BY DEF Columns
  <2> QED BY <1>1, <2>1, Widths, SMT DEF HeaderWidth, Farthest
<1>2. CASE k = 2
  <2>1. Columns[2] = "time"
    BY DEF Columns
  <2> QED BY <1>2, <2>1, Widths, SMT DEF HeaderWidth, Farthest
<1>3. CASE k = 3
  <2>1. Columns[3] = "uptime"
    BY DEF Columns
  <2> QED BY <1>3, <2>1, Widths, SMT DEF HeaderWidth, Farthest
<1>4. CASE k = 4
  <2>1. Columns[4] = "thread"
    BY DEF Columns
  <2> QED BY <1>4, <2>1, Widths, SMT DEF HeaderWidth, Farthest
<1>5. CASE k = 5
  <2>1. Columns[5] = "file"
    BY DEF Columns
  <2> QED BY <1>5, <2>1, Widths, SMT DEF HeaderWidth, Farthest
<1>6. CASE k = 6
  <2>1. Columns[6] = "verbose"
    BY DEF Columns
  <2> QED BY <1>6, <2>1, Widths, SMT DEF HeaderWidth, Farthest
<1>7. CASE k = 7
  <2>1. Columns[7] = "pipe"
    BY DEF Columns
  <2> QED BY <1>7, <2>1, Widths, SMT DEF HeaderWidth, Farthest
<1> QED BY <1>1, <1>2, <1>3, <1>4, <1>5, <1>6, <1>7, SMT

(* ... and each column of a line: as much as the header's, if it is early.   *)
LEMMA LineWidthIs ==
  ASSUME NEW e \in [uptime : Nat, name : Nat, file : Nat, line : Nat, verbosity : Int],
         NEW k \in 1..7
  PROVE  /\ LineWidth(e)[Columns[k]] \in Nat
         /\ Early(e) => Farthest[k] + LineWidth(e)[Columns[k]] <= Farthest[k + 1]
         /\ Earliest(e) => LineWidth(e)[Columns[k]] = HeaderWidth[Columns[k]]
<1> DEFINE T == LOGURU_THREADNAME_WIDTH
           F == LOGURU_FILENAME_WIDTH
           up == AtLeast(8, Digits(uptime_sec(e)) + 4) + 4
           th == AtLeast(T, get_thread_name(e.name)) + 2
           fi == AtLeast(F, AtMost(F, e.file)) + 1 + AtLeast(5, Digits(e.line)) + 1
<1>a. T \in Nat /\ F \in Nat
  BY Widths
<1>b. /\ e.name \in Nat /\ e.file \in Nat /\ e.line \in Nat
      /\ uptime_sec(e) \in Nat
  BY SMT DEF uptime_sec
<1>c. /\ up \in Nat
      /\ Early(e) => up <= 13
      /\ Earliest(e) => up = 12
  <2> DEFINE d == Digits(uptime_sec(e))
  <2>1. d \in 1..9 /\ (Early(e) => d <= 5) /\ (Earliest(e) => d <= 4)
    <3>1. /\ d \in 1..9
          /\ uptime_sec(e) < 10000 => d <= 4
          /\ uptime_sec(e) < 100000 => d <= 5
      BY <1>b, DigitsIs
    <3> HIDE DEF d
    <3> QED BY <3>1, <1>b, SMT DEF Early, Earliest
  <2> HIDE DEF d
  <2>2. AtLeast(8, d + 4) = IF 8 >= d + 4 THEN 8 ELSE d + 4
    BY <2>1, AtLeastIs
  <2> QED BY <2>1, <2>2, SMT DEF d
<1>d. th = T + 2
  <2>1. get_thread_name(e.name) \in Nat /\ get_thread_name(e.name) <= T
    <3>1. AtMost(T, e.name) = IF T <= e.name THEN T ELSE e.name
      BY <1>a, <1>b, AtMostIs
    <3> QED BY <1>a, <1>b, <3>1, SMT DEF get_thread_name
  <2>2. AtLeast(T, get_thread_name(e.name)) = T
    BY <1>a, <2>1, AtLeastIs, SMT
  <2> QED BY <2>2
<1>e. /\ fi \in Nat
      /\ Early(e) => fi = F + 7
      /\ Earliest(e) => fi = F + 7
  <2> DEFINE d == Digits(e.line)
             m == AtMost(F, e.file)
  <2>1. d \in 1..9 /\ (Early(e) => d <= 5) /\ (Earliest(e) => d <= 5)
    <3>1. /\ d \in 1..9
          /\ e.line < 10000 => d <= 4
          /\ e.line < 100000 => d <= 5
      BY <1>b, DigitsIs
    <3> HIDE DEF d
    <3> QED BY <3>1, <1>b, SMT DEF Early, Earliest
  <2>2. m \in Nat /\ m <= F
    BY <1>a, <1>b, AtMostIs, SMT
  <2> HIDE DEF d, m
  <2>3. AtLeast(F, m) = F
    BY <1>a, <2>2, AtLeastIs, SMT
  <2>4. AtLeast(5, d) = IF 5 >= d THEN 5 ELSE d
    BY <2>1, AtLeastIs
  <2> QED BY <1>a, <2>1, <2>3, <2>4, SMT DEF d, m
<1>f. /\ LineWidth(e) = [date |-> 11, time |-> 13, uptime |-> up, thread |-> th,
                         file |-> fi, verbose |-> 4, pipe |-> 2]
  BY DEF LineWidth
<1>g. HeaderWidth = [date |-> 11, time |-> 13, uptime |-> 12, thread |-> T + 2,
                     file |-> F + 7, verbose |-> 4, pipe |-> 2]
  BY DEF HeaderWidth
<1>h. Farthest = <<0, 11, 24, 37, 39 + T, 46 + T + F, 50 + T + F, 52 + T + F>>
  BY DEF Farthest
<1> HIDE DEF T, F, up, th, fi
<1>1. CASE k = 1
  <2>1. Columns[1] = "date"
    BY DEF Columns
  <2> QED BY <1>1, <2>1, <1>a, <1>c, <1>d, <1>e, <1>f, <1>g, <1>h, SMT
<1>2. CASE k = 2
  <2>1. Columns[2] = "time"
    BY DEF Columns
  <2> QED BY <1>2, <2>1, <1>a, <1>c, <1>d, <1>e, <1>f, <1>g, <1>h, SMT
<1>3. CASE k = 3
  <2>1. Columns[3] = "uptime"
    BY DEF Columns
  <2> QED BY <1>3, <2>1, <1>a, <1>c, <1>d, <1>e, <1>f, <1>g, <1>h, SMT
<1>4. CASE k = 4
  <2>1. Columns[4] = "thread"
    BY DEF Columns
  <2> QED BY <1>4, <2>1, <1>a, <1>c, <1>d, <1>e, <1>f, <1>g, <1>h, SMT
<1>5. CASE k = 5
  <2>1. Columns[5] = "file"
    BY DEF Columns
  <2> QED BY <1>5, <2>1, <1>a, <1>c, <1>d, <1>e, <1>f, <1>g, <1>h, SMT
<1>6. CASE k = 6
  <2>1. Columns[6] = "verbose"
    BY DEF Columns
  <2> QED BY <1>6, <2>1, <1>a, <1>c, <1>d, <1>e, <1>f, <1>g, <1>h, SMT
<1>7. CASE k = 7
  <2>1. Columns[7] = "pipe"
    BY DEF Columns
  <2> QED BY <1>7, <2>1, <1>a, <1>c, <1>d, <1>e, <1>f, <1>g, <1>h, SMT
<1> QED BY <1>1, <1>2, <1>3, <1>4, <1>5, <1>6, <1>7, SMT

(* One column more still fits,                                               *)
LEMMA ColumnIs ==
  ASSUME NEW k \in 1..7, NEW p \in [pos : Nat, begins : Seq(Nat)],
         p.pos <= Farthest[k]
  PROVE  /\ Column(p, k) \in [pos : Nat, begins : Seq(Nat)]
         /\ Column(p, k).pos <= Farthest[k + 1]
<1> DEFINE w == HeaderWidth[Columns[k]]
           f == Farthest[k]
           g == Farthest[k + 1]
<1>1. w \in Nat /\ f + w <= g
  BY HeaderWidthIs
<1>2. f \in Nat /\ g \in Nat
  <2>1. k \in 1..8 /\ k + 1 \in 1..8
    BY SMT
  <2> QED BY <2>1, FarthestIs, Zenon
<1>3. Column(p, k) = IF Columns[k] \in preamble
                     THEN [pos |-> p.pos + w, begins |-> Append(p.begins, p.pos)] ELSE p
  BY DEF Column
<1> HIDE DEF w, f, g
<1>4. p.pos <= f
  BY DEF f
<1>5. /\ Column(p, k) \in [pos : Nat, begins : Seq(Nat)]
      /\ Column(p, k).pos <= g
  <2>1. CASE Columns[k] \in preamble
    BY <1>1, <1>2, <1>3, <1>4, <2>1, SMT
  <2>2. CASE Columns[k] \notin preamble
    BY <1>1, <1>2, <1>3, <1>4, <2>2, SMT
  <2> QED BY <2>1, <2>2, Zenon
<1> QED BY <1>5 DEF g

(* and so do all of them.                                                    *)
LEMMA HeaderToIs ==
  /\ HeaderTo[1] = Nothing
  /\ \A k \in 1..7 : HeaderTo[k + 1] = Column(HeaderTo[k], k)
  /\ \A k \in 1..8 : /\ HeaderTo[k] \in [pos : Nat, begins : Seq(Nat)]
                     /\ HeaderTo[k].pos <= Farthest[k]
<1>1. /\ HeaderTo[1] = Nothing /\ HeaderTo[2] = Header2 /\ HeaderTo[3] = Header3
      /\ HeaderTo[4] = Header4 /\ HeaderTo[5] = Header5 /\ HeaderTo[6] = Header6
      /\ HeaderTo[7] = Header7 /\ HeaderTo[8] = Header8
  BY DEF HeaderTo
<1>2. \A k \in 1..7 : HeaderTo[k + 1] = Column(HeaderTo[k], k)
  BY <1>1, SMT DEF Header2, Header3, Header4, Header5, Header6, Header7, Header8
<1> DEFINE Fits(k) == /\ HeaderTo[k] \in [pos : Nat, begins : Seq(Nat)]
                      /\ HeaderTo[k].pos <= Farthest[k]
<1>3. Fits(1)
  BY <1>1, FarthestIs, SMT DEF Nothing
<1>4. ASSUME NEW k \in 1..7, Fits(k) PROVE Fits(k + 1)
  BY <1>2, <1>4, ColumnIs
<1> HIDE DEF Fits
<1>5. Fits(2) /\ Fits(3) /\ Fits(4) /\ Fits(5)
  BY <1>3, <1>4, SMT
<1>6. Fits(6) /\ Fits(7) /\ Fits(8)
  BY <1>5, <1>4, SMT
<1>7. \A k \in 1..8 : Fits(k)
  BY <1>3, <1>5, <1>6, SMT
<1> QED BY <1>1, <1>2, <1>7 DEF Fits

(* The invariant holds before anything is printed,                           *)
LEMMA LineInvInit ==
  ASSUME NoLine
  PROVE  LineInv
<1>1. LineTypeOK /\ room >= 1
  BY Widths, LogLineAssumption, SMT
     DEF NoLine, NoEntry, LineTypeOK, LOGURU_PREAMBLE_WIDTH
<1>2. HeaderLaid /\ LineLaid
  BY SMT DEF NoLine, HeaderLaid, LineLaid
<1> QED BY <1>1, <1>2 DEF LineInv

(* The header's columns do not move while a line is written.                 *)
LEMMA HeaderRests ==
  ASSUME preamble' = preamble
  PROVE  HeaderTo' = HeaderTo
<1>1. Header2' = Header2
  BY Zenon DEF Header2, Column, Nothing, HeaderWidth, Columns
<1>2. Header3' = Header3
  BY <1>1, Zenon DEF Header3, Column, HeaderWidth, Columns
<1>3. Header4' = Header4
  BY <1>2, Zenon DEF Header4, Column, HeaderWidth, Columns
<1>4. Header5' = Header5
  BY <1>3, Zenon DEF Header5, Column, HeaderWidth, Columns
<1>5. Header6' = Header6
  BY <1>4, Zenon DEF Header6, Column, HeaderWidth, Columns
<1>6. Header7' = Header7
  BY <1>5, Zenon DEF Header7, Column, HeaderWidth, Columns
<1>7. Header8' = Header8
  BY <1>6, Zenon DEF Header8, Column, HeaderWidth, Columns
<1> QED BY <1>1, <1>2, <1>3, <1>4, <1>5, <1>6, <1>7, Zenon DEF HeaderTo, Nothing

(* A column that is printed: within the buffer, room is left.                *)
LEMMA ColumnStep ==
  ASSUME LineInv, PrintColumn
  PROVE  LineInv'
<1> DEFINE c == Columns[column]
           h == HeaderTo[column]
           f == Farthest[column]
           g == Farthest[column + 1]
           W == LOGURU_PREAMBLE_WIDTH
<1>1. /\ column \in 1..7 /\ column' = column + 1 /\ column' \in 1..8
      /\ writing \in {"header", "line"} /\ writing' = writing
      /\ preamble' = preamble /\ g_preamble' = g_preamble /\ entry' = entry
  BY SMT DEF PrintColumn, Columns
<1>2. LineTypeOK /\ room >= 1 /\ HeaderLaid /\ LineLaid
  BY DEF LineInv
<1>3. HeaderTo' = HeaderTo
  BY <1>1, HeaderRests
<1>4. /\ h \in [pos : Nat, begins : Seq(Nat)] /\ h.pos <= f
      /\ f \in Nat /\ f < W /\ g \in Nat /\ g < W /\ W \in Nat
  <2>1. column \in 1..8 /\ column + 1 \in 1..8
    BY <1>1, SMT
  <2> QED BY <2>1, HeaderToIs, FarthestIs, Widths, Zenon
<1>5. HeaderTo[column + 1] = IF c \in preamble
                             THEN [pos |-> h.pos + HeaderWidth[c],
                                   begins |-> Append(h.begins, h.pos)]
                             ELSE h
  BY <1>1, HeaderToIs, Zenon DEF Column
<1>6. HeaderWidth[c] \in Nat /\ f + HeaderWidth[c] <= g
  BY <1>1, HeaderWidthIs
<1>7. entry \in [uptime : Nat, name : Nat, file : Nat, line : Nat, verbosity : Int]
  BY <1>2 DEF LineTypeOK
<1>8. /\ LineWidth(entry)[c] \in Nat
      /\ Early(entry) => f + LineWidth(entry)[c] <= g
      /\ Earliest(entry) => LineWidth(entry)[c] = HeaderWidth[c]
  BY <1>1, <1>7, LineWidthIs
<1>9. Early(entry)' = Early(entry) /\ Earliest(entry)' = Earliest(entry)
      /\ (Earliest(entry) => Early(entry))
  <2>1. Early(entry)' = Early(entry) /\ Earliest(entry)' = Earliest(entry)
    BY <1>1, SMT DEF Early, Earliest, uptime_sec
  <2>2. Earliest(entry) => Early(entry)
    BY <1>7, SMT DEF Early, Earliest, uptime_sec
  <2> QED BY <2>1, <2>2
<1> DEFINE w == Width(c)
<1>10. w \in Nat /\ w = IF writing = "header" THEN HeaderWidth[c] ELSE LineWidth(entry)[c]
  BY <1>6, <1>8, Zenon DEF Width
<1>11. CASE Asked(c)
  <2>1. /\ c \in preamble /\ pos < W /\ pos \in Nat
        /\ room' = W - pos /\ pos' = pos + w
        /\ begins' = [begins EXCEPT ![writing] = Append(begins[writing], pos)]
        /\ stored' = [stored EXCEPT ![writing] = AtMost(W - 1, pos + w)]
    BY <1>2, <1>11, Zenon DEF PrintColumn, Asked, LineTypeOK
  <2>2. AtMost(W - 1, pos + w) = IF W - 1 <= pos + w THEN W - 1 ELSE pos + w
    <3>1. W - 1 \in Int /\ pos + w \in Int
      BY <1>4, <1>10, <2>1, SMT
    <3> QED BY <3>1, AtMostIs
  <2> HIDE DEF c, h, f, g, W, w
  <2>3. LineTypeOK' /\ room' >= 1
    <3>1. AtMost(W - 1, pos + w) \in Nat /\ pos + w \in Nat /\ W - pos \in Int /\ W - pos >= 1
      BY <1>4, <1>10, <2>1, <2>2, SMTT(40)
    <3>2. begins' \in [{"header", "line"} -> Seq(Nat)]
      BY <1>1, <1>2, <2>1, SMT DEF LineTypeOK
    <3>3. stored' \in [{"header", "line"} -> Nat]
      BY <1>1, <1>2, <2>1, <3>1, SMTT(40) DEF LineTypeOK
    <3> QED BY <1>1, <1>2, <2>1, <3>1, <3>2, <3>3, SMTT(40) DEF LineTypeOK
  <2>4. HeaderTo[column + 1] = [pos |-> h.pos + HeaderWidth[c], begins |-> Append(h.begins, h.pos)]
    BY <1>5, <2>1
  <2>5. CASE writing = "header"
    <3>1. pos = h.pos /\ begins.header = h.begins /\ stored.header = pos
      BY <1>2, <2>5 DEF HeaderLaid, h
    <3>2. /\ begins'.header = Append(begins.header, pos) /\ begins'.line = begins.line
          /\ stored'.header = AtMost(W - 1, pos + w) /\ stored'.line = stored.line
      BY <1>2, <2>1, <2>5, SMT DEF LineTypeOK
    <3>3. w = HeaderWidth[c]
      BY <1>10, <2>5
    <3>4. stored'.header = pos'
      <4>1. h.pos <= f /\ f \in Nat /\ g \in Nat /\ g < W /\ W \in Nat
        BY <1>4
      <4>2. pos + w <= W - 1
        BY <4>1, <1>6, <2>1, <3>1, <3>3, SMT
      <4>3. AtMost(W - 1, pos + w) = pos + w
        BY <4>1, <4>2, <1>10, <2>1, <2>2, SMT
      <4> QED BY <4>3, <2>1, <3>2
    <3>5. HeaderLaid'
      BY <1>1, <1>2, <1>3, <2>1, <2>4, <2>5, <3>1, <3>2, <3>3, <3>4, SMT DEF HeaderLaid
    <3>6. LineLaid'
      BY <1>1, <2>5, SMT DEF LineLaid
    <3> QED BY <2>3, <3>5, <3>6 DEF LineInv
  <2>6. CASE writing = "line"
    <3>1. /\ begins'.line = Append(begins.line, pos) /\ begins'.header = begins.header
          /\ stored'.line = AtMost(W - 1, pos + w) /\ stored'.header = stored.header
      BY <1>2, <2>1, <2>6, SMT DEF LineTypeOK
    <3>2. w = LineWidth(entry)[c]
      BY <1>10, <2>6, SMT
    <3>3. Early(entry) => pos' <= g /\ stored'.line = pos'
      <4>1. Early(entry) => pos <= f
        BY <1>2, <2>6 DEF LineLaid, f
      <4> QED BY <4>1, <1>4, <1>8, <2>1, <2>2, <3>1, <3>2, SMTT(40)
    <3>4. g_preamble /\ Earliest(entry) => pos' = HeaderTo[column + 1].pos
                             /\ begins'.line = HeaderTo[column + 1].begins
      <4>1. g_preamble /\ Earliest(entry) => pos = h.pos /\ begins.line = h.begins
        BY <1>2, <2>6 DEF LineLaid, h
      <4> QED BY <4>1, <1>8, <2>1, <2>4, <3>1, <3>2, SMT
    <3>5. HeaderLaid'
      BY <1>1, <1>2, <1>3, <2>6, <3>1, SMT DEF HeaderLaid
    <3>6. LineLaid'
      BY <1>1, <1>3, <1>9, <2>6, <3>3, <3>4, SMT DEF LineLaid, g, Farthest
    <3> QED BY <2>3, <3>5, <3>6 DEF LineInv
  <2> QED BY <1>1, <2>5, <2>6, Zenon
<1>12. CASE ~Asked(c)
  <2>1. UNCHANGED <<pos, room, begins, stored>>
    BY <1>12, Zenon DEF PrintColumn
  <2>2. pos \in Nat
    BY <1>2 DEF LineTypeOK
  <2> HIDE DEF c, h, f, g, W, w
  <2>3. LineTypeOK' /\ room' >= 1
    BY <1>1, <1>2, <2>1, SMT DEF LineTypeOK
  <2>4. CASE writing = "header"
    <3>1. pos = h.pos /\ begins.header = h.begins /\ stored.header = pos
      BY <1>2, <2>4 DEF HeaderLaid, h
    <3>2. c \notin preamble
      BY <1>4, <1>12, <3>1, SMT DEF Asked, W
    <3>3. HeaderTo[column + 1] = h
      BY <1>5, <3>2
    <3>4. HeaderLaid'
      BY <1>1, <1>2, <1>3, <2>1, <2>4, <3>1, <3>3, SMT DEF HeaderLaid
    <3>5. LineLaid'
      BY <1>1, <2>4, SMT DEF LineLaid
    <3> QED BY <2>3, <3>4, <3>5 DEF LineInv
  <2>5. CASE writing = "line"
    <3>1. HeaderLaid'
      BY <1>1, <1>2, <1>3, <2>1, <2>5, SMT DEF HeaderLaid
    <3>2. Early(entry) => pos <= f /\ stored.line = pos
      BY <1>2, <2>5 DEF LineLaid, f
    <3>3. f <= g
      BY <1>4, <1>6, SMT
    <3>4. g_preamble /\ Earliest(entry) => pos = h.pos /\ begins.line = h.begins
      BY <1>2, <2>5 DEF LineLaid, h
    <3>5. g_preamble /\ Earliest(entry) => HeaderTo[column + 1] = h
      <4>1. g_preamble /\ Earliest(entry) => c \notin preamble
        BY <1>4, <1>12, <3>4, SMT DEF Asked, W
      <4> QED BY <1>5, <4>1
    <3>6. LineLaid'
      <4>1. Early(entry) => pos' <= g /\ stored'.line = pos'
        BY <1>4, <2>1, <2>2, <3>2, <3>3, SMT
      <4> QED BY <1>1, <1>3, <1>9, <2>1, <2>5, <4>1, <3>4, <3>5, SMT DEF LineLaid, g, Farthest
    <3> QED BY <2>3, <3>1, <3>6 DEF LineInv
  <2> QED BY <1>1, <2>4, <2>5, Zenon
<1> QED BY <1>11, <1>12, Zenon

(* and every step keeps it.                                                  *)
LEMMA LineInvStep ==
  ASSUME LineInv, [LineNext]_line
  PROVE  LineInv'
<1>0. LineTypeOK /\ room >= 1 /\ HeaderLaid /\ LineLaid
  BY DEF LineInv
<1>b. HeaderTo[1] = Nothing
  BY HeaderToIs
<1>1. CASE print_preamble_header
  <2>1. HeaderTo' = HeaderTo
    BY <1>1, HeaderRests DEF print_preamble_header
  <2>2. LineTypeOK' /\ room' >= 1
    BY <1>0, <1>1, SMT DEF print_preamble_header, LineTypeOK
  <2>3. HeaderLaid' /\ LineLaid'
    BY <1>0, <1>1, <1>b, <2>1, SMT DEF print_preamble_header, HeaderLaid, LineLaid, Nothing
  <2> QED BY <2>2, <2>3 DEF LineInv
<1>2. CASE print_preamble
  <2>1. /\ writing = "between" /\ writing' = "line" /\ pos' = 0
        /\ column' = (IF g_preamble THEN 1 ELSE 8)
        /\ UNCHANGED <<g_preamble, preamble, room, begins, stored>>
        /\ HeaderTo' = HeaderTo
    BY <1>2, HeaderRests, SMT DEF print_preamble, Columns
  <2>2. entry' \in [uptime : Nat, name : Nat, file : Nat, line : Nat, verbosity : Int]
    BY <1>2, LogLineAssumption, SMT DEF print_preamble
  <2>3. LineTypeOK' /\ room' >= 1
    BY <1>0, <2>1, <2>2, SMT DEF LineTypeOK
  <2>4. HeaderLaid' /\ LineLaid'
    <3>1. begins.line = <<>> /\ stored.line = 0
      BY <1>0, <2>1, SMT DEF HeaderLaid
    <3>2. column' \in 1..8 /\ (g_preamble => column' = 1)
      BY <2>1, SMT
    <3>3. Farthest[column'] \in Nat /\ Farthest' = Farthest
      BY <3>2, FarthestIs, Zenon DEF Farthest
    <3>4. HeaderLaid'
      BY <1>0, <2>1, SMT DEF HeaderLaid
    <3>5. pos' <= Farthest'[column'] /\ stored'.line = pos'
      BY <2>1, <3>1, <3>3, SMT
    <3>6. g_preamble' => pos' = HeaderTo'[column'].pos /\ begins'.line = HeaderTo'[column'].begins
      BY <1>b, <2>1, <3>1, <3>2, SMT DEF Nothing
    <3>7. LineLaid'
      BY <2>1, <3>5, <3>6, Zenon DEF LineLaid
    <3> QED BY <3>4, <3>7
  <2> QED BY <2>3, <2>4 DEF LineInv
<1>3. CASE PrintColumn
  BY <1>3, ColumnStep
<1>4. CASE EndLine
  <2>1. /\ column = 8 /\ UNCHANGED <<g_preamble, preamble, entry, column, pos, room, begins, stored>>
        /\ \/ writing = "header" /\ writing' = "between"
           \/ writing = "line" /\ writing' = "whole"
    BY <1>0, <1>4, SMT DEF EndLine, LineTypeOK, Columns
  <2>2. HeaderTo' = HeaderTo /\ Farthest' = Farthest
    BY <2>1, HeaderRests, Zenon DEF Farthest
  <2>3. LineTypeOK' /\ room' >= 1
    BY <1>0, <2>1, SMT DEF LineTypeOK
  <2>4. HeaderLaid'
    BY <1>0, <2>1, <2>2, SMT DEF HeaderLaid
  <2>5. LineLaid'
    BY <1>0, <2>1, <2>2, SMT DEF LineLaid, Early, Earliest, uptime_sec
  <2> QED BY <2>3, <2>4, <2>5 DEF LineInv
<1>5. CASE UNCHANGED line
  <2>1. UNCHANGED <<g_preamble, preamble, writing, entry, column, pos, room, begins, stored>>
    BY <1>5, Zenon DEF line
  <2>2. HeaderTo' = HeaderTo /\ Farthest' = Farthest
    BY <2>1, HeaderRests, Zenon DEF Farthest
  <2>3. LineTypeOK' /\ room' >= 1
    BY <1>0, <2>1, SMT DEF LineTypeOK
  <2>4. HeaderLaid' /\ LineLaid'
    BY <1>0, <2>1, <2>2, SMT DEF HeaderLaid, LineLaid, Early, Earliest, uptime_sec
  <2> QED BY <2>3, <2>4 DEF LineInv
<1> QED BY <1>1, <1>2, <1>3, <1>4, <1>5, Zenon DEF LineNext

(* It is an invariant.                                                       *)
THEOREM LineInvariant == LineSpec => []LineInv
<1>1. NoLine => LineInv
  BY LineInvInit
<1>2. LineInv /\ [LineNext]_line => LineInv'
  BY LineInvStep
<1> QED BY <1>1, <1>2, PTL DEF LineSpec

(* print_preamble: snprintf always has room, and an early line is whole.     *)
THEOREM NothingCutCorrect == LineSpec => []NothingCut
<1>1. LineInv => NothingCut
  BY SMT DEF LineInv, LineLaid, NothingCut, Early
<1> QED BY <1>1, LineInvariant, PTL

(* print_preamble: an early line is under print_preamble_header's columns.   *)
THEOREM UnderItsHeaderCorrect == LineSpec => []UnderItsHeader
<1>1. ASSUME LineInv, writing = "whole", g_preamble, Earliest(entry)
      PROVE  begins.line = begins.header /\ stored.line = stored.header
  <2>1. Early(entry)
    BY <1>1, SMT DEF Early, Earliest, LineInv, LineTypeOK, uptime_sec
  <2> QED BY <1>1, <2>1, SMT DEF LineInv, HeaderLaid, LineLaid
<1>2. LineInv => UnderItsHeader
  BY <1>1, SMT DEF UnderItsHeader, Earliest
<1> QED BY <1>2, LineInvariant, PTL

(* With names that tell levels apart, two levels that a byte can hold do not *)
(* look the same.                                                            *)
LEMMA LevelsApart ==
  ASSUME TellingNames, NEW v \in -3..127, NEW w \in -3..127, level_buff(v) = level_buff(w)
  PROVE  v = w
<1> DEFINE n(x) == get_verbosity_name(x)
           own(x) == IF x = -3 THEN "FATL" ELSE IF x = -2 THEN "ERR"
                     ELSE IF x = -1 THEN "WARN" ELSE IF x = 0 THEN "INFO" ELSE NoName
<1>1. ASSUME NEW x \in -3..127, x \notin DOMAIN CustomName PROVE n(x) = own(x)
  BY <1>1, SMT DEF get_verbosity_name
<1>2. ASSUME NEW x \in -3..127, x \in DOMAIN CustomName
      PROVE  level_buff(x) = FourLetters[CustomName[x]]
  <2>1. n(x) = CustomName[x]
    BY <1>2, SMT DEF get_verbosity_name
  <2>2. CustomName[x] # NoName
    BY <1>2, LogLineAssumption
  <2> QED BY <2>1, <2>2, Zenon DEF level_buff
<1>3. ASSUME NEW x \in -3..127 PROVE x \in Int8 /\ ToInt8(x) = x
  BY <1>3, SMT DEF ToInt8, Int8
<1>4. ASSUME NEW x \in -3..127, x \notin DOMAIN CustomName
      PROVE  \/ x > 0 /\ level_buff(x) = FourDigits[x]
             \/ x <= 0 /\ own(x) \in OwnNames /\ level_buff(x) = FourLetters[own(x)]
  <2>1. n(x) = own(x) /\ ToInt8(x) = x
    BY <1>1, <1>3, <1>4, Zenon
  <2>2. CASE x > 0
    <3>1. own(x) = NoName
      BY <2>2, SMT
    <3>2. level_buff(x) = FourDigits[x]
      BY <2>1, <3>1, Zenon DEF level_buff
    <3> QED BY <2>2, <3>2
  <2>3. CASE x <= 0
    <3>1. own(x) \in OwnNames /\ own(x) # NoName
      BY <2>3, SMT DEF OwnNames, NoName
    <3>2. level_buff(x) = FourLetters[own(x)]
      BY <2>1, <3>1, Zenon DEF level_buff
    <3> QED BY <2>3, <3>1, <3>2
  <2> QED BY <2>2, <2>3, SMT
<1>5. ASSUME NEW x \in -3..0, NEW y \in -3..0, own(x) = own(y) PROVE x = y
  BY <1>5, SMT DEF NoName
<1> HIDE DEF n, own
<1>6. CASE v \in DOMAIN CustomName /\ w \in DOMAIN CustomName
  BY <1>2, <1>6, Zenon DEF TellingNames
<1>7. ASSUME NEW x \in -3..127, NEW y \in -3..127,
             x \in DOMAIN CustomName, y \notin DOMAIN CustomName
      PROVE  level_buff(x) # level_buff(y)
  <2>1. level_buff(x) = FourLetters[CustomName[x]]
    BY <1>2, <1>7
  <2>2. CASE y > 0
    <3>1. level_buff(y) = FourDigits[y] /\ y \in Int8
      BY <1>3, <1>4, <1>7, <2>2, SMT
    <3> QED BY <1>7, <2>1, <3>1, Zenon DEF TellingNames
  <2>3. CASE y <= 0
    <3>1. own(y) \in OwnNames /\ level_buff(y) = FourLetters[own(y)]
      BY <1>4, <1>7, <2>3, SMT
    <3> QED BY <1>7, <2>1, <3>1, Zenon DEF TellingNames
  <2> QED BY <2>2, <2>3, SMT
<1>8. CASE v \notin DOMAIN CustomName /\ w \notin DOMAIN CustomName
  <2>1. CASE v > 0 /\ w > 0
    <3>1. level_buff(v) = FourDigits[v] /\ level_buff(w) = FourDigits[w]
      BY <1>4, <1>8, <2>1, SMT
    <3> QED BY <1>3, <3>1, ShownAssumption, Zenon
  <2>2. CASE v <= 0 /\ w <= 0
    <3>1. /\ own(v) \in OwnNames /\ level_buff(v) = FourLetters[own(v)]
          /\ own(w) \in OwnNames /\ level_buff(w) = FourLetters[own(w)]
      BY <1>4, <1>8, <2>2, SMT
    <3>2. own(v) = own(w)
      BY <3>1, ShownAssumption, Zenon
    <3>3. v \in -3..0 /\ w \in -3..0
      BY <2>2, SMT
    <3> QED BY <1>5, <3>2, <3>3
  <2>3. ASSUME NEW x \in -3..127, NEW y \in -3..127, x > 0, y <= 0,
               x \notin DOMAIN CustomName, y \notin DOMAIN CustomName
        PROVE  level_buff(x) # level_buff(y)
    <3>1. /\ level_buff(x) = FourDigits[x] /\ x \in Int8
          /\ own(y) \in OwnNames /\ level_buff(y) = FourLetters[own(y)]
      BY <1>3, <1>4, <2>3, SMT
    <3> QED BY <3>1, ShownAssumption, Zenon
  <2> QED BY <1>8, <2>1, <2>2, <2>3, SMT
<1> QED BY <1>6, <1>7, <1>8, Zenon

(* get_verbosity_name, the cut to four characters and the byte.              *)
THEOREM LevelsToldApartCorrect == LineSpec => []LevelsToldApart
<1>1. ASSUME TellingNames, NEW v \in Verbosities \cap (-3..127),
             entry.verbosity \in -3..127, level_buff(v) = level_buff(entry.verbosity)
      PROVE  v = entry.verbosity
  BY <1>1, LevelsApart
<1>2. LevelsToldApart
  BY <1>1 DEF LevelsToldApart
<1> QED BY <1>2, PTL

=============================================================================
