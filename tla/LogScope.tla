------------------------------ MODULE LogScope ------------------------------
(***************************************************************************)
(* Log scopes: LogScopeRAII, which brackets the lines logged while it      *)
(* lives, and the indentation it gives them on stderr and on every         *)
(* callback.  A scope belongs to a thread and a thread's scopes are nested *)
(* (they are local variables); the indentation is shared by all threads.   *)
(*                                                                         *)
(* Init, up to its check of the cutoff, runs without s_mutex; the rest of  *)
(* Init, and the destructor, hold it throughout and are one step each.  So *)
(* are the calls that change the callbacks.  The cutoff read is exact here *)
(* (LoguruCore has its transient values, which only switch a scope off).   *)
(***************************************************************************)
EXTENDS Integers, SequencesExt

CONSTANTS
  Threads,
  Sinks,          (* Callbacks, each added at most once.                    *)
  VerbosityOf,    (* The verbosity each is added with.                      *)
  StderrLevels,   (* Values the program gives g_stderr_verbosity.           *)
  Levels,         (* Verbosities of scopes.                                 *)
  MaxScopes       (* Bound: scopes entered in one behaviour.                *)

ASSUME ScopeAssumption ==
  /\ VerbosityOf \in [Sinks -> Int]
  /\ StderrLevels \subseteq Int /\ Levels \subseteq Int
  /\ MaxScopes \in Nat

VARIABLES
  g_stderr_verbosity,
  s_stderr_indentation,
  s_callbacks,       (* Sinks installed (their order plays no part).        *)
  fresh,             (* Sinks not yet added.                                *)
  indentation,       (* Callback::indentation of each sink.                 *)
  scopes,            (* Each thread's scopes, innermost last.               *)
  entered,           (* Scopes entered so far.                              *)
  older              (* History: sinks for which a scope that was already   *)
                     (* open when they were added has been closed since.    *)

svars == <<g_stderr_verbosity, s_stderr_indentation, s_callbacks, fresh,
           indentation, scopes, entered, older>>

(***************************************************************************)
(* A scope object has a state ("entering" after Init's check of the cutoff, *)
(* "open", or "off": _file is null), its verbosity, indent_stderr, and as  *)
(* history the sinks that it has seen installed when it was opened.        *)
(***************************************************************************)

Init ==
  /\ g_stderr_verbosity \in StderrLevels
  /\ s_stderr_indentation = 0
  /\ s_callbacks = {} /\ fresh = Sinks /\ older = {}
  /\ indentation = [s \in Sinks |-> 0]
  /\ scopes = [t \in Threads |-> <<>>]
  /\ entered = 0

Wants(s, v) == v <= VerbosityOf[s]

Entering(t) == scopes[t] # <<>> /\ Last(scopes[t]).state = "entering"

(* VLOG_SCOPE_F: the macro and then Init compare with the cutoff. *)
Enter(t) ==
  /\ entered < MaxScopes /\ ~Entering(t)
  /\ entered' = entered + 1
  /\ \E v \in Levels :
       LET wanted == v <= g_stderr_verbosity \/ \E s \in s_callbacks : Wants(s, v)
       IN  scopes' = [scopes EXCEPT ![t] = Append(@,
             [state |-> IF wanted THEN "entering" ELSE "off", verbosity |-> v,
              indent_stderr |-> FALSE, seen |-> {}])]
  /\ UNCHANGED <<g_stderr_verbosity, s_stderr_indentation, s_callbacks, fresh,
                 indentation, older>>

(* The rest of Init: "{ ..." is logged, then everything below is indented. *)
Open(t) ==
  /\ Entering(t)
  /\ LET v == Last(scopes[t]).verbosity
         onStderr == v <= g_stderr_verbosity
     IN  /\ scopes' = [scopes EXCEPT ![t][Len(scopes[t])] =
               [state |-> "open", verbosity |-> v,
                indent_stderr |-> onStderr, seen |-> s_callbacks]]
         /\ s_stderr_indentation' = s_stderr_indentation + (IF onStderr THEN 1 ELSE 0)
         /\ indentation' = [s \in Sinks |->
               IF s \in s_callbacks /\ Wants(s, v) THEN indentation[s] + 1
               ELSE indentation[s]]
  /\ UNCHANGED <<g_stderr_verbosity, s_callbacks, fresh, entered, older>>

AskStderrAgain(scope) ==   \* mutant: g_stderr_verbosity instead of _indent_stderr
  s_stderr_indentation - (IF scope.verbosity <= g_stderr_verbosity
                             /\ s_stderr_indentation > 0 THEN 1 ELSE 0)

(* What the destructor leaves of the indentation of stderr ... *)
StderrAfter(scope) ==
  s_stderr_indentation - (IF scope.indent_stderr
                             /\ s_stderr_indentation > 0 THEN 1 ELSE 0)

BelowOnly(s, scope) ==   \* mutant: < instead of <=
  indentation[s] - (IF s \in s_callbacks /\ scope.verbosity < VerbosityOf[s]
                       /\ indentation[s] > 0 THEN 1 ELSE 0)

(* ... and of a callback's: one that is new may have none left. *)
SinkAfter(s, scope) ==
  indentation[s] - (IF s \in s_callbacks /\ Wants(s, scope.verbosity)
                       /\ indentation[s] > 0 THEN 1 ELSE 0)

(* ~LogScopeRAII: everything is indented one step less, "} ..." is logged. *)
Leave(t) ==
  /\ scopes[t] # <<>> /\ ~Entering(t)
  /\ LET scope == Last(scopes[t])
     IN  IF scope.state = "open"
         THEN /\ s_stderr_indentation' = StderrAfter(scope)
              /\ indentation' = [s \in Sinks |-> SinkAfter(s, scope)]
              /\ older' = older \cup (s_callbacks \ scope.seen)
         ELSE UNCHANGED <<s_stderr_indentation, indentation, older>>
  /\ scopes' = [scopes EXCEPT ![t] = Front(@)]
  /\ UNCHANGED <<g_stderr_verbosity, s_callbacks, fresh, entered>>

(* add_callback: a new entry of the table starts with indentation 0. *)
AddCallback(s) ==
  /\ s \in fresh
  /\ fresh' = fresh \ {s}
  /\ s_callbacks' = s_callbacks \cup {s}
  /\ UNCHANGED <<g_stderr_verbosity, s_stderr_indentation, indentation, scopes,
                 entered, older>>

RemoveCallback(s) ==
  /\ s \in s_callbacks
  /\ s_callbacks' = s_callbacks \ {s}
  /\ UNCHANGED <<g_stderr_verbosity, s_stderr_indentation, fresh, indentation,
                 scopes, entered, older>>

(* The program assigns g_stderr_verbosity, within a scope too. *)
SetStderrVerbosity ==
  /\ g_stderr_verbosity' \in StderrLevels \ {g_stderr_verbosity}
  /\ UNCHANGED <<s_stderr_indentation, s_callbacks, fresh, indentation, scopes,
                 entered, older>>

Next ==
  \/ \E t \in Threads : Enter(t) \/ Open(t) \/ Leave(t)
  \/ \E s \in Sinks : AddCallback(s) \/ RemoveCallback(s)
  \/ SetStderrVerbosity

Spec == Init /\ [][Next]_svars

-----------------------------------------------------------------------------
(* The open scopes that meet a condition, over all threads. *)
OpenScopes(Test(_)) ==
  {w \in Threads \X (1..MaxScopes) :
     /\ w[2] <= Len(scopes[w[1]])
     /\ scopes[w[1]][w[2]].state = "open"
     /\ Test(scopes[w[1]][w[2]])}

IndentingStderr == OpenScopes(LAMBDA scope : scope.indent_stderr)
Indenting(s)    == OpenScopes(LAMBDA scope : s \in scope.seen
                                             /\ Wants(s, scope.verbosity))

(* stderr is indented by exactly the open scopes that indented it when they *)
(* were opened, although g_stderr_verbosity may be assigned while they are  *)
(* open and although scopes of several threads end in any order.            *)
StderrExact == s_stderr_indentation = Cardinality(IndentingStderr)

(* A callback is never indented by more scopes than are open, so nothing    *)
(* stays indented for good, and it is indented by exactly the scopes that   *)
(* were opened since it was added, until a scope that is older than the     *)
(* callback ends: whatever was added while scopes of two threads were open. *)
SinkIndentation ==
  \A s \in s_callbacks :
    /\ indentation[s] <= Cardinality(Indenting(s))
    /\ s \notin older => indentation[s] = Cardinality(Indenting(s))

(* The same without that exception, which the destructor's comment ("in     *)
(* unlikely case this callback is new") means to make unnecessary: README,  *)
(* "Will indent all log messages within this scope."                        *)
ScopeIndentsCallbacks ==
  \A s \in s_callbacks : indentation[s] = Cardinality(Indenting(s))

=============================================================================
