------------------------------ MODULE FatalPath -----------------------------
(***************************************************************************)
(* How loguru ends a process: FATAL messages (CHECK_F, ABORT_F, LOG_F), the *)
(* fatal handler, the abort that follows, and the signals loguru catches.  *)
(*                                                                         *)
(* A thread is a stack of calls: a signal may arrive at any point of what  *)
(* the thread does, and its handler logs, which takes s_mutex again.  The  *)
(* mutex is held by the calls between their lock_guard and their end, so   *)
(* that leaving a call, by return or by exception, is what unlocks it.     *)
(*                                                                         *)
(* All outputs are one log here (LoguruCore shows that a message reaches   *)
(* them as one), and what was flushed is a prefix of it.                   *)
(*                                                                         *)
(* The locks of the C library that a thread cannot take twice (those of    *)
(* malloc, of localtime_r and of the loader, which backtrace() takes) are  *)
(* one lock, held by the call that is inside it.  A call of the library is *)
(* made in the step that leads to it.  The lock of a FILE* is recursive,   *)
(* and left out.                                                           *)
(***************************************************************************)
EXTENDS Integers, SequencesExt

CONSTANTS
  Threads,
  Signals,
  SIGABRT,
  Buffered,               (* g_flush_interval_ms > 0.                       *)
  HandlerMay,             (* What the fatal handler may do, of "return",    *)
                          (* "log" and "throw"; {}: none is installed.      *)
  StderrOff,              (* g_stderr_verbosity is Verbosity_OFF: what is   *)
                          (* logged is for the callbacks alone.             *)
  NoOne,
  MaxCalls,               (* Bound: calls into loguru ...                   *)
  MaxSignals              (* ... and signals that arrive.                   *)

ASSUME FatalAssumption ==
  /\ SIGABRT \in Signals
  /\ {Buffered, StderrOff} \subseteq BOOLEAN
  /\ HandlerMay \subseteq {"return", "log", "throw"}
  /\ NoOne \notin Threads \X Nat
  /\ MaxCalls \in Nat /\ MaxSignals \in Nat

VARIABLES
  options,    (* s_signal_options: unsafe_signal_handler, and the signals   *)
              (* init() was asked to catch.                                 *)
  stack,      (* Each thread's calls, innermost last.                       *)
  log,        (* What the outputs were given, in order ...                  *)
  durable,    (* ... and how much of it was flushed.                        *)
  handled_by, (* What each signal does: "loguru" or "default".              *)
  libc,       (* The call that is inside the C library, or NoOne: its       *)
              (* thread and its place in the stack, 0 for the program's own.*)
  death,      (* How the process ended; "no" while it runs.                 *)
  survived,   (* History: a FATAL message returned to the program.          *)
  calls, arrivals

fvars == <<options, stack, log, durable, handled_by, libc, death, survived, calls, arrivals>>

(***************************************************************************)
(* A call: what it does next, and                                          *)
(*   kind  a log_message that is "plain" or "fatal", or "signal" when      *)
(*         signal_handler calls it (FATAL, but it is not to abort); a      *)
(*         "change" of the callbacks; "none" for what takes no lock;       *)
(*   no    a number for the message;                                       *)
(*   sig   the signal a signal_handler handles.                            *)
(***************************************************************************)
Locked == {"trace", "context", "deliver", "flush", "handler", "in_handler",
           "flush_again", "abort", "raise", "raised", "unlock", "add", "change"}
InHandler == {"write", "flush_first", "log", "flush_last", "default"}
Frame == [at : Locked \cup InHandler \cup {"lock"},
          kind : {"plain", "fatal", "signal", "change", "none"},
          no : 0..(MaxCalls + MaxSignals), sig : Signals]
Entry == [part : {"plain", "trace", "context", "fatal"}, by : Threads,
          no : 0..(MaxCalls + MaxSignals)]

TypeOK ==
  /\ options \in [unsafe_signal_handler : BOOLEAN, caught : SUBSET Signals]
  /\ stack \in [Threads -> Seq(Frame)]
  /\ log \in Seq(Entry)
  /\ durable \in 0..Len(log)
  /\ handled_by \in [Signals -> {"loguru", "default"}]
  /\ libc \in (Threads \X Nat) \cup {NoOne}
  /\ death \in {"no", "fatal", "signal", "uncaught"}
  /\ survived \in BOOLEAN
  /\ calls \in 0..MaxCalls /\ arrivals \in 0..MaxSignals

(* install_signal_handlers was called by init(), with any options. *)
Init ==
  /\ options \in [unsafe_signal_handler : BOOLEAN, caught : SUBSET Signals]
  /\ stack = [t \in Threads |-> <<>>]
  /\ log = <<>> /\ durable = 0
  /\ handled_by = [s \in Signals |-> IF s \in options.caught THEN "loguru" ELSE "default"]
  /\ libc = NoOne
  /\ death = "no"
  /\ survived = FALSE
  /\ calls = 0 /\ arrivals = 0

-----------------------------------------------------------------------------
(* t's innermost call, or t's program, is inside the C library. *)
InLibrary(t) == libc = <<t, Len(stack[t])>>
Idle(t)      == death = "no" /\ stack[t] = <<>> /\ ~InLibrary(t)
Top(t)       == Last(stack[t])
At(t, label) == death = "no" /\ stack[t] # <<>> /\ Top(t).at = label /\ ~InLibrary(t)

Places(t)    == {stack[t][n].at : n \in DOMAIN stack[t]}
Holds(t)     == \E n \in DOMAIN stack[t] :
                  stack[t][n].at \in Locked /\ stack[t][n].kind # "none"

NotRecursive(t) == \A u \in Threads : ~Holds(u)   \* mutant: a plain mutex
LockOfNobody(t) == TRUE                           \* mutant: no lock
(* s_mutex is free, or t holds it already. *)
MayLock(t)   == \A u \in Threads \ {t} : ~Holds(u)

(* current_verbosity_cutoff is below FATAL: stderr is off, and a callback  *)
(* change has s_max_out_verbosity at OFF.                                  *)
CutoffOff    == StderrOff /\ \E u \in Threads : "change" \in Places(u)

Goto(t, label) == stack' = [stack EXCEPT ![t][Len(stack[t])].at = label]
Push(t, frame) == stack' = [stack EXCEPT ![t] = Append(@, frame)]
Pop(t)         == stack' = [stack EXCEPT ![t] = Front(@)]
(* t goes on at label when the call it now makes returns. *)
CallThen(t, label, frame) ==
  stack' = [stack EXCEPT ![t] =
              Append(Front(@), [Last(@) EXCEPT !.at = label]) \o <<frame>>]

(* Where the call goes on it is in the C library. *)
CallLibrary(t)    == libc = NoOne /\ libc' = <<t, Len(stack'[t])>>
MayCallLibrary(t) == CallLibrary(t) \/ UNCHANGED libc

Emit(t, part) == log' = Append(log, [part |-> part, by |-> t, no |-> Top(t).no])
FlushesNext    == durable' = Len(log) + 1   \* mutant: off by one
FlushAll       == durable' = Len(log)
(* Unbuffered, every message is flushed as it is printed. *)
AutoFlush      == durable' = IF Buffered THEN durable ELSE Len(log')
Die(cause)     == death' = cause

LogFrame(kind, no) == [at |-> "lock", kind |-> kind, no |-> no, sig |-> SIGABRT]

(***************************************************************************)
(* The program calls loguru, or malloc, or abort.                          *)
(***************************************************************************)
Begin(t) == Idle(t) /\ calls < MaxCalls /\ calls' = calls + 1

(* vtextprintf allocates and print_preamble calls localtime_r; then        *)
(* log_message is called.                                                  *)
Log(t) ==
  /\ Begin(t)
  /\ Push(t, LogFrame("plain", calls')) /\ CallLibrary(t)
  /\ UNCHANGED <<log, durable, handled_by, death, survived, arrivals>>

(* CHECK_F and ABORT_F call log_and_abort whatever the cutoff is. *)
CheckFails(t) ==
  /\ Begin(t)
  /\ Push(t, LogFrame("fatal", calls')) /\ CallLibrary(t)
  /\ UNCHANGED <<log, durable, handled_by, death, survived, arrivals>>

(* LOG_F(FATAL, ...) compares with the cutoff first, like any LOG_F. *)
LogFatal(t) ==
  /\ Begin(t)
  /\ IF CutoffOff
     THEN survived' = TRUE /\ UNCHANGED <<stack, libc>>
     ELSE Push(t, LogFrame("fatal", calls')) /\ CallLibrary(t) /\ UNCHANGED survived
  /\ UNCHANGED <<log, durable, handled_by, death, arrivals>>

(* add_callback: the lock, and push_back, which allocates. *)
ChangeCallbacks(t) ==
  /\ Begin(t) /\ MayLock(t)
  /\ Push(t, [at |-> "add", kind |-> "change", no |-> 0, sig |-> SIGABRT])
  /\ CallLibrary(t)
  /\ UNCHANGED <<log, durable, handled_by, death, survived, arrivals>>

CallMalloc(t) ==
  /\ Begin(t)
  /\ UNCHANGED stack /\ CallLibrary(t)
  /\ UNCHANGED <<log, durable, handled_by, death, survived, arrivals>>

StdAbort(t) ==
  /\ Begin(t)
  /\ Push(t, [at |-> "raise", kind |-> "none", no |-> calls', sig |-> SIGABRT])
  /\ UNCHANGED <<log, durable, handled_by, libc, death, survived, arrivals>>

-----------------------------------------------------------------------------
(***************************************************************************)
(* The C library returns; the rest of add_callback.                        *)
(***************************************************************************)
LeaveLibrary(t) ==
  /\ death = "no" /\ InLibrary(t)
  /\ libc' = NoOne
  /\ UNCHANGED <<stack, log, durable, handled_by, death, survived, calls, arrivals>>

(* on_callback_change, up to its loop. *)
OnCallbackChange(t) ==
  /\ At(t, "add")
  /\ Goto(t, "change")
  /\ UNCHANGED <<log, durable, handled_by, libc, death, survived, calls, arrivals>>

-----------------------------------------------------------------------------
(***************************************************************************)
(* log_message.                                                            *)
(***************************************************************************)
(* A FATAL message begins with a stack trace; a callback may allocate, as   *)
(* file_reopen does in fopen.                                              *)
Lock(t) ==
  /\ At(t, "lock") /\ MayLock(t)
  /\ IF Top(t).kind = "plain" THEN Goto(t, "deliver") /\ MayCallLibrary(t)
                              ELSE Goto(t, "trace") /\ CallLibrary(t)
  /\ UNCHANGED <<log, durable, handled_by, death, survived, calls, arrivals>>

(* The stack trace and the error context, by RAW_LOG_F(ERROR, ...).        *)
(* Making either allocates.                                                *)
StackTrace(t) ==
  /\ At(t, "trace")
  /\ IF CutoffOff THEN UNCHANGED <<log, durable>> ELSE Emit(t, "trace") /\ AutoFlush
  /\ Goto(t, "context") /\ CallLibrary(t)
  /\ UNCHANGED <<handled_by, death, survived, calls, arrivals>>

ErrorContext(t) ==
  /\ At(t, "context")
  /\ \/ ~CutoffOff /\ Emit(t, "context") /\ AutoFlush
     \/ UNCHANGED <<log, durable>>   \* there is none
  /\ Goto(t, "deliver") /\ MayCallLibrary(t)
  /\ UNCHANGED <<handled_by, death, survived, calls, arrivals>>

Deliver(t) ==
  /\ At(t, "deliver")
  /\ Emit(t, IF Top(t).kind = "plain" THEN "plain" ELSE "fatal")
  /\ AutoFlush
  /\ Goto(t, IF Top(t).kind = "plain" THEN "unlock" ELSE "flush")
  /\ UNCHANGED <<handled_by, libc, death, survived, calls, arrivals>>

Flush(t) ==
  /\ At(t, "flush")
  /\ FlushAll
  /\ Goto(t, "handler")
  /\ UNCHANGED <<log, handled_by, libc, death, survived, calls, arrivals>>

AlwaysReturns(t) == "unlock"   \* mutant: no abort
AfterHandler(t) == IF Top(t).kind = "fatal" THEN "abort" ELSE "unlock"

(* A fatal handler that logs or throws calls the C library first. *)
CallHandler(t) ==
  /\ At(t, "handler")
  /\ Goto(t, IF HandlerMay = {} THEN AfterHandler(t) ELSE "in_handler")
  /\ IF HandlerMay \subseteq {"return"} THEN UNCHANGED libc ELSE MayCallLibrary(t)
  /\ UNCHANGED <<log, durable, handled_by, death, survived, calls, arrivals>>

HandlerReturns(t) ==
  /\ At(t, "in_handler")
  /\ \/ "return" \in HandlerMay /\ UNCHANGED <<log, durable>>
     \/ "log" \in HandlerMay /\ ~CutoffOff /\ Emit(t, "plain") /\ AutoFlush
  /\ Goto(t, "flush_again")
  /\ UNCHANGED <<handled_by, libc, death, survived, calls, arrivals>>

(* The exception leaves log_message; signal_handler catches it. *)
HandlerThrows(t) ==
  /\ At(t, "in_handler") /\ "throw" \in HandlerMay
  /\ Pop(t)
  /\ UNCHANGED <<log, durable, handled_by, libc, death, survived, calls, arrivals>>

FlushOnce(t) ==   \* mutant: no flush after the handler
  /\ At(t, "flush_again")
  /\ Goto(t, AfterHandler(t))
  /\ UNCHANGED <<log, durable, handled_by, libc, death, survived, calls, arrivals>>

FlushAgain(t) ==
  /\ At(t, "flush_again")
  /\ FlushAll
  /\ Goto(t, AfterHandler(t))
  /\ UNCHANGED <<log, handled_by, libc, death, survived, calls, arrivals>>

KeepHandler(t) ==   \* mutant: SIGABRT stays caught
  /\ At(t, "abort")
  /\ Goto(t, "raise")
  /\ UNCHANGED <<log, durable, handled_by, libc, death, survived, calls, arrivals>>

(* Abort, but not into signal_handler. *)
ResetSigabrt(t) ==
  /\ At(t, "abort")
  /\ handled_by' = IF SIGABRT \in options.caught
                   THEN [handled_by EXCEPT ![SIGABRT] = "default"] ELSE handled_by
  /\ Goto(t, "raise")
  /\ UNCHANGED <<log, durable, libc, death, survived, calls, arrivals>>

Raise(t) ==
  /\ At(t, "raise")
  /\ IF handled_by[SIGABRT] = "default"
     THEN Die(IF Top(t).kind = "fatal" THEN "fatal" ELSE "uncaught") /\ UNCHANGED stack
     ELSE /\ CallThen(t, "raised", [at |-> "write", kind |-> "none",
                                    no |-> Top(t).no, sig |-> SIGABRT])
          /\ UNCHANGED death
  /\ UNCHANGED <<log, durable, handled_by, libc, survived, calls, arrivals>>

(* The lock_guard's destructor; only a signal's FATAL message gets here. *)
Return(t) ==
  /\ At(t, "unlock") \/ At(t, "change")
  /\ survived' = (survived \/ Top(t).kind = "fatal")
  /\ Pop(t)
  /\ UNCHANGED <<log, durable, handled_by, libc, death, calls, arrivals>>

-----------------------------------------------------------------------------
(***************************************************************************)
(* signal_handler.                                                         *)
(***************************************************************************)
BlocksNothing(t) == {}   \* mutant: SA_NODEFER
(* While a signal is handled its thread is not interrupted by it again.    *)
Blocked(t) == {stack[t][n].sig : n \in {m \in DOMAIN stack[t] :
                                          stack[t][m].at \in InHandler}}

(* A signal nobody catches, and one the fault of its own handler raises,   *)
(* end the process.                                                        *)
SignalArrives(t) ==
  /\ death = "no" /\ arrivals < MaxSignals /\ arrivals' = arrivals + 1
  /\ \E s \in Signals :
       IF handled_by[s] = "default" \/ s \in Blocked(t)
       THEN Die("uncaught") /\ UNCHANGED stack
       ELSE /\ Push(t, [at |-> "write", kind |-> "none", no |-> MaxCalls + arrivals',
                        sig |-> s])
            /\ UNCHANGED death
  /\ UNCHANGED <<log, durable, handled_by, libc, survived, calls>>

(* "Loguru caught a signal" is written with write(), which takes no lock. *)
WriteToStderr(t) ==
  /\ At(t, "write")
  /\ Goto(t, IF options.unsafe_signal_handler THEN "flush_first" ELSE "default")
  /\ UNCHANGED <<log, durable, handled_by, libc, death, survived, calls, arrivals>>

(* print_preamble follows the first flush. *)
HandlerFlushes(t) ==
  /\ At(t, "flush_first") \/ At(t, "flush_last")
  /\ MayLock(t)
  /\ FlushAll
  /\ IF At(t, "flush_first") THEN Goto(t, "log") /\ CallLibrary(t)
                             ELSE Goto(t, "default") /\ UNCHANGED libc
  /\ UNCHANGED <<log, handled_by, death, survived, calls, arrivals>>

HandlerLogs(t) ==
  /\ At(t, "log")
  /\ CallThen(t, "flush_last", LogFrame("signal", Top(t).no))
  /\ UNCHANGED <<log, durable, handled_by, libc, death, survived, calls, arrivals>>

(* The default handler is put back, and the signal sent once more. *)
CallDefault(t) ==
  /\ At(t, "default")
  /\ handled_by' = [handled_by EXCEPT ![Top(t).sig] = "default"]
  /\ Die("signal")
  /\ UNCHANGED <<stack, log, durable, libc, survived, calls, arrivals>>

-----------------------------------------------------------------------------
Step(t) ==
  /\ \/ Lock(t) \/ StackTrace(t) \/ ErrorContext(t) \/ Deliver(t) \/ Flush(t)
     \/ CallHandler(t) \/ HandlerReturns(t) \/ HandlerThrows(t) \/ FlushAgain(t)
     \/ ResetSigabrt(t) \/ Raise(t) \/ Return(t)
     \/ WriteToStderr(t) \/ HandlerFlushes(t) \/ HandlerLogs(t) \/ CallDefault(t)
     \/ LeaveLibrary(t) \/ OnCallbackChange(t)
  /\ UNCHANGED options

(* What comes from outside loguru. *)
Arrive(t) ==
  /\ \/ Log(t) \/ CheckFails(t) \/ LogFatal(t) \/ ChangeCallbacks(t) \/ StdAbort(t)
     \/ CallMalloc(t) \/ SignalArrives(t)
  /\ UNCHANGED options

Next == \E t \in Threads : Arrive(t) \/ Step(t)

Spec == Init /\ [][Next]_fvars

(* What is inside a call goes on; nothing need be called and no signal come. *)
FairSpec == Spec /\ \A t \in Threads : WF_fvars(Step(t))

-----------------------------------------------------------------------------
Printed(part, no) == {n \in DOMAIN log : log[n].part = part /\ log[n].no = no}

(* When loguru aborts, everything that was logged, by whichever thread and by *)
(* the fatal handler too, was flushed, the reason for the abort included; and *)
(* when a caught signal ends the process, so was the message about it, whether *)
(* or not the fatal handler threw an exception out of log_message.  The fatal *)
(* handler, which may pause for a debugger or never return, is called when    *)
(* all that was logged before is durable.                                     *)
LastWordsDurable ==
  /\ \A t \in Threads : At(t, "handler") => durable = Len(log)
  /\ death = "fatal" =>
       /\ durable = Len(log)
       /\ \E t \in Threads : stack[t] # <<>> /\ Top(t).at = "raise"
                             /\ Printed("fatal", Top(t).no) # {}
  /\ death = "signal" /\ options.unsafe_signal_handler =>
       \E t \in Threads :
         /\ stack[t] # <<>> /\ Top(t).at = "default"
         /\ \E n \in Printed("fatal", Top(t).no) : n <= durable

(* A stack trace, its error context and its FATAL message are never torn     *)
(* apart by another thread's lines, and come in this order.                  *)
FatalBlock ==
  \A i, k \in DOMAIN log :
    /\ i < k /\ log[i].no = log[k].no =>
         \A j \in i..k : log[j].by = log[i].by
    /\ log[i].no = log[k].no /\ log[i].part = "trace" /\ log[k].part = "fatal" => i < k

(* loguru's own abort() is never logged a second time as a caught SIGABRT.   *)
NoOwnAbortCaught ==
  \A t \in Threads : \A n \in DOMAIN stack[t] :
    stack[t][n].at = "raised" => stack[t][n].kind # "fatal"

(* A fatal handler that itself crashes is entered again at most once for     *)
(* each signal: the crash of the crash ends the process.                     *)
HandlerNestsBoundedly ==
  \A t \in Threads :
    LET Frames(P(_)) == {n \in DOMAIN stack[t] : P(stack[t][n])}
        entered(f)   == f.at = "in_handler"
        asked(f)     == f.kind = "fatal"
        handling(f)  == f.at \in InHandler
    IN Cardinality(Frames(entered))
         <= Cardinality(Frames(asked))
            + Cardinality({stack[t][n].sig : n \in Frames(handling)})

(* A FATAL message never returns to the program, whether or not the handler  *)
(* returned (docs/index.html: "Abort your program (unless your fatal handler *)
(* chose to instead throw an exception)").                                   *)
FatalNeverReturns == ~survived

(* A signal arrived while its thread was inside the C library. *)
LibraryStuck == libc # NoOne /\ Len(stack[libc[1]]) > libc[2]

(* A caught signal ends the process, whichever threads hold s_mutex when it  *)
(* arrives, the interrupted one included.  Only a signal inside malloc,      *)
(* localtime_r or backtrace(), called by the program or by loguru itself     *)
(* (vtextprintf, print_preamble, the stack trace, the error context, a       *)
(* callback, the fatal handler, add_callback), may hang it, and that only    *)
(* with unsafe_signal_handler (loguru.hpp: "This may lead to bad things like *)
(* deadlocks in certain situations").                                        *)
SignalEndsProcess ==
  \A t \in Threads :
    Places(t) \cap InHandler # {}
      ~> \/ death # "no"
         \/ options.unsafe_signal_handler /\ LibraryStuck

=============================================================================
