----------------------------- MODULE LoguruCore -----------------------------
(***************************************************************************)
(* The logging core of loguru: the recursive mutex s_mutex, the table of   *)
(* callbacks s_callbacks with its cached cutoff s_max_out_verbosity, the   *)
(* delivery of one message to stderr and to every callback, and flushing,  *)
(* by the caller or by the background thread.                              *)
(*                                                                         *)
(* A step is one piece of work another thread can observe: an unlocked     *)
(* read of a shared variable, the acquisition of the mutex, one write to   *)
(* an output, one call of a handler, one assignment to a variable that     *)
(* some thread reads without the mutex.  FATAL messages (which end the     *)
(* process), scopes (indentation) and the file sinks' own handlers have    *)
(* modules of their own; here a sink is whatever handlers add_callback was *)
(* given, and its handlers do not call loguru back.                        *)
(***************************************************************************)
EXTENDS Integers, SequencesExt

CONSTANTS
  Threads,             (* Threads that call loguru.                         *)
  FlushThread,         (* The thread log_message starts when it buffers.    *)
  NoOne,               (* Nobody holds s_mutex.                             *)
  Sinks,               (* One per user_data: each is added at most once.    *)
  Stderr,              (* The output that needs no callback.                *)
  NoSink,              (* The argument of a thread that is not adding one.  *)
  Ids,                 (* Names callbacks are added and removed by.         *)
  IdOf,                (* The id each sink is added under.                  *)
  VerbosityOf,         (* The verbosity each sink is added with.            *)
  Flushable,           (* Sinks added with an on_flush handler.             *)
  g_stderr_verbosity,  (* Set before the program starts to log.             *)
  Levels,              (* Verbosities the program logs at (FATAL excluded). *)
  FlushIntervals,      (* Values the program gives g_flush_interval_ms.     *)
  MaxCalls             (* Bound: calls into loguru in one behaviour.        *)

Verbosity_OFF   == -9
Verbosity_FATAL == -3
Verbosity_ERROR == -2

Procs   == Threads \cup {FlushThread}
Outputs == Sinks \cup {Stderr}

ASSUME ProcsAssumption ==
  /\ FlushThread \notin Threads
  /\ NoOne \notin Procs
ASSUME SinksAssumption ==
  /\ Stderr \notin Sinks
  /\ NoSink \notin Sinks
  /\ Flushable \subseteq Sinks
  /\ IdOf \in [Sinks -> Ids]
  /\ VerbosityOf \in [Sinks -> Int]
ASSUME ValuesAssumption ==
  /\ g_stderr_verbosity \in Int
  /\ Levels \subseteq Int
  /\ \A v \in Levels : v > Verbosity_FATAL
  /\ FlushIntervals \subseteq Nat
  /\ FlushIntervals # {}
  /\ MaxCalls \in Nat

(***************************************************************************)
(* A message is what tells it from the others (the thread that logs it and *)
(* how many calls had begun by then) and its verbosity.                    *)
(***************************************************************************)
Message   == [by : Threads, no : 1..MaxCalls,
              verbosity : Levels \cup {Verbosity_ERROR}]
NoMessage == [by |-> NoOne, no |-> 0, verbosity |-> 0]

VARIABLES
  owner,                (* Holder of s_mutex, or NoOne ...                  *)
  depth,                (* ... and how often it has locked it.              *)
  s_callbacks,          (* The sinks installed, in the order of the calls.  *)
  s_max_out_verbosity,
  fresh,                (* Sinks add_callback was not yet called for.       *)
  closes,               (* How often each sink's on_close was called.       *)
  g_flush_interval_ms,
  s_needs_flushing,
  out,                  (* What each output was given, in order ...         *)
  flushed,              (* ... and how much of it a flush made durable.     *)
  pc,                   (* What each process does next.                     *)
  arg,                  (* The sink a thread is adding.                     *)
  cur,                  (* The message a thread is logging.                 *)
  idx,                  (* Its position in a loop over s_callbacks.         *)
  calls                 (* Calls begun.                                     *)

mutex    == <<owner, depth>>
table    == <<s_callbacks, fresh, closes>>
config   == <<s_max_out_verbosity, g_flush_interval_ms>>
delivery == <<out, flushed, s_needs_flushing>>
locals   == <<arg, cur, idx, calls>>
vars == <<mutex, table, config, delivery, pc, locals>>

-----------------------------------------------------------------------------
(***************************************************************************)
(* Where a process can be.  A process that waits for s_mutex is at the     *)
(* name of the call; Entry is where that call goes on once it has it.      *)
(***************************************************************************)
Entry == [log       |-> "stderr",
          add       |-> "push",
          remove    |-> "find",
          removeAll |-> "close_all",
          flush     |-> "flush_stderr"]
Waiting   == {"log", "add", "remove", "removeAll", "flush"}
Filtering == {"cutoff", "reread"}
Logging   == {"stderr", "stderr_flush", "sinks", "sink_flush"}
Changing  == {"reset", "recompute"}
Working   == {"push", "find", "erase", "close_all", "flush_stderr",
              "flush_sinks", "unlock"} \cup Changing
Holding   == Logging \cup Working
Labels    == {"unborn", "idle"} \cup Waiting \cup Filtering \cup Holding

Installed == Range(s_callbacks)

Wants(o, m) ==
  m.verbosity <= (IF o = Stderr THEN g_stderr_verbosity ELSE VerbosityOf[o])

TypeOK ==
  /\ owner \in Procs \cup {NoOne}
  /\ depth \in 0..2
  /\ s_callbacks \in Seq(Sinks)
  /\ s_max_out_verbosity \in Int
  /\ fresh \in SUBSET Sinks
  /\ closes \in [Sinks -> Nat]
  /\ g_flush_interval_ms \in FlushIntervals
  /\ s_needs_flushing \in BOOLEAN
  /\ out \in [Outputs -> Seq(Message)]
  /\ flushed \in [Outputs -> Nat]
  /\ pc \in [Procs -> Labels]
  /\ arg \in [Procs -> Sinks \cup {NoSink}]
  /\ cur \in [Procs -> Message \cup {NoMessage}]
  /\ idx \in [Procs -> Nat \ {0}]
  /\ calls \in 0..MaxCalls

Init ==
  /\ owner = NoOne
  /\ depth = 0
  /\ s_callbacks = <<>>
  /\ s_max_out_verbosity = Verbosity_OFF
  /\ fresh = Sinks
  /\ closes = [s \in Sinks |-> 0]
  /\ g_flush_interval_ms \in FlushIntervals
  /\ s_needs_flushing = FALSE
  /\ out = [o \in Outputs |-> <<>>]
  /\ flushed = [o \in Outputs |-> 0]
  /\ pc = [p \in Procs |-> IF p = FlushThread THEN "unborn" ELSE "idle"]
  /\ arg = [p \in Procs |-> NoSink]
  /\ cur = [p \in Procs |-> NoMessage]
  /\ idx = [p \in Procs |-> 1]
  /\ calls = 0

-----------------------------------------------------------------------------
Go(p, to)       == pc' = [pc EXCEPT ![p] = to]
At(p, k)        == idx' = [idx EXCEPT ![p] = k]
InLoop(p)       == idx[p] <= Len(s_callbacks)
Here(p)         == s_callbacks[idx[p]]
Write(o, m)     == out' = [out EXCEPT ![o] = Append(@, m)]
MakeDurable(o)  == flushed' = [flushed EXCEPT ![o] = Len(out[o])]

(***************************************************************************)
(* The program calls loguru.                                               *)
(***************************************************************************)
Call(t, to) ==
  /\ t \in Threads
  /\ pc[t] = "idle"
  /\ calls < MaxCalls
  /\ calls' = calls + 1
  /\ Go(t, to)
  /\ UNCHANGED <<mutex, table, delivery, config, idx>>

(* LOG_F(v, ...): the macro reads the cutoff before it calls vlog. *)
Log(t) ==
  /\ Call(t, "cutoff")
  /\ \E v \in Levels :
       cur' = [cur EXCEPT ![t] = [by |-> t, no |-> calls + 1, verbosity |-> v]]
  /\ UNCHANGED arg

AddCallback(t) ==
  /\ t \in Threads /\ pc[t] = "idle" /\ calls < MaxCalls
  /\ \E s \in fresh :
       /\ arg' = [arg EXCEPT ![t] = s]
       /\ fresh' = fresh \ {s}
  /\ calls' = calls + 1
  /\ Go(t, "add")
  /\ UNCHANGED <<mutex, s_callbacks, closes, delivery, config, cur, idx>>

RemoveCallback(t)     == Call(t, "remove")    /\ UNCHANGED <<arg, cur>>
RemoveAllCallbacks(t) == Call(t, "removeAll") /\ UNCHANGED <<arg, cur>>
Flush(t)              == Call(t, "flush")     /\ UNCHANGED <<arg, cur>>

(***************************************************************************)
(* current_verbosity_cutoff() without the mutex.  The comparison is one    *)
(* read of s_max_out_verbosity; when it decides for that variable, the     *)
(* value returned is a second read of it.                                  *)
(***************************************************************************)
AfterLog(p) == IF owner = p THEN "unlock" ELSE "idle"

Filtered(p, cutoff) ==
  IF cur[p].verbosity <= cutoff
  THEN Go(p, "log") /\ UNCHANGED cur
  ELSE Go(p, AfterLog(p)) /\ cur' = [cur EXCEPT ![p] = NoMessage]

ReadCutoff(p) ==
  /\ pc[p] = "cutoff"
  /\ IF g_stderr_verbosity > s_max_out_verbosity
     THEN Filtered(p, g_stderr_verbosity)
     ELSE Go(p, "reread") /\ UNCHANGED cur
  /\ UNCHANGED <<mutex, table, delivery, config, arg, idx, calls>>

RereadCutoff(p) ==
  /\ pc[p] = "reread"
  /\ Filtered(p, s_max_out_verbosity)
  /\ UNCHANGED <<mutex, table, delivery, config, arg, idx, calls>>

(***************************************************************************)
(* s_mutex is recursive: its owner may lock it again.                      *)
(***************************************************************************)
Acquire(p) ==
  /\ pc[p] \in Waiting
  /\ owner \in {NoOne, p}
  /\ owner' = p
  /\ depth' = depth + 1
  /\ Go(p, Entry[pc[p]])
  /\ At(p, 1)
  /\ UNCHANGED <<table, delivery, config, arg, cur, calls>>

ReleaseTwice(p) ==   \* mutant: unlock() and the lock_guard's destructor
  /\ depth' = depth - 2
  /\ owner' = NoOne

Release(p) ==
  /\ depth' = depth - 1
  /\ owner' = IF depth = 1 THEN NoOne ELSE owner

(***************************************************************************)
(* log_message, with the mutex held.                                       *)
(***************************************************************************)
WriteStderr(p) ==
  /\ pc[p] = "stderr"
  /\ IF Wants(Stderr, cur[p])
     THEN /\ Write(Stderr, cur[p])
          /\ IF g_flush_interval_ms = 0
             THEN Go(p, "stderr_flush") /\ UNCHANGED s_needs_flushing
             ELSE Go(p, "sinks") /\ s_needs_flushing' = TRUE
     ELSE Go(p, "sinks") /\ UNCHANGED <<out, s_needs_flushing>>
  /\ UNCHANGED <<mutex, table, flushed, config, locals>>

FlushStderr(p) ==
  /\ pc[p] = "stderr_flush"
  /\ MakeDurable(Stderr)
  /\ Go(p, "sinks")
  /\ UNCHANGED <<mutex, table, out, s_needs_flushing, config, locals>>

CallSink(p) ==
  /\ pc[p] = "sinks"
  /\ InLoop(p)
  /\ IF Wants(Here(p), cur[p])
     THEN /\ Write(Here(p), cur[p])
          /\ IF g_flush_interval_ms = 0
             THEN Go(p, "sink_flush") /\ UNCHANGED <<s_needs_flushing, idx>>
             ELSE /\ s_needs_flushing' = TRUE
                  /\ At(p, idx[p] + 1)
                  /\ UNCHANGED pc
     ELSE At(p, idx[p] + 1) /\ UNCHANGED <<out, s_needs_flushing, pc>>
  /\ UNCHANGED <<mutex, table, flushed, config, arg, cur, calls>>

SkipFlush(p) ==   \* mutant: on_flush is not called
  /\ pc[p] = "sink_flush"
  /\ At(p, idx[p] + 1)
  /\ Go(p, "sinks")
  /\ UNCHANGED <<mutex, table, delivery, config, arg, cur, calls>>

FlushAgain(p) ==   \* mutant: after its flush the same callback is called again
  /\ pc[p] = "sink_flush"
  /\ IF Here(p) \in Flushable THEN MakeDurable(Here(p)) ELSE UNCHANGED flushed
  /\ Go(p, "sinks")
  /\ UNCHANGED <<mutex, table, out, s_needs_flushing, config, locals>>

FlushSink(p) ==
  /\ pc[p] = "sink_flush"
  /\ IF Here(p) \in Flushable THEN MakeDurable(Here(p)) ELSE UNCHANGED flushed
  /\ At(p, idx[p] + 1)
  /\ Go(p, "sinks")
  /\ UNCHANGED <<mutex, table, out, s_needs_flushing, config, arg, cur, calls>>

(***************************************************************************)
(* The end of log_message: start the flush thread when it is needed, then  *)
(* give the mutex back, to remove_callback if that is who logged.          *)
(***************************************************************************)
SpawnAtZero ==   \* mutant: the test of the interval is inverted
  g_flush_interval_ms = 0 /\ pc[FlushThread] = "unborn"

SpawnFlushThread == g_flush_interval_ms > 0 /\ pc[FlushThread] = "unborn"

EndLog(p) ==
  /\ pc[p] = "sinks"
  /\ ~InLoop(p)
  /\ Release(p)
  /\ pc' = [q \in Procs |->
              IF q = p THEN (IF depth = 1 THEN "idle" ELSE "unlock")
              ELSE IF q = FlushThread /\ SpawnFlushThread THEN "idle"
              ELSE pc[q]]
  /\ cur' = [cur EXCEPT ![p] = NoMessage]
  /\ UNCHANGED <<table, delivery, config, arg, idx, calls>>

(***************************************************************************)
(* add_callback, remove_callback and remove_all_callbacks, with the mutex  *)
(* held, up to the call of on_callback_change.                             *)
(***************************************************************************)
Push(p) ==
  /\ pc[p] = "push"
  /\ s_callbacks' = Append(s_callbacks, arg[p])
  /\ Go(p, "reset")
  /\ UNCHANGED <<mutex, fresh, closes, delivery, config, locals>>

Has(k, id) == k \in DOMAIN s_callbacks /\ IdOf[s_callbacks[k]] = id

(* The first callback of that id is closed; it is erased afterwards. *)
FindAndClose(p) ==
  /\ pc[p] = "find"
  /\ \E id \in Ids, k \in DOMAIN s_callbacks :
       /\ Has(k, id)
       /\ \A j \in 1..(k - 1) : ~Has(j, id)
       /\ closes' = [closes EXCEPT ![s_callbacks[k]] = @ + 1]
       /\ At(p, k)
  /\ Go(p, "erase")
  /\ UNCHANGED <<mutex, s_callbacks, fresh, delivery, config, arg, cur, calls>>

(* No callback has that id: LOG_F(ERROR, ...) while the mutex is held. *)
FindNothing(p) ==
  /\ pc[p] = "find"
  /\ \E id \in Ids : \A k \in DOMAIN s_callbacks : ~Has(k, id)
  /\ cur' = [cur EXCEPT ![p] =
              [by |-> p, no |-> calls, verbosity |-> Verbosity_ERROR]]
  /\ Go(p, "cutoff")
  /\ UNCHANGED <<mutex, table, delivery, config, arg, idx, calls>>

EraseLast(p) ==   \* mutant: pop_back instead of erase(it)
  /\ pc[p] = "erase"
  /\ s_callbacks' = Front(s_callbacks)
  /\ Go(p, "reset")
  /\ UNCHANGED <<mutex, fresh, closes, delivery, config, locals>>

Erase(p) ==
  /\ pc[p] = "erase"
  /\ s_callbacks' = RemoveAt(s_callbacks, idx[p])
  /\ Go(p, "reset")
  /\ UNCHANGED <<mutex, fresh, closes, delivery, config, locals>>

CloseNext(p) ==
  /\ pc[p] = "close_all"
  /\ InLoop(p)
  /\ closes' = [closes EXCEPT ![Here(p)] = @ + 1]
  /\ At(p, idx[p] + 1)
  /\ UNCHANGED <<mutex, s_callbacks, fresh, delivery, config, pc, arg,
                 cur, calls>>

ClearNothing(p) ==   \* mutant: remove_all_callbacks without the clear()
  /\ pc[p] = "close_all"
  /\ ~InLoop(p)
  /\ Go(p, "reset")
  /\ UNCHANGED <<mutex, table, delivery, config, locals>>

ClearAll(p) ==
  /\ pc[p] = "close_all"
  /\ ~InLoop(p)
  /\ s_callbacks' = <<>>
  /\ Go(p, "reset")
  /\ UNCHANGED <<mutex, fresh, closes, delivery, config, locals>>

(***************************************************************************)
(* on_callback_change: s_max_out_verbosity falls to OFF and is raised      *)
(* again, one callback at a time, under the eyes of every LOG_F.           *)
(***************************************************************************)
KeepCutoff(p) ==   \* mutant: the maximum does not start again from OFF
  /\ pc[p] = "reset"
  /\ At(p, 1)
  /\ Go(p, "recompute")
  /\ UNCHANGED <<mutex, table, delivery, config, arg, cur, calls>>

ResetCutoff(p) ==
  /\ pc[p] = "reset"
  /\ s_max_out_verbosity' = Verbosity_OFF
  /\ At(p, 1)
  /\ Go(p, "recompute")
  /\ UNCHANGED <<mutex, table, delivery, g_flush_interval_ms, arg, cur, calls>>

TakeLastCutoff(p) ==   \* mutant: an assignment instead of std::max
  /\ pc[p] = "recompute"
  /\ InLoop(p)
  /\ s_max_out_verbosity' = VerbosityOf[Here(p)]
  /\ At(p, idx[p] + 1)
  /\ UNCHANGED <<mutex, table, delivery, g_flush_interval_ms, pc, arg,
                 cur, calls>>

RaiseForever(p) ==   \* mutant: the loop does not advance
  /\ pc[p] = "recompute"
  /\ InLoop(p)
  /\ s_max_out_verbosity' = VerbosityOf[Here(p)]
  /\ UNCHANGED <<mutex, table, delivery, g_flush_interval_ms, pc, arg, cur,
                 idx, calls>>

RaiseCutoff(p) ==
  /\ pc[p] = "recompute"
  /\ InLoop(p)
  /\ s_max_out_verbosity' = IF s_max_out_verbosity < VerbosityOf[Here(p)]
                            THEN VerbosityOf[Here(p)]
                            ELSE s_max_out_verbosity
  /\ At(p, idx[p] + 1)
  /\ UNCHANGED <<mutex, table, delivery, g_flush_interval_ms, pc, arg,
                 cur, calls>>

(* The call returns, and the lock_guard's destructor unlocks. *)
Return(p) ==
  /\ pc[p] = "unlock" \/ (pc[p] = "recompute" /\ ~InLoop(p))
  /\ Release(p)
  /\ Go(p, "idle")
  /\ arg' = [arg EXCEPT ![p] = NoSink]
  /\ UNCHANGED <<table, delivery, config, cur, idx, calls>>

(***************************************************************************)
(* flush(), called by the program or by the flush thread.                  *)
(***************************************************************************)
FlushStderrFirst(p) ==
  /\ pc[p] = "flush_stderr"
  /\ MakeDurable(Stderr)
  /\ Go(p, "flush_sinks")
  /\ UNCHANGED <<mutex, table, out, s_needs_flushing, config, locals>>

FlushNext(p) ==
  /\ pc[p] = "flush_sinks"
  /\ InLoop(p)
  /\ IF Here(p) \in Flushable THEN MakeDurable(Here(p)) ELSE UNCHANGED flushed
  /\ At(p, idx[p] + 1)
  /\ UNCHANGED <<mutex, table, out, s_needs_flushing, config, pc, arg,
                 cur, calls>>

FlushDone(p) ==
  /\ pc[p] = "flush_sinks"
  /\ ~InLoop(p)
  /\ s_needs_flushing' = FALSE
  /\ Release(p)
  /\ Go(p, "idle")
  /\ UNCHANGED <<table, out, flushed, config, locals>>

PollAndClear ==   \* mutant: the flag is cleared before the flush
  /\ pc[FlushThread] = "idle"
  /\ s_needs_flushing
  /\ s_needs_flushing' = FALSE
  /\ Go(FlushThread, "flush")
  /\ UNCHANGED <<mutex, table, out, flushed, config, locals>>

(* The flush thread wakes up and reads s_needs_flushing without the mutex. *)
Poll ==
  /\ pc[FlushThread] = "idle"
  /\ s_needs_flushing
  /\ Go(FlushThread, "flush")
  /\ UNCHANGED <<mutex, table, delivery, config, locals>>

(* The program assigns g_flush_interval_ms. *)
SetFlushInterval ==
  /\ g_flush_interval_ms' \in FlushIntervals \ {g_flush_interval_ms}
  /\ UNCHANGED <<mutex, table, delivery, s_max_out_verbosity, pc, locals>>

-----------------------------------------------------------------------------
Begin(t) == Log(t) \/ AddCallback(t) \/ RemoveCallback(t)
            \/ RemoveAllCallbacks(t) \/ Flush(t)

Step(p) ==
  \/ ReadCutoff(p) \/ RereadCutoff(p) \/ Acquire(p)
  \/ WriteStderr(p) \/ FlushStderr(p) \/ CallSink(p) \/ FlushSink(p) \/ EndLog(p)
  \/ Push(p) \/ FindAndClose(p) \/ FindNothing(p) \/ Erase(p)
  \/ CloseNext(p) \/ ClearAll(p) \/ ResetCutoff(p) \/ RaiseCutoff(p) \/ Return(p)
  \/ FlushStderrFirst(p) \/ FlushNext(p) \/ FlushDone(p)

(* Every call returned and the program makes no more of them. *)
Finished ==
  /\ calls = MaxCalls
  /\ \A t \in Threads : pc[t] = "idle"
  /\ pc[FlushThread] = "unborn" \/ (pc[FlushThread] = "idle" /\ ~s_needs_flushing)
  /\ UNCHANGED vars

Next ==
  \/ \E t \in Threads : Begin(t)
  \/ \E p \in Procs : Step(p)
  \/ Poll
  \/ SetFlushInterval
  \/ Finished

Spec == Init /\ [][Next]_vars

(***************************************************************************)
(* A thread inside loguru runs on, and the flush thread wakes up again and *)
(* again; the program need not call anything.  A waiter for s_mutex is not *)
(* promised its turn while others keep taking it (weak fairness only).     *)
(***************************************************************************)
Fairness == /\ \A p \in Procs : WF_vars(Step(p))
            /\ WF_vars(Poll)

FairSpec == Spec /\ Fairness

-----------------------------------------------------------------------------
(***************************************************************************)
(* Safety.                                                                 *)
(***************************************************************************)

(* max, from OFF, of the verbosities of the first n callbacks. *)
IsCutoff(m, n) ==
  /\ m >= Verbosity_OFF
  /\ \A k \in 1..n : VerbosityOf[s_callbacks[k]] <= m
  /\ m = Verbosity_OFF \/ \E k \in 1..n : VerbosityOf[s_callbacks[k]] = m

(* Whenever s_mutex is free, the cached s_max_out_verbosity is the maximum *)
(* over the callbacks in the table, whatever was added, removed or missed. *)
CutoffExact == owner = NoOne => IsCutoff(s_max_out_verbosity, Len(s_callbacks))

Pending(o) == /\ o \in {Stderr} \cup (Flushable \cap Installed)
              /\ flushed[o] # Len(out[o])

(* Whenever s_mutex is free and an installed output holds text that was not *)
(* flushed, s_needs_flushing is set: the flush thread's unlocked check      *)
(* cannot miss it, however flush() and log_message interleave and even when *)
(* g_flush_interval_ms is changed in the middle of a call.                  *)
NothingForgotten ==
  owner = NoOne /\ (\E o \in Outputs : Pending(o)) => s_needs_flushing

(* With g_flush_interval_ms = 0 throughout, a hard crash at any moment loses *)
(* no message whose LOG_F returned (README.md: "Flushes output on each call   *)
(* so you won't miss anything even on hard crashes").                        *)
HardCrashLosesNothing ==
  \A o \in {Stderr} \cup Flushable :
    \A n \in (flushed[o] + 1)..Len(out[o]) :
      \E t \in Threads : cur[t] = out[o][n]

Before(o, m1, m2) ==
  \E i, j \in DOMAIN out[o] : i < j /\ out[o][i] = m1 /\ out[o][j] = m2

(* No two outputs disagree on the order of two messages, and no output gets *)
(* a message twice, although a message reaches its outputs one at a time.   *)
SameOrder ==
  \A o1, o2 \in Outputs : \A i, j \in DOMAIN out[o1] :
    i < j => ~Before(o2, out[o1][j], out[o1][i])

(* Whenever s_mutex is free: a callback that is installed, or that still     *)
(* waits to be, was never closed, and one that was removed was closed exactly *)
(* once, by remove_callback or by remove_all_callbacks.                       *)
ClosedOnce ==
  owner = NoOne =>
    \A s \in Sinks :
      closes[s] = IF s \in Installed \cup fresh \cup {arg[t] : t \in Threads}
                  THEN 0 ELSE 1

(* A callback whose on_close was called receives no message and no flush     *)
(* afterwards (its user_data may be freed by then), even from a thread that  *)
(* passed the cutoff before the removal.                                     *)
NoUseAfterClose ==
  [][\A s \in Sinks : closes[s] > 0 =>
       UNCHANGED <<out[s], flushed[s]>>]_vars

(***************************************************************************)
(* Liveness.                                                               *)
(***************************************************************************)

(* In the buffered mode what an output was given becomes durable, as long as *)
(* its callback stays installed (on_close has to flush what it still holds). *)
EventuallyFlushed ==
  \A o \in {Stderr} \cup Flushable : \A n \in 1..MaxCalls :
    Len(out[o]) >= n ~> (flushed[o] >= n \/ (o # Stderr /\ closes[o] > 0))

(* Every call returns: no deadlock and no endless loop over the callbacks,   *)
(* including the LOG_F that remove_callback makes while it holds the mutex.  *)
CallsReturn == \A p \in Threads : pc[p] # "idle" ~> pc[p] = "idle"

=============================================================================
