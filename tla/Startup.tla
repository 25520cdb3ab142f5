------------------------------- MODULE Startup ------------------------------
(***************************************************************************)
(* The life of a program around its main: init, what main logs, shutdown,  *)
(* and the exit, where handlers of atexit and destructors of static        *)
(* objects run in the reverse order of their registration while the flush  *)
(* thread, which nobody joins, goes on.                                    *)
(*                                                                         *)
(* One callback stands for all.  It accepts every level, is added once, and *)
(* what it holds is not durable until it is flushed or closed, which it    *)
(* need not let anybody do.  The parts of FatalPath (signals, aborts) are  *)
(* left to that module.                                                    *)
(***************************************************************************)
EXTENDS CommandLine

CONSTANTS
  g_internal_verbosity,   (* The level of loguru's own messages.            *)
  MaxMessages             (* Bound: messages the program logs.              *)

ASSUME StartupAssumption ==
  /\ g_internal_verbosity \in Int
  /\ MaxMessages \in Nat

VARIABLES
  stage,                  (* Where the main thread is.                      *)
  g_preamble_header,
  buffered,               (* g_flush_interval_ms > 0                        *)
  on_close, on_flush,     (* Whether the callback has them: both may be     *)
                          (* left out of add_callback.                      *)
  s_current_dir,          (* FALSE: it is "", for getcwd failed.            *)
  on_stderr,              (* What init wrote to stderr, in order.           *)
  atexit_handler,         (* on_atexit is registered.                       *)
  installed,              (* The callback is in s_callbacks ...             *)
  dead,                   (* ... and s_callbacks has been destroyed.        *)
  s_needs_flushing,
  s_mutex,                (* "free", or who holds it: "main" or "flusher".  *)
  flusher,                (* The flush thread: "unborn", "idle", "flush"    *)
                          (* (it saw s_needs_flushing) or "flushing".       *)
  logged, durable,        (* Messages the callback was given, and kept.     *)
  messages,               (* Messages the program logged.                   *)
  owed,                   (* History: what was logged and said by the time  *)
                          (* of on_atexit's flush; whether the flush thread *)
  on_its_way,             (* was about to flush when that one ended;        *)
  dead_use                (* and who used s_callbacks after its destructor. *)

settings == <<g_preamble_header, buffered, on_close, on_flush>>
history  == <<owed, on_its_way>>
inits    == <<s_current_dir, on_stderr, atexit_handler>>
outputs  == <<installed, dead, s_needs_flushing, s_mutex, flusher, logged,
              durable, dead_use>>
program  == <<stage, settings, history, inits, outputs, messages>>

NotStarted ==
  /\ stage = "before"
  /\ g_preamble_header \in BOOLEAN /\ buffered \in BOOLEAN
  /\ on_close \in BOOLEAN /\ on_flush \in BOOLEAN
  /\ s_current_dir = FALSE /\ on_stderr = <<>> /\ atexit_handler = FALSE
  /\ installed = FALSE /\ dead = FALSE
  /\ s_needs_flushing = FALSE /\ s_mutex = "free" /\ flusher = "unborn"
  /\ logged = 0 /\ durable = 0 /\ messages = 0
  /\ owed = [logged |-> 0, messages |-> 0] /\ on_its_way = FALSE
  /\ dead_use = {}

-----------------------------------------------------------------------------
Go(from, to) == stage = from /\ stage' = to

UseCallbacks(who) == dead_use' = dead_use \cup (IF dead THEN {who} ELSE {})

(* A callback without on_flush is passed over by whoever flushes.          *)
CanFlush == installed /\ ~dead /\ on_flush

(* n messages of a level, all that LoguruCore tells in detail.  A callback  *)
(* that is destroyed with s_callbacks is still in s_max_out_verbosity.      *)
LogF(n, verbosity) ==
  /\ s_mutex = "free"
  /\ IF verbosity <= g_stderr_verbosity \/ installed
     THEN /\ logged' = IF installed /\ ~dead THEN logged + n ELSE logged
          /\ durable' = IF ~buffered /\ CanFlush THEN logged + n ELSE durable
          /\ s_needs_flushing' = (s_needs_flushing \/ buffered)
          /\ flusher' = IF buffered /\ flusher = "unborn" THEN "idle" ELSE flusher
          /\ UseCallbacks("main")
     ELSE UNCHANGED <<logged, durable, s_needs_flushing, flusher, dead_use>>
  /\ UNCHANGED <<installed, dead, s_mutex>>

(* init's messages on stderr. *)
Tell(texts, verbosity) ==
  on_stderr' = IF verbosity <= g_stderr_verbosity THEN on_stderr \o texts ELSE on_stderr

(***************************************************************************)
(* init(argc, argv, options)                                               *)
(***************************************************************************)
CallInit ==
  /\ Go("before", "getcwd")
  /\ UNCHANGED <<args, settings, history, inits, outputs, messages>>

(* The warning comes before the arguments say what to log; without          *)
(* options.verbosity_flag they never do.                                    *)
GetCwd ==
  /\ stage = "getcwd" /\ stage' \in {"parse", "header"}
  /\ s_current_dir' \in BOOLEAN
  /\ IF s_current_dir' THEN UNCHANGED <<on_stderr, outputs>>
     ELSE Tell(<<"warning">>, Verbosity_WARNING) /\ LogF(1, Verbosity_WARNING)
  /\ UNCHANGED <<args, atexit_handler, settings, history, messages>>

Parse ==
  /\ stage = "parse"
  /\ ParseNext
  /\ stage' = CASE parsing' = "loop"  -> "parse"
                [] parsing' = "abort" -> "aborted"
                [] parsing' = "done"  -> "header"
  /\ UNCHANGED <<settings, history, inits, outputs, messages>>

HeaderAnyway ==   \* mutant: whatever g_stderr_verbosity is
  /\ Go("header", "messages")
  /\ on_stderr' = IF g_preamble_header THEN Append(on_stderr, "header") ELSE on_stderr
  /\ UNCHANGED <<args, settings, history, s_current_dir, atexit_handler,
                 outputs, messages>>

(* Straight to stderr: the header is not a message and no callback gets it. *)
Header ==
  /\ Go("header", "messages")
  /\ on_stderr' = IF g_stderr_verbosity >= Verbosity_INFO /\ g_preamble_header
                  THEN Append(on_stderr, "header") ELSE on_stderr
  /\ UNCHANGED <<args, settings, history, s_current_dir, atexit_handler,
                 outputs, messages>>

(* The arguments, the directory if known, the verbosity and a rule. *)
OwnLines == [k \in 1..(IF s_current_dir THEN 4 ELSE 3) |-> "line"]

Messages ==
  /\ Go("messages", "atexit")
  /\ Tell(OwnLines, g_internal_verbosity)
  /\ LogF(Len(OwnLines), g_internal_verbosity)
  /\ UNCHANGED <<args, settings, history, s_current_dir, atexit_handler, messages>>

(* install_signal_handlers, which FatalPath models, and atexit(on_atexit). *)
AtExit ==
  /\ Go("atexit", "main")
  /\ atexit_handler' = TRUE
  /\ UNCHANGED <<args, settings, history, s_current_dir, on_stderr, outputs, messages>>

(***************************************************************************)
(* The program logs before init and in main, and from the destructors of   *)
(* its static objects.                                                     *)
(***************************************************************************)
Log ==
  /\ stage \in {"before", "main", "late_objects", "early_objects", "older_objects"}
  /\ messages < MaxMessages
  /\ messages' = messages + 1
  /\ LogF(1, Verbosity_INFO)
  /\ UNCHANGED <<args, stage, settings, history, inits>>

AddCallback ==
  /\ stage \in {"before", "main"} /\ ~installed /\ logged = 0
  /\ s_mutex = "free"
  /\ installed' = TRUE
  /\ UNCHANGED <<args, stage, settings, history, inits, messages, dead,
                 s_needs_flushing, s_mutex, flusher, logged, durable, dead_use>>

(* shutdown(): a message, then remove_all_callbacks, which calls on_close    *)
(* where there is one, and that keeps what the callback holds; nobody calls  *)
(* on_flush.  It also drops the fatal handler and the callbacks for names.   *)
Shutdown ==
  /\ Go("main", "shutdown")
  /\ LogF(1, g_internal_verbosity)
  /\ UNCHANGED <<args, settings, history, inits, messages>>

RemoveAll ==
  /\ Go("shutdown", "main")
  /\ s_mutex = "free"
  /\ installed' = FALSE
  /\ durable' = IF on_close THEN logged ELSE durable
  /\ UNCHANGED <<args, settings, history, inits, messages, dead,
                 s_needs_flushing, s_mutex, flusher, logged, dead_use>>

(***************************************************************************)
(* exit().  Objects made after init go first, then on_atexit, then objects *)
(* made before init, then s_callbacks, then objects older than that.       *)
(***************************************************************************)
Exit ==
  /\ stage \in {"before", "main"} /\ stage' = "late_objects"
  /\ UNCHANGED <<args, settings, history, inits, outputs, messages>>

OnAtexit ==
  /\ stage = "late_objects" /\ atexit_handler
  /\ stage' = "flush"
  /\ LogF(1, g_internal_verbosity)
  /\ owed' = [logged |-> logged', messages |-> messages]
  /\ UNCHANGED <<args, settings, on_its_way, inits, messages>>

NoAtexit ==
  /\ ~atexit_handler
  /\ Go("late_objects", "early_objects")
  /\ UNCHANGED <<args, settings, history, inits, outputs, messages>>

BeginFlush(who) ==
  /\ s_mutex = "free" /\ s_mutex' = who
  /\ UseCallbacks(who)
  /\ UNCHANGED <<installed, dead, s_needs_flushing, logged, durable>>

KeepFlag(who) ==   \* mutant: s_needs_flushing stays set
  /\ s_mutex = who /\ s_mutex' = "free"
  /\ durable' = IF CanFlush THEN logged ELSE durable
  /\ UseCallbacks(who)
  /\ UNCHANGED <<installed, dead, s_needs_flushing, logged>>

EndFlush(who) ==
  /\ s_mutex = who /\ s_mutex' = "free"
  /\ durable' = IF CanFlush THEN logged ELSE durable
  /\ UseCallbacks(who)
  /\ s_needs_flushing' = FALSE
  /\ UNCHANGED <<installed, dead, logged>>

LeaveTheRest ==   \* mutant: on_atexit leaves the rest to the flush thread
  /\ Go("flush", "early_objects")
  /\ UNCHANGED <<args, settings, history, inits, outputs, messages>>

AtexitFlush ==
  /\ Go("flush", "flushing")
  /\ BeginFlush("main")
  /\ UNCHANGED <<args, settings, history, inits, flusher, messages>>

AtexitFlushed ==
  /\ Go("flushing", "early_objects")
  /\ EndFlush("main")
  /\ on_its_way' = (flusher = "flush")
  /\ UNCHANGED <<args, settings, owed, inits, flusher, messages>>

(* ~s_callbacks does not take the mutex. *)
DestroyCallbacks ==
  /\ Go("early_objects", "older_objects")
  /\ dead' = TRUE
  /\ UNCHANGED <<args, settings, history, inits, messages, installed,
                 s_needs_flushing, s_mutex, flusher, logged, durable, dead_use>>

EndProcess ==
  /\ Go("older_objects", "end")
  /\ UNCHANGED <<args, settings, history, inits, outputs, messages>>

(***************************************************************************)
(* The flush thread, until the process ends.                               *)
(***************************************************************************)
Flusher(from, to) ==
  /\ stage \notin {"end", "aborted"}
  /\ flusher = from /\ flusher' = to
  /\ UNCHANGED <<args, stage, settings, history, inits, messages>>

Poll ==
  /\ Flusher("idle", "flush")
  /\ s_needs_flushing
  /\ UNCHANGED <<installed, dead, s_needs_flushing, s_mutex, logged, durable, dead_use>>

ThreadFlush   == Flusher("flush", "flushing") /\ BeginFlush("flusher")
ThreadFlushed == Flusher("flushing", "idle")  /\ EndFlush("flusher")

StartNext ==
  \/ CallInit \/ GetCwd \/ Parse \/ Header \/ Messages \/ AtExit
  \/ Log \/ AddCallback \/ Shutdown \/ RemoveAll
  \/ Exit \/ OnAtexit \/ NoAtexit \/ AtexitFlush \/ AtexitFlushed
  \/ DestroyCallbacks \/ EndProcess
  \/ Poll \/ ThreadFlush \/ ThreadFlushed

StartInit == ParseInit /\ NotStarted
StartSpec == StartInit /\ [][StartNext]_<<args, program>>

-----------------------------------------------------------------------------
(* Where on stderr init says something but a warning, and that the first of  *)
(* these is the header.                                                      *)
Said        == {n \in DOMAIN on_stderr : on_stderr[n] # "warning"}
HeaderFirst == \E n \in Said : on_stderr[n] = "header" /\ \A m \in Said : n <= m

(* A level below INFO on the command line keeps init itself off stderr, and  *)
(* otherwise the header comes before the first line that init logs there:    *)
(* only a warning about the directory does not wait for the arguments.       *)
HeaderOnTop ==
  /\ g_stderr_verbosity < Min({Verbosity_INFO, g_internal_verbosity}) => Said = {}
  /\ g_internal_verbosity >= Verbosity_INFO /\ g_preamble_header /\ Said # {}
       => HeaderFirst

(* What was logged until on_atexit, by main, by the destructors of objects   *)
(* made after init and by loguru itself, is durable in the end, buffered or  *)
(* not, if the callback has an on_flush, and after a shutdown if it has an   *)
(* on_close too: what removes a callback does not flush it.                  *)
Keeps            == on_flush /\ (installed \/ on_close)
ExitLosesNothing == stage = "end" /\ Keeps => durable >= owed.logged

(* A program that called init and logs nothing after on_atexit may end while *)
(* the flush thread runs: that thread does not look at the callbacks again   *)
(* once they are destroyed, unless it was on its way to a flush already.     *)
DeadCallbacksUnused ==
  atexit_handler /\ dead_use # {} => on_its_way \/ messages > owed.messages

=============================================================================
