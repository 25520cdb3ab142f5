# loguru in TLA+

Models of [loguru](https://github.com/emilk/loguru), a logging library for C++ that is one source
file and one header (`src/loguru.cpp`, `src/loguru.hpp`), with the TLC configurations that check
them and the theorems the TLA+ proof system proves about them. Line numbers below are those of
`src/loguru.cpp` unless another file is named. `PROJECT.json` maps each definition to the lines it
stands for, and lists the hazards of the code with the properties that guard them.

The modules describe the POSIX build with `LOGURU_PTLS_NAMES` or pthreads, with and without
`LOGURU_WITH_FILEABS`.

## 1. The system

loguru is called by the threads of a program. It has one thread of its own (the flush thread) and
one lock, the recursive mutex `s_mutex`. Everything shared is a file-level variable.

| part | state | operations | correct when |
|---|---|---|---|
| message delivery | `s_mutex`, what each output was given | `LOG_F` → `log` → `log_to_everywhere` → `log_message` (1386–1534), `current_verbosity_cutoff` (1013) | a message reaches every output that wants it, once; outputs agree on the order; an unbuffered message is durable when `LOG_F` returns |
| callback registry | `s_callbacks`, `s_max_out_verbosity` | `add_callback`, `remove_callback`, `remove_all_callbacks`, `on_callback_change` (914–1011) | the cached cutoff is the maximum; `on_close` once; no use afterwards |
| flushing | `s_needs_flushing`, `s_flush_thread`, `g_flush_interval_ms` | `flush` (1536), the thread's loop (1455–1464) | what was written becomes durable and no mark is lost |
| log scopes | `s_stderr_indentation`, `Callback::indentation` | `LogScopeRAII::Init` and destructor (1549–1615) | an output is indented by the scopes that are open on it |
| file callbacks | the `FILE*`, `FileAbs` | `add_file` (788–843), `file_log`, `file_flush`, `file_close`, `file_reopen` (291–371) | headers whole, no stream lost or used after `fclose`; a rotation is noticed, and of the messages around it each is in some inode the file had |
| fatal path | `s_fatal_handler` | the FATAL parts of `log_message` (1391–1401, 1466–1483), `log_and_abort` | the last words are durable, in one block, and the process ends |
| signals | `s_signal_options`, the signal dispositions | `install_signal_handlers`, `signal_handler`, `call_default_signal_handler` (1912–2023) | a caught signal is logged and ends the process; loguru's own abort is not caught |
| error context | a list of `EcEntryBase` per thread, in its stack frames | `EcEntryBase`, `EcEntryData`, `get_error_context_for`, `get_thread_ec_handle` (1699–1886) | entries printed oldest first, each alive |
| startup, shutdown | `s_argv0_filename`, `s_arguments`, the atexit handler | `init`, `shutdown`, `on_atexit` (536–679) | what was logged before exit is flushed; nobody uses the callbacks after their destructor |
| command line | `argc`, `argv` | `parse_args` (467–516) | only loguru's flag is taken, and it sets the verbosity |
| preamble, names | thread names, verbosity names, column widths | `print_preamble`, `print_preamble_header`, `get_verbosity_name`, `get_thread_name` (937–952, 1067–1117, 1254–1384) | columns line up and fit; levels are told apart |
| stack traces | `s_user_stack_cleanups` | `add_stack_cleanup`, `do_replacements`, `prettify_stacktrace`, `stacktrace` (904–913, 1152–1229) | a line per frame, in order; the rewriting ends |
| paths, text, streams | none | `filename`, `create_directories`, `suggest_log_path`, `textprintf`, `format_value`, `LOG_S` | see section 6 |

How the parts meet. `log_message` holds `s_mutex` while it writes `stderr`, calls every callback's
handlers and, for FATAL, the fatal handler. The same mutex guards the registry, `flush`, and the
body and destructor of scopes. Four things are read without it: `s_max_out_verbosity` and
`g_stderr_verbosity` by every logging macro, `s_needs_flushing` by the flush thread, and the raw
`FILE*` that `add_file` keeps for its header. `remove_callback`, `file_reopen`,
`signal_handler` and the stack-trace code call the logging functions again from inside loguru,
on the same thread, which is why the mutex is recursive.

What is hard about it: the unlocked reads against `on_callback_change`, which lets the cutoff drop to
`OFF` and climb back (916); modes that change during a call (`g_flush_interval_ms` is read once per
output); a flag cleared by one thread and tested by another (1458, 1546); re-entrance while a
callback is half-way through its own work (348); scopes that end in any order (1575); signals at
any instruction; and a process that dies with text in its buffers.

## 2. The modules

| module | models | state and actions against the code |
|---|---|---|
| `LoguruCore` | delivery, registry, flushing | `pc[p]` is where thread `p` is in its call. A step is an unlocked read, the lock, one write to an output, one handler call, or one assignment others read without the lock. `owner`, `depth` are the recursive mutex; `out[o]`, `flushed[o]` what an output got and how much is durable. `ReadCutoff`/`RereadCutoff` are the two reads of 1016; `WriteStderr`, `CallSink`, `FlushSink`, `EndLog` are 1407–1464; `ResetCutoff`, `RaiseCutoff` the loop of 916–919; `Poll` the thread's test (1458) |
| `LogService` | what the core promises | a message is delivered in one step to exactly the outputs attached at that moment that want it, or dropped when none wants it or while the callbacks change |
| `LogDelivery` | the core as `LoguruCore` and as an implementation of `LogService` | adds two history variables, `owed` and `disturbed`; the refinement mapping is `Service` |
| `LogScope` | scopes | `Enter` is the check of the cutoff, `Open` the rest of `Init` (1594–1615), `Leave` the destructor (1564–1592); callbacks and `g_stderr_verbosity` change in between |
| `FileAbs` | `LOGURU_WITH_FILEABS` | one stack of `log_message` calls, since all runs with the mutex held; `FileLog`…`Fprintf` are `file_log` and `file_reopen` statement by statement; `disk` is the inode at each path, `text` what is in an inode, `fp` the inode a stream writes to; `FopenFound`, `FopenMakes` are `fopen` in the mode of the file; `Rotate` is the other program, which moves, deletes, replaces or puts back |
| `LogFile` | `add_file` | a stream per `fopen`; what holds the mutex is one step, what `add_file` does without it one step per call of stdio |
| `FatalPath` | FATAL and signals | a thread is a stack of calls, a signal pushes one. The mutex is held by the calls between their `lock_guard` and their end, so that returning, or an exception thrown by the fatal handler, is what unlocks. `options` is `s_signal_options`, any value of it; `libc` is the call that is inside `malloc`, `localtime_r` or `backtrace`, whose locks are not recursive |
| `ErrorContext` | the error context | an address is a thread and a depth, so that a new scope reuses an old one's; `Construct`/`Constructed` and `Destroy`/`Destroyed` are the two halves of constructor and destructor, between which a signal may print; `walk` is the cursor and the `stack` of `get_error_context_for`, and of the calls nested in it by handles; `Collect`, `PrintValue`, `Return` its two loops |
| `CommandLine` | `parse_args` | one argument a step; `arg_it`, `arg_dest`, `out_argc` are the code's |
| `Startup` | `init` to the end of the process | extends `CommandLine`: `Parse` is a step of it. `stage` is the main thread; `exit` runs the destructors of objects made after `init`, `on_atexit`, those made before, `~s_callbacks`, and the oldest; `flusher` is the flush thread through all that; `on_flush`, `on_close` say what the callback was added with |
| `LogLine` | header and preamble | one `snprintf` a step, with the `pos` and the room the code computes; `level_buff` is what four characters show of a level |
| `StackTrace` | stack traces | `stacktrace` makes the text, `Replace` is one turn of `do_replacements`, `NextRule` its end for one pair |
| `LoguruCoreProofs`, `ServiceProofs` | theorems about `LoguruCore` and `LogDelivery` | see section 5 |
| `FileAbsProofs`, `LogFileProofs`, `LogScopeProofs`, `FatalProofs` | theorems about `FileAbs`, `LogFile`, `LogScope` and `FatalPath` | see section 5 |
| `ErrorContextProofs` | theorems about `ErrorContext` and `StackTrace`, the two texts that are put together from parts | see section 5 |
| `ProgramProofs` | theorems about `CommandLine`, `Startup` and `LogLine` | see section 5 |
| `MC…` | values for TLC | functions a `.cfg` cannot write, and symmetry. `MCFatalPath` names the threads in the order in which they first act, a symmetry that liveness allows. `MCProgram` runs `Startup` (and with it `CommandLine`), `LogLine` and `StackTrace`, one per behaviour |

What composes what: `LogDelivery` extends `LoguruCore` and instantiates `LogService`. `Startup` extends
`CommandLine`. `LogScope`, `FileAbs`, `LogFile`, `FatalPath` and `Startup` are coarser about delivery
than `LoguruCore`: they let one call deliver to all callbacks in one step. `AtomicDelivery` is what
justifies that, and it is a theorem.

Definitions whose comment begins with `mutant:` are wrong variants of the definition below them. They
are not used by any specification: each property of a passing run is violated when the definition
is replaced by its variant, so that it is known to depend on that piece of code.

## 3. The runs

`tlc -workers 2 -config <cfg> <module>` for each; all end within three minutes on two cores.

| run (cfg, module) | instance | shows |
|---|---|---|
| `core_toggle` (`LoguruCore_toggle`, `MCLoguruCore`) | 2 threads and the flush thread, 2 callbacks, one without `on_flush`, 3 calls, `g_flush_interval_ms` assigned 0 or 100 at any moment | `TypeOK`, `CutoffExact`, `NothingForgotten`, `SameOrder`, `ClosedOnce`, `NoUseAfterClose` |
| `core_live` (`LoguruCore_live`, `MCLoguruCore`) | the same, always buffered, no symmetry | `EventuallyFlushed`, `CallsReturn` |
| `delivery_pass` (`LogDelivery_pass`, `MCLogDelivery`) | unbuffered, both callbacks under one id (the lookup of `remove_callback` finds the first), 4 calls, so that a message can meet an add and a removal | `HardCrashLosesNothing`, `DeliveredIfUndisturbed`, and the core implements `LogService` (`AtomicDelivery`) |
| `delivery_owed` (`LogDelivery_owed`) | the same | violated: `DeliveredToOwed` |
| `scope_pass` (`LogScope_pass`, `MCLogScope`) | 2 threads, 4 scopes at two levels, 2 callbacks of different verbosity | `StderrExact`, `SinkIndentation` |
| `scope_late` (`LogScope_late`) | the same | violated: `ScopeIndentsCallbacks` |
| `fileabs_pass` (`FileAbs_pass`, `MCFileAbs`) | 2 files, one in each mode (reopening one logs into the other, which may reopen too), 3 inodes, 2 messages, `mkdir` and `fopen` may fail | `NoUseOfClosedStream`, `ReopenNotRecursive`, `NothingLostByRotation`, `StreamIsCurrent` |
| `fileabs_unbuffered` (`FileAbs_unbuffered`) | `g_flush_interval_ms = 0` | violated: `NoUseOfClosedStream` |
| `fatal` (`FatalPath`, `MCFatalPath`) | 2 threads, 2 signals, every signal options, a fatal handler that returns, logs or throws, 2 calls, one signal from outside | `TypeOK`, `LastWordsDurable`, `FatalBlock`, `NoOwnAbortCaught`, `HandlerNestsBoundedly`, `FatalNeverReturns`, `SignalEndsProcess` |
| `logfile_pass` (`LogFile_pass`, `MCLogFile`) | 2 threads, 2 paths, 2 streams, 2 messages, both modes, a header of two lines | `HeaderWhole`, `NoStreamLost` |
| `context` (`ErrorContext`, `ErrorContext`) | 2 threads, each with up to 2 contexts open and 4 made in all, handles both ways, a signal at any moment | `ReadsAlive`, `PrintsTheContext`, `OnlyNewestIncomplete`, `WalkEnds` |
| `program` (`Program`, `MCProgram`) | every command line of up to 3 arguments; a program that logs twice, buffered or not, with and without `init` and `shutdown`, `on_flush` and `on_close`; a header and a line, with and without `g_preamble`, names of levels longer than four characters; traces of up to 3 frames under up to 2 clean-ups | `ProgramKeepsItsArguments`, `LastFlagDecides`; `HeaderOnTop`, `ExitLosesNothing`, `DeadCallbacksUnused`; `UnderItsHeader`, `NothingCut`, `LevelsToldApart`; `EachFrameCleaned`, `CleanupEnds` |

Why the bounds are enough. The hazards of the core are between two calls, or between one call and the
flush thread; the third and fourth calls put a callback in the table first. Two callbacks are the
least for which "first of that id", "order" and "maximum of several" mean something; for more the
theorems speak. Two scopes of one thread and two of another give every order of ending. Three inodes let
one of the two files get a new one while its old one is kept, deleted or put back, and let inodes run out,
which is a failing `fopen`; for more the theorems speak. In `fatal` one signal from outside is enough for nesting,
because `abort()` called by the program raises a second one, and a fatal message makes the third entry
of the handler. In `context` a depth of 2 is a context that holds a handle to another thread's second
one, and 4 entries let an address be used again while a walk is under way. In `program`, three
arguments are a flag, its value and one that is kept, or two flags and the program's own; `IntMax` and
`LongMax` are small ranges with the relation of the real ones (the one of `long` a multiple of that of
`int`), with numbers inside the first and past both ends of the second; `NameWidths`, `Files`,
`LineNumbers` and `Uptimes` have values that fill a column and values that do not fit; one custom name of a
level has four characters and two are cut to four; of the names in a trace one just fits `buf`, one is shorter
and one is too long, and `max_frames` lets a trace be cut and not be. The mutants show that no property holds
for lack of cases.

`CHECK_DEADLOCK FALSE` is set for `FatalPath` and `ErrorContext`, whose processes may end by a signal
or a crash, for `Program`, where a parse, a line, a trace and a process end, and for `LogFile`, which
stops when its bounds are reached; `LoguruCore` has the explicit `Finished` instead, and a deadlock
there is an error.

### Fairness

`LoguruCore!Fairness` is weak fairness of each process's steps and of the flush thread's poll: a
thread inside loguru keeps running, and the flush thread's `sleep_for` returns again and again.
Nothing obliges the program to call, and a waiter for `s_mutex` is not promised its turn while others
keep taking it: a run has a bounded number of calls, so the lock comes free. `FatalPath!FairSpec` is
weak fairness of the steps inside calls and of leaving the C library (`MCFatalPath!MCSpec` has the same); no signal has to arrive.
`ErrorContext!FairSpec` is weak fairness of a walk, and `MCProgram!Spec` of `do_replacements`: loops
of one thread that nothing blocks.

### What the violated runs show

* `delivery_owed`. `on_callback_change` assigns `Verbosity_OFF` to `s_max_out_verbosity` before it takes
  the maximum again (916), and `LOG_F` reads it without the mutex (1016). A message that is logged in that
  moment is lost for callbacks that were installed before and stay installed, against `loguru.hpp:580`
  and "Thread-safe" (`README.md:67`). The same holds of `LOG_F(FATAL, …)` when `stderr` is off: it
  is filtered out and does not abort (set `StderrOff` in `FatalPath.cfg`).
* `scope_late`. The destructor takes one step from each callback that has one, not from those it
  indented (1575): a callback added inside a scope loses the indentation of a later scope.
* `fileabs_unbuffered`. `file_reopen` logs between `fclose` and `fopen`; with a flush interval of 0
  `log_message` then calls `file_flush` on the closed stream (346, 1448). `NoUseOfClosedStreamCorrect`
  is the theorem that any other interval is safe.

Things that are as they are, and are not runs. `file_log` compares a duration truncated to seconds with 0 (302), so
the check is made once a second; `FileAbs` has it as `due`. `st_ino` is taken from the path after `fopen` (365), so
a file replaced just then is not noticed (`RotateInReopen`, off in `fileabs_pass`). What is logged between a move or a
deletion and the next check, up to a second later, goes to the old inode, and is gone if that was deleted: so
`NothingLostByRotation` is about the inodes the file had, not about the paths. A reopening with `FileMode::Truncate`
empties a file that was put back (361). `add_file` publishes the callback (819) before it prints the header (824–839), so a message of another thread may come first. A signal in the
middle of a context's constructor or destructor calls a pure virtual function (`OnlyNewestIncomplete` says what was
printed by then). The flush thread may still use `s_callbacks` after its destructor if it was on its way to a flush
when `on_atexit` ended, or if the program logs later (`DeadCallbacksUnused` says that nothing else leads there).
`-v=` is level 0, a number that an `int` cannot hold becomes its low bits, which may be OFF, and one too large
for `long` becomes WARNING or INFO (`LastFlagDecides`). The preamble is out of line from 10 000 seconds on, and a character is cut after 100 000 (`UnderItsHeader`, `NothingCut`). Without
`g_preamble` lines have no columns (1307), but the header is still printed with them (1254). Of a level's name four
characters are shown (1326): custom names like DEBUG1 and DEBUG2 look the same, and WARNING looks like loguru's WARN.
`shutdown` logs and then removes the callbacks without a flush (672–679): one with `on_flush` and no `on_close` keeps
what it buffered. `loguru.hpp:384` says that `g_internal_verbosity` is also the verbosity of the header of `init`;
but `init` prints the header on stderr whenever `g_stderr_verbosity` is INFO or more (647), which is what `Header` does.

## 4. Abstractions

* A message is who logged it, the number of its call and its verbosity; its text, preamble and
  formatting are left out.
* `out` and `flushed` stand for any output. A hard crash loses the text after `flushed`; it is not an
  action, since every property about it is a property of each state.
* The program assigns `g_stderr_verbosity` before it logs, except in `LogScope`, where it does so at any
  moment. Its racy reads elsewhere are those of a plain `int`.
* Each `user_data` is added at most once, and removed callbacks do not come back under the same
  `user_data`. Handlers do not call loguru, except `file_log` (in `FileAbs`) and the fatal handler.
* Use of a callback, for `NoUseAfterClose`, is a change of what its output has or has durable: a flush with nothing
  to flush is not seen. `LogService!Drop` says nothing of what stderr wanted; `DeliveredIfUndisturbed` does.
* `LogScope` reads an exact cutoff: the transient one only switches a scope off.
* `FatalPath` keeps one log for all outputs. Its fatal handler does not itself fail fatally
  (`loguru.hpp:572` forbids it). Where loguru allocates, asks for the local time
  or unwinds (`vtextprintf` 432, `print_preamble` 1311, the stack trace 1393, the error context 1764–1791, `push_back`
  and the strings of `add_callback`, a callback such as `file_log` with its `fopen`), the call is in the C library for a
  while, where a signal may find it, and so may the program's own calls. The locks of the C library are one, and it is
  free for other threads soon. The `write()` calls of the signal handler are one step.
* `LogFile` leaves out two streams open on one path at once, what was in a file before it was opened, and
  the removal of a callback whose `add_file` has not returned: the header is then printed to a closed
  `FILE*`, and what follows is undefined.
* In `FileAbs` an inode is made for one path, and one that was deleted is not used again: inode numbers that the file
  system gives twice are left out. A null stream (`fopen` failed) makes `fflush(NULL)`, which
  flushes everything and harms nothing.
* In `ErrorContext` the program keeps the rule of `loguru.hpp` that a handle is not used after the scope
  it points to: a scope ends only when no handle to it is left. `ec_to_text` of plain values is left out.
* In `CommandLine` an argument is what the code looks at: does it begin with the flag, how many `=`
  follow, and a word. What `cmd[arg_len]` reads past the end of a short argument is any byte (479).
  `strtol` is external: it reads a whole word, a beginning, or nothing.
* `Startup` has one callback, added once, that keeps text until it is flushed or closed, if it has
  handlers for that; signals are `FatalPath`'s. `getcwd` may fail.
* In `LogLine` a text is its width, but the name of a level, of which only what four characters show is known
  (`FourLetters`, `FourDigits`, with `ShownAssumption` for loguru's own names and the numbers);
  in `StackTrace` it is a sequence over three letters, for which words the rewriting rules loop is all that matters. Unwinding and demangling give any names.

## 5. What is proved

`tlapm <module>.tla` proves, for any number of threads, callbacks, ids, levels, files, scopes, contexts,
signals and calls:

| module, theorem | statement | its property is also checked by |
|---|---|---|
| `LoguruCoreProofs!TypeCorrect` | `Spec => []TypeOK` | `core_toggle` |
| `LoguruCoreProofs!CutoffCorrect` | `Spec => []CutoffExact` | `core_toggle` |
| `LoguruCoreProofs!CoreInvariant` | `Spec => []CoreInv`, on which all below rests | |
| `LoguruCoreProofs!ClosedOnceCorrect` | `Spec => []ClosedOnce` | `core_toggle` |
| `LoguruCoreProofs!NoUseAfterCloseCorrect` | `Spec => NoUseAfterClose` | `core_toggle` |
| `LoguruCoreProofs!NothingForgottenCorrect` | `Spec => []NothingForgotten` | `core_toggle` |
| `LoguruCoreProofs!HardCrashCorrect` | `FlushIntervals = {0} => (Spec => []HardCrashLosesNothing)` | `delivery_pass` |
| `ServiceProofs!SameOrderCorrect` | `Spec => []SameOrder` | `core_toggle` |
| `ServiceProofs!ServiceImplemented` | `DSpec => AtomicDelivery` | `delivery_pass` |
| `ServiceProofs!DeliveredIfUndisturbedCorrect` | `DSpec => DeliveredIfUndisturbed` | `delivery_pass` |
| `FileAbsProofs!NoUseOfClosedStreamCorrect` | `g_flush_interval_ms > 0 => (Spec => []NoUseOfClosedStream)` | `fileabs_pass` |
| `FileAbsProofs!ReopenNotRecursiveCorrect` | `Spec => []ReopenNotRecursive` | `fileabs_pass` |
| `FileAbsProofs!NothingLostCorrect` | `Spec => []NothingLostByRotation` | `fileabs_pass` |
| `FileAbsProofs!StreamIsCurrentCorrect` | `~RotateInReopen => (Spec => []StreamIsCurrent)` | `fileabs_pass` |
| `LogFileProofs!HeaderWholeCorrect` | `Spec => []HeaderWhole` | `logfile_pass` |
| `LogFileProofs!NoStreamLostCorrect` | `Spec => []NoStreamLost` | `logfile_pass` |
| `LogScopeProofs!StderrExactCorrect` | `Spec => []StderrExact` | `scope_pass` |
| `LogScopeProofs!SinkIndentationCorrect` | `Spec => []SinkIndentation` | `scope_pass` |
| `FatalProofs!TypeCorrect` | `Spec => []TypeOK` | `fatal` |
| `FatalProofs!LastWordsCorrect` | `Spec => []LastWordsDurable` | `fatal` |
| `FatalProofs!NoOwnAbortCorrect` | `Spec => []NoOwnAbortCaught` | `fatal` |
| `FatalProofs!FatalNeverReturnsCorrect` | `~StderrOff => (Spec => []FatalNeverReturns)` | `fatal` |
| `FatalProofs!FatalBlockCorrect` | `Spec => []FatalBlock` | `fatal` |
| `FatalProofs!HandlerNestsCorrect` | `Spec => []HandlerNestsBoundedly` | `fatal` |
| `ErrorContextProofs!ReadsAliveCorrect` | `Spec => []ReadsAlive` | `context` |
| `ErrorContextProofs!PrintsTheContextCorrect` | `Spec => []PrintsTheContext` | `context` |
| `ErrorContextProofs!OnlyNewestIncompleteCorrect` | `Spec => []OnlyNewestIncomplete` | `context` |
| `ErrorContextProofs!EachFrameCleanedCorrect` | `TraceSpec => []EachFrameCleaned` | `program` |
| `ProgramProofs!ProgramKeepsItsArgumentsCorrect` | `ParseSpec => []ProgramKeepsItsArguments` | `program` |
| `ProgramProofs!LastFlagDecidesCorrect` | `ParseSpec => []LastFlagDecides` | `program` |
| `ProgramProofs!StartParses` | `StartSpec => ParseSpec`: `init` parses as `parse_args` does | |
| `ProgramProofs!HeaderOnTopCorrect` | `StartSpec => []HeaderOnTop` | `program` |
| `ProgramProofs!ExitLosesNothingCorrect` | `StartSpec => []ExitLosesNothing` | `program` |
| `ProgramProofs!DeadCallbacksUnusedCorrect` | `StartSpec => []DeadCallbacksUnused` | `program` |
| `ProgramProofs!NothingCutCorrect` | `LineSpec => []NothingCut` | `program` |
| `ProgramProofs!UnderItsHeaderCorrect` | `LineSpec => []UnderItsHeader` | `program` |
| `ProgramProofs!LevelsToldApartCorrect` | `LineSpec => []LevelsToldApart` | `program` |

So every invariant and every action property that a passing run checks is a theorem; what the runs check
besides is liveness.

The assumptions are those the modules name. `LoguruCore`: `ProcsAssumption`, `SinksAssumption`,
`ValuesAssumption` (the names are distinct, verbosities are integers, intervals are naturals, what the
program logs is above FATAL). `FileAbs`: `FilesAssumption` (each file is once in the order of
`s_callbacks`, there is one, its mode is "a" or "w", and `None` is no inode). `LogScope`: `ScopeAssumption`. `FatalPath`:
`FatalAssumption`. `ErrorContext`: `ErrorContextAssumption` (the bounds are naturals, and null is no
address). `LogFile`: `LogFileAssumption`. `CommandLine`: `CommandLineAssumption` (the range of `int` is in
that of `long`, what `strtol` and the custom names give is a number). `Startup`: `StartupAssumption`. `LogLine`:
`LogLineAssumption` (widths are naturals, the least widths of two columns, no custom name is the null pointer) and
`ShownAssumption` (loguru's own names and the numbers -128 to 127 look different in four characters). `StackTrace`:
`StackTraceAssumption` (symbols and pairs are texts without line breaks). TLC evaluates them all.

Five statements have a hypothesis, the settings for which they are meant. `HardCrashLosesNothing` is what the
unbuffered mode is for; `fileabs_unbuffered` shows that `NoUseOfClosedStream` needs the other one. With
`g_stderr_verbosity` OFF a FATAL message can be filtered out (section 3). A file that is replaced between
`fopen` and `stat` is not noticed, which is `RotateInReopen`. `ExitLosesNothing` says `Keeps`: the callback has
`on_flush`, and `on_close` if it was removed. And names a program gives its levels tell them apart only if they
differ in what is shown of them, which is `TellingNames` inside `LevelsToldApart`.

*The core invariant.* `TypeOK` is not inductive by itself: `Erase` needs a position in the table, `EndLog`
a depth of at least 1, `FlushSink` a callback at its index. `LockInv` supplies the mutex (whoever is
inside a call that needs it is the owner, the depth is 0 exactly when there is none, and 2 only
while `remove_callback` logs) and `LocalInv` what a thread carries from step to step. Together they are
`CoreInv`. `NextCore` goes through the actions one by one. `RemoveAtType` is the lemma on erasing from
a sequence that several proofs need.

*The cutoff.* `CutoffExact` speaks of the moments when the mutex is free. In between, `CutoffInv` says:
where no thread is changing the table the cutoff is exact; in `recompute` at position `idx` it is the
maximum of the callbacks before `idx`; and after `Push`, `Erase` and `ClearAll` nothing is claimed until
`ResetCutoff`. At most one thread is in that region, by `LockInv`.

*The life of a callback.* `LifeInv`: a callback is in one place (not yet added, in the hands of one
thread, at one position of the table, or gone), and its `on_close` was called once exactly if it is gone
or about to be (`Closing`: between `on_close` and `erase`, or passed by `remove_all_callbacks`). Both
`ClosedOnce` and `NoUseAfterClose` follow, since only callbacks in the table are written or flushed.

*Flushing.* `FlushInv`: an output that `flush` reaches is durable, or `s_needs_flushing` is set, or the
thread that wrote to it is at its flush; a thread inside `flush` has made durable what is before its
position (`Passed`), which is why it may clear the mark; and a callback not yet in the table was given
nothing. In the unbuffered mode `CrashInv` says more: an output lacks at most its last message, and then
the call of that message is at the flush of that output.

*Order.* `OrderInv`: a message that waits to be logged is in no output; while it is logged it is the
last one in the outputs `log_message` has been at and in none of the others. So when it is appended it is
put after everything, everywhere (`Agree` is kept), and `Named` and `Early` keep two calls from having
the same message.

*The implementation of `LogService`.* `DeliveryInv` adds that the outputs that have the message are
exactly those that were reached and want it. The refinement mapping counts a message as delivered when
its call lets go of the mutex, so `EndLog` is `Deliver` (the whole table was reached, by `DeliveryInv`,
and is what is attached), a failed read of the cutoff is `Drop` (by `CutoffInv` no callback wants the
message, or the table is changing), `Push` and the two `on_close` steps are `Attach` and `Detach` (by
`LifeInv`), and every other step is a `Change` or a stutter. `CoreFacts` collects what the steps need.

*What the caller gets.* `OwedInv`: while no change of the callbacks has run since a call began, the
outputs owed its message are attached and want it, and the first of the two reads of the cutoff is
still true at the second. With `DeliveryInv`, at the end of the call they all have it.

*Reopening.* `ReopenInv` looks at the stack of calls of `log_message`: a call that waits for one above
it, or is inside `file_reopen`, has marked its file (`Marked`); no call above it gets past the test of
the mark for that file (`Passed`); a closed stream belongs to a call that is still to open it
(`Reopened`), a mark to one that is still to take it off (`Unmarked`). `TopStep` shows this of any step
of the innermost call that goes as `TopGoes` says; one lemma per action shows that it does. Then the
call at `fprintf` is the only one at its file past the test, so that the stream it uses is open, and the
flush thread, which runs when there is no call, finds no closed stream.

*What a rotation loses.* `HoldInv`: in the inodes a file had (`made`) there are, each message in one of them and in the
order of the calls, those of the calls that have come past it in `s_callbacks`, but for what was dropped because its
stream was null or erased by a reopening with mode "w" (`Holds`, `Known`). A call that `file_reopen` makes logs into
all files but carries no message of the program (`MsgInv`), and an inode is of one path and empty when it is new
(`InodeInv`). `StatInv`, for `StreamIsCurrent`: outside the two statements between `fopen` and `stat`, `st_ino` is
the inode of the open stream, and at the `stat` that inode is the one at the path; so the comparison at 343 finds out
any change since.

*A new file.* `StreamInv`: each stream belongs to one `add_file` until its callback is published, and to
the callback or to `fclose` afterwards, so none is lost. `HeaderInv`: of a file's header there are in it,
in order, the lines its `add_file` has come to, each once; messages of others may stand between, but those of the
thread itself only after the whole of it; and what was printed by `add_file`'s flush is durable.

*Indentation.* `CountInv` relates the indentation of an output to the number of open scopes that
indented it: equal for stderr, and for a callback until a scope older than it ends; at most that for any
other callback. It treats stderr as one more output (`Stderr`). `EnterIs`, `OpenIs` and `LeaveIs` say what a step
does to the set of those scopes, `OpenCounts` and `LeaveCounts` what follows for its size: one more, one
less, or the same, as the step does to the indentation.

*The end of a process.* `FatalInv`: the calls of a thread are a FATAL message or one other call of the
program, and above it handlers of signals, each with the `log_message` it waits for at most (`Shape`, which
also says which kinds of calls can be where); only one thread holds the mutex (`OneHolds`); and
`Words` says of the innermost call of each thread what is in the log and durable by then. A call that
was interrupted never goes on, since a handler of a signal ends the process; so only innermost calls count.
Others may not log while one is settled, since both would hold the mutex. An exception thrown by the fatal
handler takes away only `log_message`: the handler of the signal is then at its last flush.

*The block of a fatal message.* `BlockInv`: what one failure logs (trace, context, message) carries one number, numbers
are not used again, and the innermost calls of two threads have different ones (`NumberInv`). From the moment a
failing call has logged its first part it has the mutex, so what is in the log after that part is by its
thread (`SpeakInv`); and so what is in the log between two parts of one failure is
its thread's (`TogetherInv`).

*Signals within signals.* `SigInv`: no two calls on a thread's stack handle the same signal, which is blocked while its handler
runs, and an `abort()` of the program that was caught is the outermost one. With `Shape` this bounds how
often the handler nests.

*Reading without a lock.* `AliveInv` has three parts. `Lists`: the list of a thread goes through its
stack frames, innermost first, so what an entry points to is older. `Pins`: what a handle points to is
alive, and a scope is in its destructor only if no handle points to it. `Rooted`: each call of
`get_error_context_for` has a root, the entry it began at, and is at entries that are not newer than it;
the root is the thread's own, or that of its handle, or that of a handle in an entry which the call
around it has been at. So a root is not a scope that ends while the call runs: it is pinned, or belongs
to the thread that is busy printing. `WalkKeepsAlive` shows this of any step that goes as `GoesTo` says.

*What a walk prints.* `EcInv` adds to `AliveInv` what the entries mean. `TextInv`: what a handle stands for
is the list of the entry it points to, and the contexts open down to an entry are those below it, its own
number, and those of its handle. `PrintInv`: each call of `get_error_context_for` in a walk has, besides its
root, a text it will still print, and what was asked for is what is printed, followed by what the innermost
call will print, the one around it, and so on. A step moves an entry from one to the other; entries that open
or close meanwhile are not below any root. `WholeInv`: only the newest context of a thread that is in a
constructor or destructor is without its derived part, and nothing points to it.

*The clean-up of a trace.* `do_replacements` rewrites the whole trace as one text; `EachFrameCleaned` says
the result is as if each line had been rewritten on its own. `ReplaceInRow` and `ReplaceLonger`: a pair has no
line break in it, so in a text that ends with one it finds nothing that reaches over; its first occurrence in the
text is that in the first line that has one (`RowReplaced`), and where the text has none no line has
(`RowsDone`). `StackInv`: the text is that of as many lines as the trace has, each of which the rule at hand, used
to exhaustion, makes what it makes of its frame's line (`OnItsWay`). That using up ends is `UsedEnds`: each
use makes the line shorter.

*Arguments.* `ArgsInv`: the arguments up to `arg_dest` are, in their order, those of the arguments up to
`arg_it` that are kept, and the ones after `arg_it` are as they were given. Which are kept (`Role`) is a
recursion over the command line, since the value of a flag is no flag. `FlagInv`: the level is that of the last flag up to
`arg_it`, or the one it was.

*From `init` to the end.* `KeptInv` relates what was logged, what is durable and what `on_atexit` owes:
the callback is closed by `remove_all_callbacks`, if it has `on_close`, or flushed by `on_atexit`, if it has
`on_flush`. `DeadInv`: after
`on_atexit` the flush thread finds `s_needs_flushing` unset unless it was on its way already or the program
logged again. `HeaderInv`: nothing is said before the header.

*Columns.* `LineInv`: the header's columns begin where the widths before them add up to (`HeaderLaid`); in the
first 100 000 seconds a column of a line begins no later than `Farthest` says, for which the buffer has
room (`Widths`), and in the first 10 000 where the header's does (`LineLaid`).

*Induction over data.* `FlattenSeq`, `Stages`, `Exhausted` and `Role` are defined by recursion. The library's
induction theorems cannot be used, so the proofs take a set of numbers and its least member outside the
set (`Inductive`, `Least`): that the recursion defines something (`FlattenExists`, `UsedExists`,
`StagedExists`) and what it gives is then proved as facts about sets.

*Only model-checked.* All liveness: `EventuallyFlushed`, `CallsReturn`, `SignalEndsProcess`, `WalkEnds`,
`CleanupEnds` (`ENABLED` and fairness are beyond the prover). Of `CleanupEnds` the reason is a
theorem's lemma: `OnceIs` says that each replacement makes the text shorter. The three violated runs are
counterexamples, which is for TLC.

## 6. Not modelled

* Windows code, and compilers without `std::regex`.
* `syslog`: a callback without state of its own (`openlog`, one `syslog` per message, nothing to flush).
* Demangling and unwinding; the pass of `std::regex_replace` over a trace, which takes out default
  template arguments.
* `filename`, `create_directories`, `suggest_log_path`, `home_dir`: they put file names together and keep
  no state. That `create_directories` may fail is in `LogFile` and `FileAbs`.
* `set_thread_name`: the key of `pthread_setspecific` and the operating system's names.
* `Text`, `textprintf`, `strprintf`, `format_value`, `ec_to_text` of values, and the `LOG_S`, `CHECK_S` and
  glog streams: they build a string and end in the calls modelled. One remark: without `fmt` the signed
  64-bit types are formatted as unsigned and the other way round (`loguru.hpp:742`).
* Data races the language leaves undefined: `s_user_stack_cleanups` (912) has no lock, and `StackTrace`
  has one thread; the removal of a callback by another thread while its `add_file` prints the header
  (824).
* Handlers of `on_close` that log or remove: `remove_callback` calls them with their own callback still
  in the table (991).
* `fmt`, `LOGURU_REPLACE_GLOG`, build files, examples and benchmarks.

## 7. Plan

What would come next: an `on_close` handler that logs or removes, in `LoguruCore`, with the changes to `LifeInv` and
`OrderInv` that it needs; the coarse modules (`LogScope`, `LogFile`, `FileAbs`) as implementations of `LogService`.
