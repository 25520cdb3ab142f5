------------------------------- MODULE FileAbs ------------------------------
(***************************************************************************)
(* File callbacks built with LOGURU_WITH_FILEABS: file_log looks whether   *)
(* the file at its path is still the one it writes to, and file_reopen     *)
(* opens it again when it was moved or deleted, logging what it does, into *)
(* all callbacks and so into itself.                                       *)
(*                                                                         *)
(* Everything here runs with s_mutex held, so that there is one stack of   *)
(* calls of log_message: what the program logs is at its bottom, what      *)
(* file_reopen logs above.  Other programs move, delete and put back files *)
(* (logrotate) at any moment, and write nothing into them.  The messages   *)
(* of file_reopen are of g_internal_verbosity or ERROR, which every file   *)
(* here is added to take.  An inode is made for one path, and one that was *)
(* deleted is not used again: no stream of loguru's would still have it.   *)
(***************************************************************************)
EXTENDS Integers, SequencesExt

CONSTANTS
  Files,                (* The file callbacks ...                           *)
  Order,                (* ... in the order of s_callbacks.                 *)
  Mode,                 (* mode_str of each: "a" appends, "w" truncates.    *)
  Inodes,               (* Inodes files are made with.                      *)
  None,                 (* No file, no stream, nothing known.               *)
  g_flush_interval_ms,
  RotateInReopen,       (* Whether files move between fopen and stat, too.  *)
  MayFail,              (* Whether fopen and mkdir may fail.                *)
  MaxCalls              (* Bound: messages of the program.                  *)

ASSUME FilesAssumption ==
  /\ Order \in Seq(Files) /\ Range(Order) = Files /\ Cardinality(Files) = Len(Order)
  /\ Files # {}
  /\ Mode \in [Files -> {"a", "w"}]
  /\ None \notin Inodes
  /\ g_flush_interval_ms \in Nat
  /\ RotateInReopen \in BOOLEAN /\ MayFail \in BOOLEAN
  /\ MaxCalls \in Nat

VARIABLES
  disk,          (* The inode at each path, or None.                        *)
  aside,         (* Those moved away from it, which exist somewhere else.   *)
  made,          (* All that were made for it; the others are deleted.      *)
  text,          (* What is in an inode of the program's messages, in order.*)
  fp,            (* The inode each stream writes to; None: a null pointer.  *)
  closed,        (* fp points to a stream that fclose was called for.       *)
  st_ino,        (* The inode stat last gave, in file_abs->st.              *)
  is_reopening,
  due,           (* A whole second has passed since last_check_time.        *)
  stack,         (* Calls of log_message, innermost last.                   *)
  calls,         (* Messages of the program so far.                         *)
  dropped,       (* History: the messages each file had no stream for ...   *)
  erased,        (* ... and those that a reopening in mode "w" removed.     *)
  rotated,       (* History: the path changed since file_log last checked.  *)
  misused        (* History: a closed stream was written to or flushed.     *)

inodes  == <<disk, aside, made>>
streams == <<fp, closed, st_ino>>
history == <<dropped, erased, rotated, misused>>
fvars == <<inodes, text, streams, is_reopening, due, stack, calls, history>>

(***************************************************************************)
(* A call of log_message: its message (0: one of file_reopen), the place   *)
(* k of the file it is at in Order, and what it does next for that file.   *)
(***************************************************************************)

(* add_file opened each file and stat found it. *)
Init ==
  /\ \E start \in [Files -> Inodes] :
       /\ IsInjective(start)
       /\ disk = start /\ fp = start /\ st_ino = start
       /\ made = [f \in Files |-> {start[f]}]
  /\ aside = [f \in Files |-> {}]
  /\ text = [i \in Inodes |-> <<>>]
  /\ closed = [f \in Files |-> FALSE]
  /\ is_reopening = [f \in Files |-> FALSE]
  /\ due = [f \in Files |-> FALSE]
  /\ stack = <<>>
  /\ calls = 0
  /\ dropped = [f \in Files |-> {}]
  /\ erased = [f \in Files |-> {}]
  /\ rotated = [f \in Files |-> FALSE]
  /\ misused = FALSE

-----------------------------------------------------------------------------
Busy       == stack # <<>>
Top        == Last(stack)
Here       == Order[Top.k]
At(label)  == Busy /\ Top.at = label
NewCall(n) == [msg |-> n, k |-> 1, at |-> "file_log"]

Goto(label)    == stack' = Append(Front(stack), [Top EXCEPT !.at = label])
LogThenGo(label) == stack' = Front(stack) \o
                             <<[Top EXCEPT !.at = label], NewCall(0)>>

(* LOG_F of the program. *)
Log ==
  /\ ~Busy
  /\ calls < MaxCalls
  /\ calls' = calls + 1
  /\ stack' = <<NewCall(calls + 1)>>
  /\ UNCHANGED <<inodes, text, streams, is_reopening, due, history>>

StatMustWork(f) ==   \* mutant: a path stat cannot find counts as unchanged
  fp[f] = None \/ (disk[f] # None /\ disk[f] # st_ino[f])
Changed(f)   == fp[f] = None \/ disk[f] = None \/ disk[f] # st_ino[f]

RecursesAnyway(f) == FALSE   \* mutant: is_reopening is not tested
Skips(f)          == is_reopening[f]

(* file_log up to the result of the check, with the fclose of file_reopen. *)
FileLog ==
  /\ At("file_log")
  /\ IF Skips(Here)
     THEN Goto("flush") /\ UNCHANGED <<closed, is_reopening, due, rotated>>
     ELSE /\ due' = [due EXCEPT ![Here] = FALSE]
          /\ rotated' = [rotated EXCEPT ![Here] = @ /\ ~due[Here]]
          /\ IF due[Here] /\ Changed(Here)
             THEN /\ is_reopening' = [is_reopening EXCEPT ![Here] = TRUE]
                  /\ closed' = [closed EXCEPT ![Here] = fp[Here] # None]
                  /\ LogThenGo("mkdir")
             ELSE Goto("print") /\ UNCHANGED <<closed, is_reopening>>
  /\ UNCHANGED <<inodes, text, fp, st_ino, calls, dropped, erased, misused>>

(* create_directories logs its error, and then file_reopen logs another. *)
Mkdir ==
  /\ \/ At("mkdir") /\ Goto("fopen")
     \/ At("mkdir") /\ MayFail /\ LogThenGo("mkdir_failed")
     \/ At("mkdir_failed") /\ LogThenGo("fopen")
  /\ UNCHANGED <<inodes, text, streams, is_reopening, due, calls, history>>

OpenAs(f, inode) ==
  /\ fp' = [fp EXCEPT ![f] = inode]
  /\ closed' = [closed EXCEPT ![f] = FALSE]

Fresh == Inodes \ UNION {made[f] : f \in Files}

(* fopen takes the file at the path, which mode "w" empties, or makes one. *)
FopenFound ==
  /\ disk[Here] # None
  /\ OpenAs(Here, disk[Here])
  /\ IF Mode[Here] = "w"
     THEN /\ text' = [text EXCEPT ![disk[Here]] = <<>>]
          /\ erased' = [erased EXCEPT ![Here] = @ \cup Range(text[disk[Here]])]
     ELSE UNCHANGED <<text, erased>>
  /\ UNCHANGED <<disk, made>>
FopenMakes ==
  /\ disk[Here] = None
  /\ \E i \in Fresh : /\ OpenAs(Here, i)
                      /\ disk' = [disk EXCEPT ![Here] = i]
                      /\ made' = [made EXCEPT ![Here] = @ \cup {i}]
  /\ UNCHANGED <<text, erased>>
FopenWorks ==
  /\ At("fopen")
  /\ FopenFound \/ FopenMakes
  /\ Goto("stat")
  /\ UNCHANGED <<aside, st_ino, is_reopening, due, calls, dropped, rotated, misused>>

KeepsOldStream ==   \* mutant: fp is assigned only when fopen works
  /\ At("fopen")
  /\ MayFail \/ (disk[Here] = None /\ Fresh = {})
  /\ LogThenGo("print")
  /\ UNCHANGED <<inodes, text, streams, is_reopening, due, calls, history>>

FopenFails ==
  /\ At("fopen")
  /\ MayFail \/ (disk[Here] = None /\ Fresh = {})
  /\ OpenAs(Here, None)
  /\ LogThenGo("print")
  /\ UNCHANGED <<inodes, text, st_ino, is_reopening, due, calls, history>>

Stat ==
  /\ At("stat")
  /\ st_ino' = IF disk[Here] = None THEN st_ino
               ELSE [st_ino EXCEPT ![Here] = disk[Here]]
  /\ Goto("print")
  /\ UNCHANGED <<inodes, text, fp, closed, is_reopening, due, calls, history>>

Touch(f) == misused' = (misused \/ closed[f])

Put(m) == text' = IF m = 0 THEN text
                  ELSE [text EXCEPT ![fp[Here]] = Append(@, m)]

FprintfUnlessReopened ==   \* mutant: file_log returns after file_reopen
  /\ At("print")
  /\ IF is_reopening[Here] \/ fp[Here] = None
     THEN UNCHANGED <<text, misused>>
     ELSE Touch(Here) /\ Put(Top.msg)
  /\ is_reopening' = [is_reopening EXCEPT ![Here] = FALSE]
  /\ Goto("flush")
  /\ UNCHANGED <<inodes, streams, due, calls, dropped, erased, rotated>>

(* The end of file_reopen, if it was called, and the fprintf of file_log:   *)
(* into the inode of the stream, wherever that is now.                      *)
Fprintf ==
  /\ At("print")
  /\ is_reopening' = [is_reopening EXCEPT ![Here] = FALSE]
  /\ IF fp[Here] = None
     THEN /\ dropped' = [dropped EXCEPT ![Here] = @ \cup ({Top.msg} \ {0})]
          /\ UNCHANGED <<text, misused>>
     ELSE /\ Touch(Here) /\ Put(Top.msg)
          /\ UNCHANGED dropped
  /\ Goto("flush")
  /\ UNCHANGED <<inodes, streams, due, calls, erased, rotated>>

MoreFiles  == Top.k < Len(Order)

(* log_message calls p.flush, then the next callback or it returns. *)
FlushNow ==
  /\ At("flush")
  /\ IF g_flush_interval_ms = 0 THEN Touch(Here) ELSE UNCHANGED misused
  /\ stack' = IF MoreFiles
              THEN Append(Front(stack), [Top EXCEPT !.k = @ + 1, !.at = "file_log"])
              ELSE Front(stack)
  /\ UNCHANGED <<inodes, text, streams, is_reopening, due, calls, dropped, erased,
                 rotated>>

(* The flush thread, between two calls of the program. *)
FlushAll ==
  /\ ~Busy /\ g_flush_interval_ms > 0
  /\ misused' = (misused \/ \E f \in Files : closed[f])
  /\ UNCHANGED <<inodes, text, streams, is_reopening, due, stack, calls, dropped,
                 erased, rotated>>

(* A second passes: two readings of the clock, truncated, now differ. *)
Tick ==
  /\ \E f \in Files : ~due[f]
  /\ due' = [f \in Files |-> TRUE]
  /\ UNCHANGED <<inodes, text, streams, is_reopening, stack, calls, history>>

(* Another program moves away, deletes or replaces the file at a path, or   *)
(* puts a new one there or one it had moved away.                           *)
Rotate(f) ==
  /\ RotateInReopen \/ \A n \in DOMAIN stack : stack[n].at # "stat"
  /\ \E i \in (Fresh \cup aside[f] \cup {None}) \ {disk[f]},
        kept \in SUBSET ({disk[f]} \ {None}) :
       /\ disk' = [disk EXCEPT ![f] = i]
       /\ aside' = [aside EXCEPT ![f] = (@ \cup kept) \ {i}]
       /\ made' = [made EXCEPT ![f] = @ \cup ({i} \ {None})]
  /\ rotated' = [rotated EXCEPT ![f] = TRUE]
  /\ UNCHANGED <<text, streams, is_reopening, due, stack, calls, dropped, erased,
                 misused>>

Next ==
  \/ Log \/ FileLog \/ Mkdir \/ FopenWorks \/ FopenFails \/ Stat \/ Fprintf
  \/ FlushNow \/ FlushAll \/ Tick
  \/ \E f \in Files : Rotate(f)

Spec == Init /\ [][Next]_fvars

-----------------------------------------------------------------------------
(* No stream is written to or flushed after fclose and before the fopen     *)
(* that replaces it, although file_reopen logs in between.                  *)
NoUseOfClosedStream == ~misused

(* file_reopen does not call itself for the same file, and a file is marked *)
(* as reopening exactly while a call of file_reopen for it is on the stack: *)
(* what is logged later is never taken for its own message.                 *)
Reopening(f) ==
  {n \in DOMAIN stack : Order[stack[n].k] = f
                        /\ stack[n].at \in {"mkdir", "mkdir_failed", "fopen", "stat"}}
ReopenNotRecursive ==
  \A f \in Files :
    /\ Cardinality(Reopening(f)) <= 1
    /\ Reopening(f) # {} => is_reopening[f]
    /\ is_reopening[f] => \E n \in DOMAIN stack : Order[stack[n].k] = f

(* Every message of the program is in exactly one of the files that were    *)
(* made at the path of a callback, once and in the order of the calls,      *)
(* however often they were moved, or is known to be missing: its file could *)
(* not be opened again, or a reopening with FileMode::Truncate emptied it.  *)
(* So a message that is in no file that exists was in one that another      *)
(* program deleted, or was written to it afterwards (see StreamIsCurrent).  *)
InFile(i)  == Range(text[i])
InFiles(f) == UNION {InFile(i) : i \in made[f]}
NothingLostByRotation ==
  ~Busy => \A f \in Files :
    /\ InFiles(f) \cup dropped[f] \cup erased[f] = 1..calls
    /\ InFiles(f) \cap (dropped[f] \cup erased[f]) = {}
    /\ \A i, j \in made[f] : i # j => InFile(i) \cap InFile(j) = {}
    /\ \A i \in made[f] : \A m, n \in DOMAIN text[i] : m < n => text[i][m] < text[i][n]
    /\ Mode[f] = "a" => erased[f] = {}

(* A stream writes to the file at its path, also after the file was moved,  *)
(* deleted or replaced any number of times and fopen failed in between,     *)
(* unless that was after the last check that was due (one is each second):  *)
(* only what is logged until the next can go to another file or a deleted   *)
(* one.  docs/index.html: "If the file is moved, or inode changes, file is  *)
(* reopened using the same FileMode".                                       *)
StreamIsCurrent ==
  \A f \in Files :
    fp[f] # None /\ ~closed[f] /\ ~rotated[f] => fp[f] = disk[f]

=============================================================================
