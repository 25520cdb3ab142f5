------------------------------- MODULE LogFile -------------------------------
(***************************************************************************)
(* add_file: opening a log file, making it a callback, and the header it   *)
(* writes with the FILE* it still has, after the callback is published.    *)
(*                                                                         *)
(* What is done with s_mutex held is one step here: LoguruCore shows that a *)
(* message reaches the callbacks as one.  What add_file does without it is *)
(* a step for each call of stdio.  The messages are such that every file   *)
(* wants them.                                                             *)
(***************************************************************************)
EXTENDS Integers, SequencesExt

CONSTANTS
  Threads,
  Paths,
  Buffered,             (* g_flush_interval_ms > 0.                         *)
  Lines,                (* The header: what s_arguments, s_current_dir and  *)
                        (* g_preamble_header make of it, a sequence.        *)
  Nothing,              (* Path and stream of a thread not in add_file.     *)
  MaxStreams,           (* Bounds: streams opened ...                       *)
  MaxMessages           (* ... and messages and errors logged.              *)

ASSUME LogFileAssumption ==
  /\ Buffered \in BOOLEAN
  /\ Lines \in Seq(Range(Lines)) /\ Lines # <<>>
  /\ "gap" \notin Range(Lines) /\ "message" \notin Range(Lines)
  /\ Nothing \notin Nat \cup Paths
  /\ MaxStreams \in Nat /\ MaxMessages \in Nat

VARIABLES
  streams,      (* The streams fopen returned, in order, with their files.  *)
  s_callbacks,  (* Those that are callbacks.                                *)
  adding,       (* Each thread's add_file: the stream, and where it is.     *)
  messages      (* How many were logged.                                    *)

lvars == <<streams, s_callbacks, adding, messages>>

Modes == {"w", "a"}

(***************************************************************************)
(* A stream has a path and a mode, what was printed to it, how much of that *)
(* was flushed, whether it is still open, the thread that adds it, and     *)
(* whether its add_file has returned.  An entry that is printed is a line  *)
(* of a header or a message, and who printed it.                           *)
(***************************************************************************)
Idle == [at |-> "idle", path |-> Nothing, mode |-> "w",
         stream |-> Nothing, line |-> 1]

Init ==
  /\ streams = <<>> /\ s_callbacks = <<>>
  /\ adding = [t \in Threads |-> Idle]
  /\ messages = 0

-----------------------------------------------------------------------------
File(s)   == streams[s]

At(t, label)  == adding[t].at = label
Go(t, label)  == adding' = [adding EXCEPT ![t].at = label]
Printed(f, e) == [f EXCEPT !.printed = Append(@, e)]
Flushed(f)    == [f EXCEPT !.flushed = Len(f.printed)]
Closed(f)     == [Flushed(f) EXCEPT !.open = FALSE]

(* file_log for one message of t, for every callback there is. *)
FileLog(t, f) ==
  LET g == Printed(f, [text |-> "message", by |-> t])
  IN  IF Buffered THEN g ELSE Flushed(g)
LogOf(t, fs) == [s \in DOMAIN fs |->
                   IF s \in Range(s_callbacks) THEN FileLog(t, fs[s]) ELSE fs[s]]

-----------------------------------------------------------------------------
Count == messages < MaxMessages /\ messages' = messages + 1

Log(t) ==
  /\ At(t, "idle") /\ Count
  /\ streams' = LogOf(t, streams)
  /\ UNCHANGED <<s_callbacks, adding>>

(* flush(), of a thread or of the flush thread. *)
FlushAll ==
  /\ streams' = [s \in DOMAIN streams |->
                   IF s \in Range(s_callbacks) THEN Flushed(File(s)) ELSE File(s)]
  /\ UNCHANGED <<s_callbacks, adding, messages>>

(* The program adds a path again only when nothing of it is open. *)
AddFile(t) ==
  /\ At(t, "idle") /\ Len(streams) < MaxStreams
  /\ \E p \in Paths, m \in Modes :
       /\ \A s \in DOMAIN streams : File(s).path = p => ~File(s).open
       /\ \A u \in Threads : adding[u].path = p => At(u, "idle")
       /\ adding' = [adding EXCEPT ![t] = [Idle EXCEPT !.at = "directories",
                                                       !.path = p, !.mode = m]]
  /\ UNCHANGED <<streams, s_callbacks, messages>>

(* When create_directories fails that is logged, and fopen tried anyway. *)
CreateDirectories(t) ==
  /\ At(t, "directories")
  /\ \/ UNCHANGED <<streams, messages>>
     \/ Count /\ streams' = LogOf(t, LogOf(t, streams))
  /\ Go(t, "open")
  /\ UNCHANGED <<s_callbacks>>

Fopen(t) ==
  /\ At(t, "open") /\ Len(streams) < MaxStreams
  /\ streams' = Append(streams,
       [path |-> adding[t].path, mode |-> adding[t].mode,
        printed |-> <<>>, flushed |-> 0, open |-> TRUE, by |-> t, ready |-> FALSE])
  /\ adding' = [adding EXCEPT ![t].at = "publish", ![t].stream = Len(streams')]
  /\ UNCHANGED <<s_callbacks, messages>>

FopenFails(t) ==
  /\ At(t, "open") /\ Count
  /\ streams' = LogOf(t, streams)
  /\ adding' = [adding EXCEPT ![t] = Idle]
  /\ UNCHANGED <<s_callbacks>>

AddCallback(t) ==
  /\ At(t, "publish")
  /\ s_callbacks' = Append(s_callbacks, adding[t].stream)
  /\ Go(t, "header")
  /\ UNCHANGED <<streams, messages>>

Header(mode) == (IF mode = "a" THEN <<"gap">> ELSE <<>>) \o Lines

(* stdio on the FILE* that add_file still has. *)
Use(t, f(_)) == streams' = [streams EXCEPT ![adding[t].stream] = f(@)]

(* The header's lines, one fprintf each, without s_mutex. *)
PrintHeader(t) ==
  /\ At(t, "header")
  /\ LET lines == Header(adding[t].mode)
         k     == adding[t].line
         Fprintf(f) == Printed(f, [text |-> lines[k], by |-> t])
     IN /\ Use(t, Fprintf)
        /\ adding' = [adding EXCEPT ![t].line = k + 1,
                                    ![t].at = IF k = Len(lines) THEN "flush" ELSE @]
  /\ UNCHANGED <<s_callbacks, messages>>

FlushLater(t) ==   \* mutant: no fflush after the header
  /\ At(t, "flush")
  /\ Go(t, "announce")
  /\ UNCHANGED <<streams, s_callbacks, messages>>

FlushHeader(t) ==
  /\ At(t, "flush")
  /\ Use(t, Flushed)
  /\ Go(t, "announce")
  /\ UNCHANGED <<s_callbacks, messages>>

(* "Logging to ...", and the return. *)
Announce(t) ==
  /\ At(t, "announce")
  /\ LET fs == LogOf(t, streams)
     IN  streams' = [fs EXCEPT ![adding[t].stream].ready = TRUE]
  /\ adding' = [adding EXCEPT ![t] = Idle]
  /\ UNCHANGED <<s_callbacks, messages>>

-----------------------------------------------------------------------------
(* The program removes no callback whose add_file is still running: the    *)
(* FILE* would be closed under it.                                         *)
BeingAdded(s) == \E t \in Threads : adding[t].stream = s

(* file_close, then erase; the first callback of that id, which is the path. *)
RemoveCallback(t) ==
  /\ At(t, "idle")
  /\ \E k \in DOMAIN s_callbacks :
       /\ ~BeingAdded(s_callbacks[k])
       /\ streams' = [streams EXCEPT ![s_callbacks[k]] = Closed(@)]
       /\ s_callbacks' = RemoveAt(s_callbacks, k)
  /\ UNCHANGED <<adding, messages>>

JustClear(t) ==   \* mutant: on_close is not called
  /\ At(t, "idle") /\ s_callbacks # <<>>
  /\ s_callbacks' = <<>>
  /\ UNCHANGED <<streams, adding, messages>>

RemoveAllCallbacks(t) ==
  /\ At(t, "idle") /\ s_callbacks # <<>>
  /\ \A s \in Range(s_callbacks) : ~BeingAdded(s)
  /\ streams' = [s \in DOMAIN streams |->
                   IF s \in Range(s_callbacks) THEN Closed(File(s)) ELSE File(s)]
  /\ s_callbacks' = <<>>
  /\ UNCHANGED <<adding, messages>>

Next ==
  \/ \E t \in Threads :
       \/ Log(t) \/ AddFile(t) \/ CreateDirectories(t) \/ Fopen(t) \/ FopenFails(t)
       \/ AddCallback(t) \/ PrintHeader(t) \/ FlushHeader(t) \/ Announce(t)
       \/ RemoveCallback(t) \/ RemoveAllCallbacks(t)
  \/ FlushAll

Spec == Init /\ [][Next]_lvars

-----------------------------------------------------------------------------
Ready == {s \in DOMAIN streams : File(s).ready}
HeaderEntries(f)  == {n \in DOMAIN f.printed : f.printed[n].text # "message"}

(* The first k lines of the header are in f, in order, and each once. *)
Begun(f, k) ==
  \E place \in [1..k -> HeaderEntries(f)] :
    /\ Range(place) = HeaderEntries(f)
    /\ \A i, j \in 1..k : i < j => place[i] < place[j]
    /\ \A i \in 1..k : f.printed[place[i]].text = Header(f.mode)[i]

(* When add_file has returned, the whole header is in the file, in order, once *)
(* and durable, and of the messages in between none is the adding thread's.    *)
(* Those of other threads may come before it or between its lines, for the     *)
(* callback is added first: the log need not begin with its header.            *)
HeaderWhole ==
  \A s \in Ready :
    LET f == File(s)
    IN /\ Begun(f, Len(Header(f.mode)))
       /\ \A n \in HeaderEntries(f) : n <= f.flushed
       /\ \A n \in DOMAIN f.printed :
            f.printed[n] = [text |-> "message", by |-> f.by]
              => \A k \in HeaderEntries(f) : k < n

(* No stream is lost: one that is open is a callback or its add_file is still *)
(* running, and one that is closed had everything printed to it on disk first *)
(* and is no callback, whatever of add_file, the directories or fopen failed. *)
NoStreamLost ==
  \A s \in DOMAIN streams :
    IF File(s).open
    THEN s \in Range(s_callbacks) \/ BeingAdded(s)
    ELSE s \notin Range(s_callbacks) /\ File(s).flushed = Len(File(s).printed)

=============================================================================
