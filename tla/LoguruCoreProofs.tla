-------------------------- MODULE LoguruCoreProofs --------------------------
(***************************************************************************)
(* Theorems about LoguruCore, for any number of threads, callbacks and     *)
(* calls.                                                                  *)
(***************************************************************************)
EXTENDS LoguruCore, SequenceTheorems, TLAPS

(***************************************************************************)
(* Who holds s_mutex, and how often.  A thread inside a call that needs    *)
(* the mutex is its owner; the owner is inside such a call, or it is       *)
(* remove_callback's LOG_F on its way to lock the mutex a second time.     *)
(***************************************************************************)
LockInv ==
  /\ owner = NoOne <=> depth = 0
  /\ \A p \in Procs : pc[p] \in Holding => owner = p
  /\ \A p \in Procs : owner = p =>
       \/ pc[p] \in Logging
       \/ pc[p] \in Working \cup Filtering \cup {"log"} /\ depth = 1

(* What a process carries to the next step of its call. *)
LocalInv ==
  /\ \A p \in Procs : pc[p] \in {"add", "push"} => arg[p] \in Sinks
  /\ \A p \in Procs :
       pc[p] \in Filtering \cup Logging \cup {"log"} => cur[p] \in Message
  /\ \A p \in Procs : pc[p] \in {"erase", "sink_flush"} => InLoop(p)
  /\ \A p \in Procs : pc[p] \in {"remove", "find"} => calls > 0
  /\ pc[FlushThread] \in {"unborn", "idle", "flush", "flush_stderr", "flush_sinks"}

CoreInv == TypeOK /\ LockInv /\ LocalInv

USE ProcsAssumption, SinksAssumption, ValuesAssumption
USE DEF Procs, Outputs

(* The initial state. *)
LEMMA InitCore == Init => CoreInv
<1> SUFFICES ASSUME Init PROVE CoreInv
  OBVIOUS
<1>1. TypeOK
  <2>1. /\ owner \in Procs \cup {NoOne} /\ depth \in 0..2 /\ calls \in 0..MaxCalls
        /\ s_max_out_verbosity \in Int
    BY DEF Init, Verbosity_OFF
  <2>2. /\ s_callbacks \in Seq(Sinks) /\ fresh \in SUBSET Sinks
        /\ closes \in [Sinks -> Nat]
        /\ g_flush_interval_ms \in FlushIntervals
    BY DEF Init
  <2>8. s_needs_flushing \in BOOLEAN
    BY Zenon DEF Init
  <2>3. out \in [Outputs -> Seq(Message)] /\ flushed \in [Outputs -> Nat]
    BY DEF Init
  <2>4. pc \in [Procs -> Labels]
    BY DEF Init, Labels
  <2>5. arg \in [Procs -> Sinks \cup {NoSink}]
    BY DEF Init
  <2>6. cur \in [Procs -> Message \cup {NoMessage}]
    BY DEF Init
  <2>7. idx \in [Procs -> Nat \ {0}]
    BY DEF Init
  <2> QED  BY <2>1, <2>2, <2>3, <2>4, <2>5, <2>6, <2>7, <2>8 DEF TypeOK
<1>2. LockInv
  BY DEF Init, LockInv, Holding, Working, Logging, Changing
<1>3. LocalInv
  BY DEF Init, LocalInv, Filtering, Logging
<1> QED  BY <1>1, <1>2, <1>3 DEF CoreInv

(* Erasing the callback at position k of the table leaves a table. *)
LEMMA RemoveAtType ==
  ASSUME NEW S, NEW seq \in Seq(S), NEW k \in 1..Len(seq)
  PROVE  /\ RemoveAt(seq, k) \in Seq(S)
         /\ Len(RemoveAt(seq, k)) = Len(seq) - 1
         /\ \A j \in 1..(Len(seq) - 1) :
              RemoveAt(seq, k)[j] = IF j < k THEN seq[j] ELSE seq[j + 1]
<1> DEFINE front == SubSeq(seq, 1, k - 1)
           back  == SubSeq(seq, k + 1, Len(seq))
<1>1. /\ front \in Seq(S) /\ Len(front) = k - 1
      /\ \A j \in 1..(k - 1) : front[j] = seq[j]
  OBVIOUS
<1>2. /\ back \in Seq(S) /\ Len(back) = Len(seq) - k
      /\ \A j \in 1..(Len(seq) - k) : back[j] = seq[k + j]
  OBVIOUS
<1>3. RemoveAt(seq, k) = front \o back
  BY DEF RemoveAt
<1> HIDE DEF front, back
<1>4. /\ front \o back \in Seq(S)
      /\ Len(front \o back) = Len(front) + Len(back)
      /\ \A j \in 1..(Len(front) + Len(back)) :
           (front \o back)[j] = IF j <= Len(front) THEN front[j]
                                ELSE back[j - Len(front)]
  <2>1. front \in Seq(S) /\ back \in Seq(S)
    BY <1>1, <1>2
  <2> QED  BY ONLY <2>1, ConcatProperties
<1>5. /\ Len(seq) \in Nat /\ k \in Int
      /\ Len(front) + Len(back) = Len(seq) - 1
  BY <1>1, <1>2
<1>6. ASSUME NEW j \in 1..(Len(seq) - 1)
      PROVE  RemoveAt(seq, k)[j] = IF j < k THEN seq[j] ELSE seq[j + 1]
  <2>1. (front \o back)[j] = IF j <= k - 1 THEN front[j] ELSE back[j - (k - 1)]
    BY <1>1, <1>4, <1>5
  <2>2. CASE j < k
    BY <1>1, <1>3, <1>5, <2>1, <2>2
  <2>3. CASE ~(j < k)
    <3>1. j - (k - 1) \in 1..(Len(seq) - k)
      BY <1>5, <2>3
    <3>2. k + (j - (k - 1)) = j + 1
      BY <1>5
    <3> QED  BY <1>2, <1>3, <1>5, <2>1, <2>3, <3>1, <3>2
  <2> QED  BY <2>2, <2>3
<1> QED  BY <1>3, <1>4, <1>5, <1>6

(* Every step of the core, and of the program around it, preserves CoreInv. *)
LEMMA NextCore == CoreInv /\ [Next]_vars => CoreInv'
<1> SUFFICES ASSUME TypeOK, LockInv, LocalInv, [Next]_vars PROVE CoreInv'
  BY DEF CoreInv
<1> USE DEF Labels, Waiting, Filtering, Logging, Changing, Working, Holding,
            mutex, table, config, delivery, locals
<1>1. ASSUME NEW t \in Threads, Log(t) PROVE CoreInv'
  <2>1. TypeOK'
    <3>1. cur' \in [Procs -> Message \cup {NoMessage}]
      BY <1>1 DEF Message, Log, Call, TypeOK
    <3> QED  BY <1>1, <3>1 DEF TypeOK, Log, Call, Go
  <2>2. LockInv'
    BY <1>1 DEF TypeOK, LockInv, Log, Call, Go
  <2>3. LocalInv'
    BY <1>1 DEF TypeOK, LockInv, LocalInv, Log, Call, Go, InLoop, Message
  <2> QED  BY <2>1, <2>2, <2>3 DEF CoreInv
<1>2. ASSUME NEW t \in Threads, AddCallback(t) PROVE CoreInv'
  <2>1. TypeOK'
    BY <1>2 DEF TypeOK, LocalInv, AddCallback, Go
  <2>2. LockInv'
    BY <1>2 DEF TypeOK, LockInv, AddCallback, Go
  <2>3. LocalInv'
    BY <1>2 DEF TypeOK, LockInv, LocalInv, AddCallback, Go, InLoop
  <2> QED  BY <2>1, <2>2, <2>3 DEF CoreInv
<1>3. ASSUME NEW t \in Threads, RemoveCallback(t) PROVE CoreInv'
  <2>1. TypeOK'
    BY <1>3 DEF TypeOK, LocalInv, RemoveCallback, Call, Go
  <2>2. LockInv'
    BY <1>3 DEF TypeOK, LockInv, RemoveCallback, Call, Go
  <2>3. LocalInv'
    BY <1>3 DEF TypeOK, LockInv, LocalInv, RemoveCallback, Call, Go, InLoop
  <2> QED  BY <2>1, <2>2, <2>3 DEF CoreInv
<1>4. ASSUME NEW t \in Threads, RemoveAllCallbacks(t) PROVE CoreInv'
  <2>1. TypeOK'
    BY <1>4 DEF TypeOK, LocalInv, RemoveAllCallbacks, Call, Go
  <2>2. LockInv'
    BY <1>4 DEF TypeOK, LockInv, RemoveAllCallbacks, Call, Go
  <2>3. LocalInv'
    BY <1>4 DEF TypeOK, LockInv, LocalInv, RemoveAllCallbacks, Call, Go, InLoop
  <2> QED  BY <2>1, <2>2, <2>3 DEF CoreInv
<1>5. ASSUME NEW t \in Threads, Flush(t) PROVE CoreInv'
  <2>1. TypeOK'
    BY <1>5 DEF TypeOK, LocalInv, Flush, Call, Go
  <2>2. LockInv'
    BY <1>5 DEF TypeOK, LockInv, Flush, Call, Go
  <2>3. LocalInv'
    BY <1>5 DEF TypeOK, LockInv, LocalInv, Flush, Call, Go, InLoop
  <2> QED  BY <2>1, <2>2, <2>3 DEF CoreInv
<1>6. ASSUME NEW p \in Procs, ReadCutoff(p) PROVE CoreInv'
  <2>1. TypeOK'
    BY ZenonT(60), <1>6 DEF TypeOK, LocalInv, ReadCutoff, Filtered, AfterLog, Go
  <2>2. LockInv'
    BY <1>6 DEF TypeOK, LockInv, ReadCutoff, Filtered, AfterLog, Go
  <2>3. LocalInv'
    BY <1>6 DEF TypeOK, LockInv, LocalInv, ReadCutoff, Filtered, AfterLog, Go, InLoop
  <2> QED  BY <2>1, <2>2, <2>3 DEF CoreInv
<1>7. ASSUME NEW p \in Procs, RereadCutoff(p) PROVE CoreInv'
  <2>1. TypeOK'
    BY ZenonT(60), <1>7 DEF TypeOK, LocalInv, RereadCutoff, Filtered, AfterLog, Go
  <2>2. LockInv'
    BY <1>7 DEF TypeOK, LockInv, RereadCutoff, Filtered, AfterLog, Go
  <2>3. LocalInv'
    BY <1>7 DEF TypeOK, LockInv, LocalInv, RereadCutoff, Filtered, AfterLog, Go, InLoop
  <2> QED  BY <2>1, <2>2, <2>3 DEF CoreInv
<1>8. ASSUME NEW p \in Procs, Acquire(p) PROVE CoreInv'
  <2>1. TypeOK'
    <3>1. idx' \in [Procs -> Nat \ {0}]
      BY <1>8 DEF TypeOK, Acquire, At
    <3> QED  BY <1>8, <3>1 DEF TypeOK, Acquire, Entry, Go, At, LockInv
  <2>2. LockInv'
    BY <1>8 DEF TypeOK, LockInv, Acquire, Entry, Go, At
  <2>3. LocalInv'
    <3>1. \A q \in Procs \ {p} : pc'[q] = pc[q] /\ idx'[q] = idx[q]
      BY <1>8 DEF TypeOK, Acquire, Go, At
    <3>2. /\ pc'[p] \in {"stderr", "push", "find", "close_all", "flush_stderr"}
          /\ pc'[p] = "stderr" => pc[p] = "log"
          /\ pc'[p] = "push" => pc[p] = "add"
          /\ pc'[p] = "find" => pc[p] = "remove"
          /\ p = FlushThread => pc'[p] = "flush_stderr"
      BY <1>8 DEF TypeOK, LocalInv, Acquire, Entry, Go
    <3> QED  BY <1>8, <3>1, <3>2 DEF TypeOK, LocalInv, Acquire, InLoop
  <2> QED  BY <2>1, <2>2, <2>3 DEF CoreInv
<1>9. ASSUME NEW p \in Procs, WriteStderr(p) PROVE CoreInv'
  <2>1. TypeOK'
    <3>1. cur[p] \in Message
      BY <1>9 DEF LocalInv, WriteStderr
    <3>2. Append(out[Stderr], cur[p]) \in Seq(Message)
      BY <1>9, <3>1 DEF TypeOK
    <3>3. out' \in [Outputs -> Seq(Message)]
      BY ZenonT(60), <1>9, <3>2 DEF TypeOK, WriteStderr, Write
    <3> QED  BY <1>9, <3>1, <3>2, <3>3 DEF TypeOK, WriteStderr, Write, Go
  <2>2. LockInv'
    BY <1>9 DEF TypeOK, LockInv, WriteStderr, Write, Go
  <2>3. LocalInv'
    BY <1>9 DEF TypeOK, LockInv, LocalInv, WriteStderr, Write, Go, InLoop
  <2> QED  BY <2>1, <2>2, <2>3 DEF CoreInv
<1>10. ASSUME NEW p \in Procs, FlushStderr(p) PROVE CoreInv'
  <2>1. TypeOK'
    BY <1>10 DEF TypeOK, LocalInv, FlushStderr, MakeDurable, Go
  <2>2. LockInv'
    BY <1>10 DEF TypeOK, LockInv, FlushStderr, MakeDurable, Go
  <2>3. LocalInv'
    BY <1>10 DEF TypeOK, LockInv, LocalInv, FlushStderr, MakeDurable, Go, InLoop
  <2> QED  BY <2>1, <2>2, <2>3 DEF CoreInv
<1>11. ASSUME NEW p \in Procs, CallSink(p) PROVE CoreInv'
  <2>1. TypeOK'
    <3>1. cur[p] \in Message /\ Here(p) \in Sinks
      BY SMTT(30), <1>11 DEF LocalInv, TypeOK, CallSink, Here, InLoop
    <3>2. Append(out[Here(p)], cur[p]) \in Seq(Message)
      BY <1>11, <3>1 DEF TypeOK
    <3>3. out' \in [Outputs -> Seq(Message)]
      BY ZenonT(60), <1>11, <3>2 DEF TypeOK, CallSink, Write
    <3>4. idx' \in [Procs -> Nat \ {0}]
      BY <1>11, <3>3 DEF TypeOK, CallSink, At
    <3> QED  BY <1>11, <3>1, <3>2, <3>3, <3>4 DEF TypeOK, CallSink, Write, InLoop, Here, Go, At
  <2>2. LockInv'
    BY SMTT(30), <1>11 DEF TypeOK, LockInv, CallSink, Write, InLoop, Here, Go, At
  <2>3. LocalInv'
    <3>1. \A q \in Procs \ {p} : pc'[q] = pc[q] /\ idx'[q] = idx[q]
      BY <1>11 DEF TypeOK, CallSink, Go, At
    <3>2. /\ pc'[p] \in {"sinks", "sink_flush"}
          /\ pc'[p] = "sink_flush" => idx'[p] = idx[p]
      BY <1>11 DEF TypeOK, CallSink, Go, At
    <3> QED  BY <1>11, <3>1, <3>2 DEF TypeOK, LocalInv, CallSink, InLoop
  <2> QED  BY <2>1, <2>2, <2>3 DEF CoreInv
<1>12. ASSUME NEW p \in Procs, FlushSink(p) PROVE CoreInv'
  <2>1. TypeOK'
    <3>1. Here(p) \in Sinks
      BY <1>12 DEF LocalInv, TypeOK, FlushSink, Here, InLoop
    <3>2. Len(out[Here(p)]) \in Nat
      BY <1>12, <3>1 DEF TypeOK
    <3>3. flushed' \in [Outputs -> Nat]
      BY <1>12, <3>2 DEF TypeOK, FlushSink, MakeDurable
    <3>4. idx' \in [Procs -> Nat \ {0}]
      BY SMTT(30), <1>12, <3>3 DEF TypeOK, FlushSink, At
    <3> QED  BY <1>12, <3>1, <3>2, <3>3, <3>4 DEF TypeOK, FlushSink, MakeDurable, InLoop, Here, Go, At
  <2>2. LockInv'
    BY <1>12 DEF TypeOK, LockInv, FlushSink, MakeDurable, InLoop, Here, Go, At
  <2>3. LocalInv'
    BY <1>12 DEF TypeOK, LockInv, LocalInv, FlushSink, MakeDurable, InLoop, Here, Go, At
  <2> QED  BY <2>1, <2>2, <2>3 DEF CoreInv
<1>13. ASSUME NEW p \in Procs, EndLog(p) PROVE CoreInv'
  <2>1. TypeOK'
    BY <1>13 DEF TypeOK, LocalInv, EndLog, Release, SpawnFlushThread, LockInv
  <2>2. LockInv'
    BY <1>13 DEF TypeOK, LockInv, EndLog, Release, SpawnFlushThread
  <2>3. LocalInv'
    BY <1>13 DEF TypeOK, LockInv, LocalInv, EndLog, Release, SpawnFlushThread, InLoop
  <2> QED  BY <2>1, <2>2, <2>3 DEF CoreInv
<1>14. ASSUME NEW p \in Procs, Push(p) PROVE CoreInv'
  <2>1. TypeOK'
    BY SMTT(30), <1>14 DEF TypeOK, LocalInv, Push, Go
  <2>2. LockInv'
    BY <1>14 DEF TypeOK, LockInv, Push, Go
  <2>3. LocalInv'
    BY <1>14 DEF TypeOK, LockInv, LocalInv, Push, Go, InLoop
  <2> QED  BY <2>1, <2>2, <2>3 DEF CoreInv
<1>15. ASSUME NEW p \in Procs, FindAndClose(p) PROVE CoreInv'
  <2>0. PICK k \in DOMAIN s_callbacks :
           /\ closes' = [closes EXCEPT ![s_callbacks[k]] = @ + 1]
           /\ idx' = [idx EXCEPT ![p] = k]
    BY <1>15 DEF FindAndClose, At
  <2>1. k \in Nat \ {0} /\ k <= Len(s_callbacks) /\ s_callbacks[k] \in Sinks
    <3>1. s_callbacks \in Seq(Sinks)
      BY DEF TypeOK
    <3>2. k \in 1..Len(s_callbacks)
      BY <2>0, <3>1
    <3> QED  BY <3>1, <3>2
  <2>2. TypeOK'
    <3>1. closes' \in [Sinks -> Nat]
      <4>1. closes \in [Sinks -> Nat]
        BY DEF TypeOK
      <4>2. closes[s_callbacks[k]] + 1 \in Nat
        BY <2>1, <4>1
      <4> QED  BY <2>0, <2>1, <4>1, <4>2
    <3>2. idx' \in [Procs -> Nat \ {0}]
      BY <2>0, <2>1 DEF TypeOK
    <3> QED  BY <1>15, <3>1, <3>2 DEF TypeOK, FindAndClose, Go
  <2>3. LockInv'
    BY <1>15 DEF TypeOK, LockInv, FindAndClose, Go
  <2>4. LocalInv'
    BY <1>15, <2>0, <2>1 DEF TypeOK, LockInv, LocalInv, FindAndClose, Go, InLoop
  <2> QED  BY <2>2, <2>3, <2>4 DEF CoreInv
<1>16. ASSUME NEW p \in Procs, FindNothing(p) PROVE CoreInv'
  <2>1. TypeOK'
    <3>1. cur' \in [Procs -> Message \cup {NoMessage}]
      BY <1>16 DEF Message, FindNothing, TypeOK, LocalInv
    <3> QED  BY <1>16, <3>1 DEF TypeOK, FindNothing, Go
  <2>2. LockInv'
    BY <1>16 DEF TypeOK, LockInv, FindNothing, Go
  <2>3. LocalInv'
    BY <1>16 DEF TypeOK, LockInv, LocalInv, FindNothing, Go, InLoop, Message
  <2> QED  BY <2>1, <2>2, <2>3 DEF CoreInv
<1>17. ASSUME NEW p \in Procs, Erase(p) PROVE CoreInv'
  <2>1. TypeOK'
    <3>1. s_callbacks' \in Seq(Sinks)
      BY <1>17, RemoveAtType DEF TypeOK, LocalInv, InLoop, Erase
    <3> QED  BY <1>17, <3>1 DEF TypeOK, Erase, InLoop, Go
  <2>2. LockInv'
    BY <1>17 DEF TypeOK, LockInv, Erase, InLoop, Go
  <2>3. LocalInv'
    BY <1>17 DEF TypeOK, LockInv, LocalInv, Erase, InLoop, Go
  <2> QED  BY <2>1, <2>2, <2>3 DEF CoreInv
<1>18. ASSUME NEW p \in Procs, CloseNext(p) PROVE CoreInv'
  <2>1. TypeOK'
    <3>1. Here(p) \in Sinks
      BY <1>18 DEF LocalInv, TypeOK, CloseNext, Here, InLoop
    <3>2. closes' \in [Sinks -> Nat]
      BY <1>18, <3>1 DEF TypeOK, CloseNext
    <3>3. idx' \in [Procs -> Nat \ {0}]
      BY <1>18, <3>2, SMTT(40) DEF TypeOK, CloseNext, At
    <3> QED  BY <1>18, <3>1, <3>2, <3>3 DEF TypeOK, CloseNext, InLoop, Here, At
  <2>2. LockInv'
    BY <1>18 DEF TypeOK, LockInv, CloseNext, InLoop, Here, At
  <2>3. LocalInv'
    BY <1>18 DEF TypeOK, LockInv, LocalInv, CloseNext, InLoop, Here, At
  <2> QED  BY <2>1, <2>2, <2>3 DEF CoreInv
<1>19. ASSUME NEW p \in Procs, ClearAll(p) PROVE CoreInv'
  <2>1. TypeOK'
    BY <1>19 DEF TypeOK, LocalInv, ClearAll, Go
  <2>2. LockInv'
    BY <1>19 DEF TypeOK, LockInv, ClearAll, Go
  <2>3. LocalInv'
    BY <1>19 DEF TypeOK, LockInv, LocalInv, ClearAll, Go, InLoop
  <2> QED  BY <2>1, <2>2, <2>3 DEF CoreInv
<1>20. ASSUME NEW p \in Procs, ResetCutoff(p) PROVE CoreInv'
  <2>1. TypeOK'
    <3>1. idx' \in [Procs -> Nat \ {0}]
      BY <1>20 DEF TypeOK, ResetCutoff, At
    <3> QED  BY <1>20, <3>1 DEF TypeOK, ResetCutoff, Go, At, Verbosity_OFF
  <2>2. LockInv'
    BY <1>20 DEF TypeOK, LockInv, ResetCutoff, Go, At
  <2>3. LocalInv'
    BY <1>20 DEF TypeOK, LockInv, LocalInv, ResetCutoff, Go, At, InLoop
  <2> QED  BY <2>1, <2>2, <2>3 DEF CoreInv
<1>21. ASSUME NEW p \in Procs, RaiseCutoff(p) PROVE CoreInv'
  <2>1. TypeOK'
    <3>1. VerbosityOf[Here(p)] \in Int
      BY <1>21 DEF TypeOK, RaiseCutoff, Here, InLoop
    <3>2. idx' \in [Procs -> Nat \ {0}]
      BY SMTT(30), <1>21, <3>1 DEF TypeOK, RaiseCutoff, At
    <3> QED  BY <1>21, <3>1, <3>2 DEF TypeOK, RaiseCutoff, InLoop, Here, At
  <2>2. LockInv'
    BY <1>21 DEF TypeOK, LockInv, RaiseCutoff, InLoop, Here, At
  <2>3. LocalInv'
    BY <1>21 DEF TypeOK, LockInv, LocalInv, RaiseCutoff, InLoop, Here, At
  <2> QED  BY <2>1, <2>2, <2>3 DEF CoreInv
<1>22. ASSUME NEW p \in Procs, Return(p) PROVE CoreInv'
  <2>1. TypeOK'
    BY <1>22 DEF TypeOK, LocalInv, Return, Release, Go, LockInv
  <2>2. LockInv'
    BY <1>22 DEF TypeOK, LockInv, Return, Release, Go
  <2>3. LocalInv'
    BY <1>22 DEF TypeOK, LockInv, LocalInv, Return, Release, Go, InLoop
  <2> QED  BY <2>1, <2>2, <2>3 DEF CoreInv
<1>23. ASSUME NEW p \in Procs, FlushStderrFirst(p) PROVE CoreInv'
  <2>1. TypeOK'
    BY <1>23 DEF TypeOK, LocalInv, FlushStderrFirst, MakeDurable, Go
  <2>2. LockInv'
    BY <1>23 DEF TypeOK, LockInv, FlushStderrFirst, MakeDurable, Go
  <2>3. LocalInv'
    BY <1>23 DEF TypeOK, LockInv, LocalInv, FlushStderrFirst, MakeDurable, Go, InLoop
  <2> QED  BY <2>1, <2>2, <2>3 DEF CoreInv
<1>24. ASSUME NEW p \in Procs, FlushNext(p) PROVE CoreInv'
  <2>1. TypeOK'
    <3>1. Here(p) \in Sinks
      BY <1>24 DEF LocalInv, TypeOK, FlushNext, Here, InLoop
    <3>2. Len(out[Here(p)]) \in Nat
      BY <1>24, <3>1 DEF TypeOK
    <3>3. flushed' \in [Outputs -> Nat]
      BY <1>24, <3>2 DEF TypeOK, FlushNext, MakeDurable
    <3>4. idx' \in [Procs -> Nat \ {0}]
      BY SMTT(30), <1>24, <3>3 DEF TypeOK, FlushNext, At
    <3> QED  BY <1>24, <3>1, <3>2, <3>3, <3>4 DEF TypeOK, FlushNext, MakeDurable, InLoop, Here, At
  <2>2. LockInv'
    BY <1>24 DEF TypeOK, LockInv, FlushNext, MakeDurable, InLoop, Here, At
  <2>3. LocalInv'
    BY <1>24 DEF TypeOK, LockInv, LocalInv, FlushNext, MakeDurable, InLoop, Here, At
  <2> QED  BY <2>1, <2>2, <2>3 DEF CoreInv
<1>25. ASSUME NEW p \in Procs, FlushDone(p) PROVE CoreInv'
  <2>1. TypeOK'
    <3>1. s_needs_flushing' \in BOOLEAN
      BY <1>25, Zenon DEF FlushDone
    <3> QED  BY <1>25, <3>1 DEF TypeOK, LocalInv, FlushDone, Release, Go, LockInv
  <2>2. LockInv'
    BY <1>25 DEF TypeOK, LockInv, FlushDone, Release, Go
  <2>3. LocalInv'
    BY <1>25 DEF TypeOK, LockInv, LocalInv, FlushDone, Release, Go, InLoop
  <2> QED  BY <2>1, <2>2, <2>3 DEF CoreInv
<1>26. ASSUME Poll PROVE CoreInv'
  <2>1. TypeOK'
    BY <1>26 DEF TypeOK, LocalInv, Poll, Go
  <2>2. LockInv'
    BY <1>26 DEF TypeOK, LockInv, Poll, Go
  <2>3. LocalInv'
    BY <1>26 DEF TypeOK, LockInv, LocalInv, Poll, Go, InLoop
  <2> QED  BY <2>1, <2>2, <2>3 DEF CoreInv
<1>27. ASSUME SetFlushInterval PROVE CoreInv'
  <2>1. TypeOK'
    BY <1>27 DEF TypeOK, LocalInv, SetFlushInterval
  <2>2. LockInv'
    BY <1>27 DEF TypeOK, LockInv, SetFlushInterval
  <2>3. LocalInv'
    BY <1>27 DEF TypeOK, LockInv, LocalInv, SetFlushInterval, InLoop
  <2> QED  BY <2>1, <2>2, <2>3 DEF CoreInv
<1>28. CASE UNCHANGED vars
  BY <1>28 DEF CoreInv, TypeOK, LockInv, LocalInv, vars, InLoop
<1> QED
  BY <1>1, <1>2, <1>3, <1>4, <1>5, <1>6, <1>7, <1>8, <1>9, <1>10, <1>11, <1>12, <1>13, <1>14, <1>15, <1>16, <1>17, <1>18, <1>19, <1>20, <1>21, <1>22, <1>23, <1>24, <1>25, <1>26, <1>27, <1>28 DEF Next, Begin, Step, Finished

(* TypeOK holds in every reachable state, with the facts about the mutex *)
(* and the local variables that make it inductive.                       *)
THEOREM CoreInvariant == Spec => []CoreInv
BY InitCore, NextCore, PTL DEF Spec

(* Every variable has its type, whatever the program calls: depth never    *)
(* exceeds 2 (remove_callback logs once) and the table never holds anything *)
(* but sinks.                                                              *)
THEOREM TypeCorrect == Spec => []TypeOK
BY CoreInvariant, PTL DEF CoreInv

-----------------------------------------------------------------------------
(***************************************************************************)
(* s_max_out_verbosity is the maximum over the part of the table that the  *)
(* loop of on_callback_change has passed, and over all of it when nobody   *)
(* is in on_callback_change.                                               *)
(***************************************************************************)
CutoffInv ==
  /\ (\A p \in Procs : pc[p] \notin Changing)
       => IsCutoff(s_max_out_verbosity, Len(s_callbacks))
  /\ \A p \in Procs : pc[p] = "recompute" =>
       /\ IsCutoff(s_max_out_verbosity, idx[p] - 1)
       /\ idx[p] <= Len(s_callbacks) + 1

(* A step that leaves the table, the cutoff and on_callback_change alone. *)
Apart ==
  /\ s_callbacks' = s_callbacks /\ s_max_out_verbosity' = s_max_out_verbosity
  /\ \A q \in Procs : pc[q] \in Changing => pc'[q] \in Changing
  /\ \A q \in Procs : pc'[q] = "recompute" => pc[q] = "recompute" /\ idx'[q] = idx[q]

(* Such a step preserves CutoffInv. *)
LEMMA CutoffApart == CutoffInv /\ Apart => CutoffInv'
BY DEF CutoffInv, Apart, IsCutoff, Changing

(* The loop of on_callback_change has passed one more callback. *)
LEMMA CutoffStep ==
  ASSUME CutoffInv, TypeOK, NEW p \in Procs, RaiseCutoff(p)
  PROVE  IsCutoff(s_max_out_verbosity, idx[p] - 1)' /\ idx'[p] <= Len(s_callbacks') + 1
<1> DEFINE k == idx[p]
           v == VerbosityOf[s_callbacks[k]]
<1>1. /\ k \in 1..Len(s_callbacks) /\ idx'[p] = k + 1
      /\ s_callbacks' = s_callbacks /\ s_callbacks \in Seq(Sinks)
      /\ \A j \in 1..Len(s_callbacks) : VerbosityOf[s_callbacks[j]] \in Int
      /\ s_max_out_verbosity \in Int
  <2>1. idx[p] \in Nat \ {0} /\ idx[p] <= Len(s_callbacks) /\ idx'[p] = idx[p] + 1
    BY DEF TypeOK, RaiseCutoff, InLoop, At
  <2>2. s_callbacks' = s_callbacks /\ s_callbacks \in Seq(Sinks) /\ s_max_out_verbosity \in Int
    BY DEF TypeOK, RaiseCutoff, table, config
  <2> QED  BY <2>1, <2>2
<1>2. s_max_out_verbosity' = IF s_max_out_verbosity < v THEN v ELSE s_max_out_verbosity
  BY DEF RaiseCutoff, Here
<1>3. IsCutoff(s_max_out_verbosity, k - 1)
  BY DEF RaiseCutoff, CutoffInv
<1>4. v \in Int
  BY <1>1
<1> HIDE DEF k, v
<1>5. s_max_out_verbosity' >= Verbosity_OFF
  BY <1>1, <1>2, <1>3, <1>4 DEF IsCutoff, Verbosity_OFF
<1>6. \A j \in 1..k : VerbosityOf[s_callbacks[j]] <= s_max_out_verbosity'
  <2> SUFFICES ASSUME NEW j \in 1..k PROVE VerbosityOf[s_callbacks[j]] <= s_max_out_verbosity'
    OBVIOUS
  <2>1. CASE j = k
    BY <1>1, <1>2, <1>4, <2>1 DEF v
  <2>2. CASE j # k
    <3>1. VerbosityOf[s_callbacks[j]] <= s_max_out_verbosity
      BY <1>1, <1>3, <2>2 DEF IsCutoff
    <3>2. VerbosityOf[s_callbacks[j]] \in Int
      BY <1>1
    <3> QED  BY <1>1, <1>2, <1>4, <3>1, <3>2
  <2> QED  BY <2>1, <2>2
<1>7. \/ s_max_out_verbosity' = Verbosity_OFF
      \/ \E j \in 1..k : VerbosityOf[s_callbacks[j]] = s_max_out_verbosity'
  <2>1. CASE s_max_out_verbosity < v
    BY <1>1, <1>2, <2>1 DEF v
  <2>2. CASE ~(s_max_out_verbosity < v)
    BY <1>1, <1>2, <1>3, <2>2 DEF IsCutoff
  <2> QED  BY <2>1, <2>2
<1>8. idx'[p] - 1 = k /\ k + 1 <= Len(s_callbacks) + 1
  BY <1>1
<1> QED  BY <1>1, <1>5, <1>6, <1>7, <1>8 DEF IsCutoff

(* Every step preserves CutoffInv: the five of a callback change, and all  *)
(* others because they are Apart.                                          *)
LEMMA NextCutoff == CoreInv /\ CutoffInv /\ [Next]_vars => CutoffInv'
<1> SUFFICES ASSUME CoreInv, CutoffInv, [Next]_vars PROVE CutoffInv'
  OBVIOUS
<1> USE DEF Waiting, Filtering, Logging, Changing, Working, Holding,
            mutex, table, config, delivery, locals
<1>0. TypeOK /\ LockInv
  BY DEF CoreInv
<1>1. ASSUME NEW t \in Threads, Log(t) PROVE CutoffInv'
  <2>1. Apart
    BY <1>0, <1>1 DEF TypeOK, Apart, Log, Call, Go
  <2> QED  BY <2>1, CutoffApart
<1>2. ASSUME NEW t \in Threads, AddCallback(t) PROVE CutoffInv'
  <2>1. Apart
    BY <1>0, <1>2 DEF TypeOK, Apart, AddCallback, Go
  <2> QED  BY <2>1, CutoffApart
<1>3. ASSUME NEW t \in Threads, RemoveCallback(t) PROVE CutoffInv'
  <2>1. Apart
    BY <1>0, <1>3 DEF TypeOK, Apart, RemoveCallback, Call, Go
  <2> QED  BY <2>1, CutoffApart
<1>4. ASSUME NEW t \in Threads, RemoveAllCallbacks(t) PROVE CutoffInv'
  <2>1. Apart
    BY <1>0, <1>4 DEF TypeOK, Apart, RemoveAllCallbacks, Call, Go
  <2> QED  BY <2>1, CutoffApart
<1>5. ASSUME NEW t \in Threads, Flush(t) PROVE CutoffInv'
  <2>1. Apart
    BY <1>0, <1>5 DEF TypeOK, Apart, Flush, Call, Go
  <2> QED  BY <2>1, CutoffApart
<1>6. ASSUME NEW p \in Procs, ReadCutoff(p) PROVE CutoffInv'
  <2>1. Apart
    BY <1>0, <1>6 DEF TypeOK, Apart, ReadCutoff, Filtered, AfterLog, Go
  <2> QED  BY <2>1, CutoffApart
<1>7. ASSUME NEW p \in Procs, RereadCutoff(p) PROVE CutoffInv'
  <2>1. Apart
    BY <1>0, <1>7 DEF TypeOK, Apart, RereadCutoff, Filtered, AfterLog, Go
  <2> QED  BY <2>1, CutoffApart
<1>8. ASSUME NEW p \in Procs, Acquire(p) PROVE CutoffInv'
  <2>1. /\ pc[p] \in Waiting /\ pc'[p] \notin Changing
        /\ \A q \in Procs \ {p} : pc'[q] = pc[q] /\ idx'[q] = idx[q]
    BY <1>0, <1>8 DEF TypeOK, Acquire, Entry, Go, At
  <2>2. Apart
    BY <1>8, <2>1 DEF Apart, Acquire
  <2> QED  BY <2>2, CutoffApart
<1>9. ASSUME NEW p \in Procs, WriteStderr(p) PROVE CutoffInv'
  <2>1. Apart
    BY <1>0, <1>9 DEF TypeOK, Apart, WriteStderr, Write, Go
  <2> QED  BY <2>1, CutoffApart
<1>10. ASSUME NEW p \in Procs, FlushStderr(p) PROVE CutoffInv'
  <2>1. Apart
    BY <1>0, <1>10 DEF TypeOK, Apart, FlushStderr, MakeDurable, Go
  <2> QED  BY <2>1, CutoffApart
<1>11. ASSUME NEW p \in Procs, CallSink(p) PROVE CutoffInv'
  <2>1. Apart
    BY <1>0, <1>11 DEF TypeOK, Apart, CallSink, Write, InLoop, Here, Go, At
  <2> QED  BY <2>1, CutoffApart
<1>12. ASSUME NEW p \in Procs, FlushSink(p) PROVE CutoffInv'
  <2>1. Apart
    BY <1>0, <1>12 DEF TypeOK, Apart, FlushSink, MakeDurable, InLoop, Here, Go, At
  <2> QED  BY <2>1, CutoffApart
<1>13. ASSUME NEW p \in Procs, EndLog(p) PROVE CutoffInv'
  <2>1. Apart
    BY <1>0, <1>13 DEF TypeOK, Apart, EndLog, Release, SpawnFlushThread, LockInv
  <2> QED  BY <2>1, CutoffApart
<1>14. ASSUME NEW p \in Procs, Push(p) PROVE CutoffInv'
  <2>1. pc'[p] = "reset" /\ \A q \in Procs \ {p} : pc'[q] = pc[q] /\ pc[q] # "recompute"
    BY <1>0, <1>14 DEF TypeOK, LockInv, Push, Go
  <2> QED  BY <2>1 DEF CutoffInv
<1>15. ASSUME NEW p \in Procs, FindAndClose(p) PROVE CutoffInv'
  <2>1. Apart
    BY <1>0, <1>15 DEF TypeOK, Apart, FindAndClose, Has, Go, At
  <2> QED  BY <2>1, CutoffApart
<1>16. ASSUME NEW p \in Procs, FindNothing(p) PROVE CutoffInv'
  <2>1. Apart
    BY <1>0, <1>16 DEF TypeOK, Apart, FindNothing, Go
  <2> QED  BY <2>1, CutoffApart
<1>17. ASSUME NEW p \in Procs, Erase(p) PROVE CutoffInv'
  <2>1. pc'[p] = "reset" /\ \A q \in Procs \ {p} : pc'[q] = pc[q] /\ pc[q] # "recompute"
    BY <1>0, <1>17 DEF TypeOK, LockInv, Erase, Go
  <2> QED  BY <2>1 DEF CutoffInv
<1>18. ASSUME NEW p \in Procs, CloseNext(p) PROVE CutoffInv'
  <2>1. Apart
    BY <1>0, <1>18 DEF TypeOK, Apart, CloseNext, InLoop, Here, At
  <2> QED  BY <2>1, CutoffApart
<1>19. ASSUME NEW p \in Procs, ClearAll(p) PROVE CutoffInv'
  <2>1. pc'[p] = "reset" /\ \A q \in Procs \ {p} : pc'[q] = pc[q] /\ pc[q] # "recompute"
    BY <1>0, <1>19 DEF TypeOK, LockInv, ClearAll, Go
  <2> QED  BY <2>1 DEF CutoffInv
<1>20. ASSUME NEW p \in Procs, ResetCutoff(p) PROVE CutoffInv'
  <2>1. /\ pc'[p] = "recompute" /\ idx'[p] = 1
        /\ \A q \in Procs \ {p} : pc'[q] # "recompute"
    BY <1>0, <1>20 DEF TypeOK, LockInv, ResetCutoff, Go, At
  <2>2. /\ s_max_out_verbosity' = Verbosity_OFF /\ s_callbacks' = s_callbacks
        /\ s_callbacks \in Seq(Sinks)
    BY <1>0, <1>20 DEF TypeOK, ResetCutoff
  <2>3. IsCutoff(s_max_out_verbosity, 0)'
    BY <2>2 DEF IsCutoff, Verbosity_OFF
  <2>4. 1 <= Len(s_callbacks) + 1
    BY <2>2
  <2> QED  BY <2>1, <2>2, <2>3, <2>4 DEF CutoffInv
<1>21. ASSUME NEW p \in Procs, RaiseCutoff(p) PROVE CutoffInv'
  <2>1. pc'[p] = "recompute" /\ \A q \in Procs \ {p} : pc'[q] # "recompute"
    BY <1>0, <1>21 DEF TypeOK, LockInv, RaiseCutoff
  <2>2. IsCutoff(s_max_out_verbosity, idx[p] - 1)' /\ idx'[p] <= Len(s_callbacks') + 1
    BY <1>0, <1>21, CutoffStep
  <2> QED  BY <2>1, <2>2 DEF CutoffInv
<1>22. ASSUME NEW p \in Procs, Return(p) PROVE CutoffInv'
  <2>1. /\ UNCHANGED <<s_callbacks, s_max_out_verbosity, idx>>
        /\ pc'[p] = "idle" /\ \A q \in Procs \ {p} : pc'[q] = pc[q]
    BY <1>0, <1>22 DEF TypeOK, Return, Go
  <2>2. CASE pc[p] = "unlock"
    <3>1. Apart
      BY <2>1, <2>2 DEF Apart
    <3> QED  BY <3>1, CutoffApart
  <2>3. CASE pc[p] = "recompute" /\ ~InLoop(p)
    <3>1. \A q \in Procs : pc'[q] \notin Changing
      BY <1>0, <2>1, <2>3 DEF TypeOK, LockInv
    <3>2. idx[p] - 1 = Len(s_callbacks)
      BY <1>0, <2>3 DEF TypeOK, CutoffInv, InLoop
    <3>3. IsCutoff(s_max_out_verbosity, Len(s_callbacks))
      BY <2>3, <3>2 DEF CutoffInv
    <3> QED  BY <2>1, <3>1, <3>3 DEF CutoffInv, IsCutoff
  <2> QED  BY <1>22, <2>2, <2>3 DEF Return
<1>23. ASSUME NEW p \in Procs, FlushStderrFirst(p) PROVE CutoffInv'
  <2>1. Apart
    BY <1>0, <1>23 DEF TypeOK, Apart, FlushStderrFirst, MakeDurable, Go
  <2> QED  BY <2>1, CutoffApart
<1>24. ASSUME NEW p \in Procs, FlushNext(p) PROVE CutoffInv'
  <2>1. Apart
    BY <1>0, <1>24 DEF TypeOK, Apart, FlushNext, MakeDurable, InLoop, Here, At
  <2> QED  BY <2>1, CutoffApart
<1>25. ASSUME NEW p \in Procs, FlushDone(p) PROVE CutoffInv'
  <2>1. Apart
    BY <1>0, <1>25 DEF TypeOK, Apart, FlushDone, Release, Go
  <2> QED  BY <2>1, CutoffApart
<1>26. ASSUME Poll PROVE CutoffInv'
  <2>1. Apart
    BY <1>0, <1>26 DEF TypeOK, Apart, Poll, Go
  <2> QED  BY <2>1, CutoffApart
<1>27. ASSUME SetFlushInterval PROVE CutoffInv'
  <2>1. Apart
    BY <1>0, <1>27 DEF TypeOK, Apart, SetFlushInterval
  <2> QED  BY <2>1, CutoffApart
<1>28. CASE UNCHANGED vars
  <2>1. Apart
    BY <1>28 DEF Apart, vars
  <2> QED  BY <2>1, CutoffApart
<1> QED
  BY <1>1, <1>2, <1>3, <1>4, <1>5, <1>6, <1>7, <1>8, <1>9, <1>10, <1>11, <1>12, <1>13, <1>14, <1>15, <1>16, <1>17, <1>18, <1>19, <1>20, <1>21, <1>22, <1>23, <1>24, <1>25, <1>26, <1>27, <1>28 DEF Next, Begin, Step, Finished

(* At the start the table is empty and the cutoff OFF. *)
LEMMA InitCutoff == Init => CutoffInv
BY DEF Init, CutoffInv, IsCutoff, Changing, Verbosity_OFF

(* Whenever s_mutex is free, s_max_out_verbosity is the maximum over the *)
(* callbacks that are installed.                                         *)
THEOREM CutoffCorrect == Spec => []CutoffExact
<1>1. CoreInv /\ CutoffInv => CutoffExact
  BY DEF CoreInv, LockInv, CutoffInv, CutoffExact, Holding, Working, Changing
<1>2. Spec => []CutoffInv
  BY CoreInvariant, InitCutoff, NextCutoff, PTL DEF Spec
<1> QED  BY CoreInvariant, <1>1, <1>2, PTL

-----------------------------------------------------------------------------
(***************************************************************************)
(* The life of a callback: from add_callback to on_close.                  *)
(***************************************************************************)
Adding(p)  == pc[p] \in {"add", "push"}
InTable(s) == \E i \in 1..Len(s_callbacks) : s_callbacks[i] = s

(* on_close was called, but the callback is still in the table. *)
Closing(s) ==
  \/ \E p \in Procs : pc[p] = "erase" /\ s_callbacks[idx[p]] = s
  \/ \E p \in Procs : \E j \in 1..Len(s_callbacks) :
       pc[p] = "close_all" /\ j < idx[p] /\ s_callbacks[j] = s

Live(s) == \/ s \in fresh
           \/ \E p \in Procs : Adding(p) /\ arg[p] = s
           \/ InTable(s) /\ ~Closing(s)

(***************************************************************************)
(* A callback is in one place: not yet added, in the hands of a thread, at *)
(* one position of the table, or gone.  It was closed, once, if and only   *)
(* if it is gone or about to be.                                           *)
(***************************************************************************)
OnePlace ==
  /\ \A i, j \in 1..Len(s_callbacks) : s_callbacks[i] = s_callbacks[j] => i = j
  /\ \A i \in 1..Len(s_callbacks) : s_callbacks[i] \notin fresh
  /\ \A p \in Procs : Adding(p) => arg[p] \notin fresh /\ ~InTable(arg[p])
  /\ \A p, q \in Procs : Adding(p) /\ Adding(q) /\ arg[p] = arg[q] => p = q

LifeInv ==
  /\ OnePlace
  /\ \A p \in Procs : arg[p] # NoSink => Adding(p) \/ pc[p] \in Changing
  /\ \A s \in Sinks : closes[s] = IF Live(s) THEN 0 ELSE 1

(* At the start no callback was added and no thread holds one. *)
LEMMA InitLife == Init => LifeInv
<1> SUFFICES ASSUME Init PROVE LifeInv
  OBVIOUS
<1>1. /\ s_callbacks = <<>> /\ fresh = Sinks
      /\ \A p \in Procs : arg[p] = NoSink /\ pc[p] \in {"unborn", "idle"}
      /\ \A s \in Sinks : closes[s] = 0
  BY DEF Init
<1>2. OnePlace
  BY <1>1 DEF OnePlace, Adding, InTable
<1> QED  BY <1>1, <1>2 DEF LifeInv, Live, Adding

(***************************************************************************)
(* A step that leaves the table and on_close alone.  It may be the one     *)
(* that takes the mutex for add_callback or remove_all_callbacks.          *)
(***************************************************************************)
LifeApart ==
  /\ s_callbacks' = s_callbacks /\ fresh' = fresh /\ closes' = closes
  /\ \A q \in Procs :
       /\ pc'[q] \in {"add", "push"} <=> pc[q] \in {"add", "push"}
       /\ pc[q] \in {"add", "push"} => arg'[q] = arg[q]
       /\ arg'[q] # NoSink =>
            arg'[q] = arg[q] /\ (pc[q] \in Changing => pc'[q] \in Changing)
       /\ pc'[q] = "erase" <=> pc[q] = "erase"
       /\ pc[q] = "erase" => idx'[q] = idx[q]
       /\ pc[q] = "close_all" => pc'[q] = "close_all" /\ idx'[q] = idx[q]
       /\ pc'[q] = "close_all" => pc[q] = "close_all" \/ idx'[q] = 1

(* Such a step preserves LifeInv. *)
LEMMA LifeUndisturbed == TypeOK /\ LifeInv /\ LifeApart => LifeInv'
<1> SUFFICES ASSUME TypeOK, LifeInv, LifeApart PROVE LifeInv'
  OBVIOUS
<1>1. OnePlace'
  BY DEF LifeInv, LifeApart, OnePlace, Adding, InTable
<1>2. \A p \in Procs : arg'[p] # NoSink => Adding(p)' \/ pc'[p] \in Changing
  BY DEF LifeInv, LifeApart, Adding
<1>3. ASSUME NEW s \in Sinks PROVE Live(s)' <=> Live(s)
  <2>1. (\E p \in Procs : Adding(p)' /\ arg'[p] = s)
          <=> \E p \in Procs : Adding(p) /\ arg[p] = s
    BY DEF LifeApart, Adding
  <2>2. InTable(s)' <=> InTable(s)
    BY DEF LifeApart, InTable
  <2>3. Closing(s)' => Closing(s)
    <3>1. CASE \E p \in Procs : pc'[p] = "erase" /\ s_callbacks'[idx'[p]] = s
      BY <3>1 DEF LifeApart, Closing
    <3>2. CASE \E p \in Procs : \E j \in 1..Len(s_callbacks') :
                 pc'[p] = "close_all" /\ j < idx'[p] /\ s_callbacks'[j] = s
      BY <3>2 DEF LifeApart, Closing
    <3> QED  BY <3>1, <3>2 DEF Closing
  <2>4. Closing(s) => Closing(s)'
    BY DEF LifeApart, Closing
  <2>5. fresh' = fresh
    BY DEF LifeApart
  <2> QED  BY <2>1, <2>2, <2>3, <2>4, <2>5 DEF Live
<1>4. \A s \in Sinks : closes'[s] = IF Live(s)' THEN 0 ELSE 1
  BY <1>3 DEF LifeInv, LifeApart
<1> QED  BY <1>1, <1>2, <1>4 DEF LifeInv

(* While a thread has the mutex and is not itself in remove_callback or     *)
(* remove_all_callbacks, no callback of the table is closed.                *)
LEMMA NoneClosing ==
  ASSUME LockInv, NEW p \in Procs, owner = p, pc[p] \notin {"erase", "close_all"}
  PROVE  \A s \in Sinks : ~Closing(s)
BY DEF LockInv, Closing, Holding, Working

(* A callback that another thread can reach is alive. *)
LEMMA HereAlive ==
  ASSUME TypeOK, LockInv, LifeInv, NEW p \in Procs, owner = p, InLoop(p),
         pc[p] \notin {"erase", "close_all"}
  PROVE  Here(p) \in Sinks /\ closes[Here(p)] = 0
<1>1. idx[p] \in 1..Len(s_callbacks) /\ s_callbacks \in Seq(Sinks)
  BY DEF TypeOK, InLoop
<1>2. Here(p) \in Sinks /\ InTable(Here(p))
  BY <1>1 DEF Here, InTable
<1>3. Live(Here(p))
  BY <1>2, NoneClosing DEF Live
<1> QED  BY <1>2, <1>3 DEF LifeInv

(* The six steps that move a callback from one place of its life to the next. *)
LEMMA LifeAdd ==
  ASSUME TypeOK, LifeInv, NEW t \in Threads, AddCallback(t)
  PROVE  LifeInv'
<1>1. PICK n \in fresh : arg' = [arg EXCEPT ![t] = n] /\ fresh' = fresh \ {n}
  BY DEF AddCallback
<1>2. /\ s_callbacks' = s_callbacks /\ closes' = closes /\ idx' = idx
      /\ pc[t] = "idle" /\ pc' = [pc EXCEPT ![t] = "add"] /\ n \in Sinks
  BY <1>1 DEF AddCallback, Go, TypeOK
<1>3. /\ \A q \in Procs : q # t => pc'[q] = pc[q] /\ arg'[q] = arg[q]
      /\ pc'[t] = "add" /\ arg'[t] = n /\ ~InTable(n)
      /\ \A q \in Procs : Adding(q) => q # t /\ arg[q] # n
  <2>1. /\ \A q \in Procs : q # t => pc'[q] = pc[q] /\ arg'[q] = arg[q]
        /\ pc'[t] = "add" /\ arg'[t] = n
    BY <1>1, <1>2 DEF TypeOK
  <2>2. ~InTable(n)
    BY <1>1 DEF LifeInv, OnePlace, InTable
  <2>3. \A q \in Procs : Adding(q) => q # t /\ arg[q] # n
    BY <1>1, <1>2 DEF LifeInv, OnePlace, Adding
  <2> QED  BY <2>1, <2>2, <2>3
<1>4. OnePlace'
  BY <1>1, <1>2, <1>3 DEF LifeInv, OnePlace, Adding, InTable
<1>5. \A p \in Procs : arg'[p] # NoSink => Adding(p)' \/ pc'[p] \in Changing
  BY <1>2, <1>3 DEF LifeInv, Adding
<1>6. ASSUME NEW s \in Sinks PROVE Live(s)' <=> Live(s)
  <2>1. (s \in fresh \/ \E p \in Procs : Adding(p) /\ arg[p] = s)
          <=> (s \in fresh' \/ \E p \in Procs : Adding(p)' /\ arg'[p] = s)
    BY <1>1, <1>2, <1>3 DEF Adding
  <2>2. InTable(s)' <=> InTable(s)
    BY <1>2 DEF InTable
  <2>3. Closing(s)' <=> Closing(s)
    BY <1>2, <1>3 DEF Closing
  <2> QED  BY <2>1, <2>2, <2>3 DEF Live
<1> QED  BY <1>2, <1>4, <1>5, <1>6 DEF LifeInv

(* add_callback puts the callback of its argument at the end of the table. *)
LEMMA LifePush ==
  ASSUME TypeOK, LockInv, LocalInv, LifeInv, NEW p \in Procs, Push(p)
  PROVE  LifeInv'
<1> DEFINE n == arg[p]
<1>1. /\ pc[p] = "push" /\ pc' = [pc EXCEPT ![p] = "reset"] /\ owner = p
      /\ fresh' = fresh /\ closes' = closes /\ arg' = arg
      /\ s_callbacks' = Append(s_callbacks, n) /\ n \in Sinks
  BY DEF Push, Go, LockInv, LocalInv, Holding, Working, table, locals
<1>2. /\ \A q \in Procs : q # p => pc'[q] = pc[q] /\ pc[q] \notin Holding
      /\ pc'[p] = "reset" /\ Adding(p) /\ n \notin fresh /\ ~InTable(n)
  BY <1>1 DEF TypeOK, LockInv, LifeInv, OnePlace, Adding
<1>3. /\ Len(s_callbacks') = Len(s_callbacks) + 1 /\ Len(s_callbacks) \in Nat
      /\ s_callbacks'[Len(s_callbacks) + 1] = n
      /\ \A j \in 1..Len(s_callbacks) : s_callbacks'[j] = s_callbacks[j]
  BY <1>1 DEF TypeOK
<1>4. \A q \in Procs : Adding(q)' => Adding(q) /\ q # p /\ arg[q] # n
  BY <1>1, <1>2 DEF Adding, LifeInv, OnePlace
<1>5. \A s : InTable(s)' <=> InTable(s) \/ s = n
  BY <1>3, SMTT(40) DEF InTable
<1>6. OnePlace'
  <2>1. \A i, j \in 1..Len(s_callbacks') : s_callbacks'[i] = s_callbacks'[j] => i = j
    <3> SUFFICES ASSUME NEW i \in 1..Len(s_callbacks'), NEW j \in 1..Len(s_callbacks'),
                        s_callbacks'[i] = s_callbacks'[j]
                 PROVE  i = j
      OBVIOUS
    <3>1. \A h \in 1..Len(s_callbacks) : s_callbacks'[h] # n
      BY <1>2, <1>3 DEF InTable
    <3>2. CASE i \in 1..Len(s_callbacks) /\ j \in 1..Len(s_callbacks)
      BY <1>3, <3>2 DEF LifeInv, OnePlace
    <3>3. CASE i = Len(s_callbacks) + 1 \/ j = Len(s_callbacks) + 1
      BY <1>3, <3>1, <3>3
    <3> QED  BY <1>3, <3>2, <3>3
  <2>2. \A i \in 1..Len(s_callbacks') : s_callbacks'[i] \notin fresh'
    BY <1>1, <1>2, <1>3 DEF LifeInv, OnePlace
  <2>3. \A q \in Procs : Adding(q)' => arg'[q] \notin fresh' /\ ~InTable(arg[q])'
    <3> SUFFICES ASSUME NEW q \in Procs, Adding(q)'
                 PROVE  arg[q] \notin fresh /\ ~InTable(arg[q])'
      BY <1>1
    <3>1. Adding(q) /\ arg[q] # n
      BY <1>4
    <3>2. arg[q] \notin fresh /\ ~InTable(arg[q])
      BY <3>1 DEF LifeInv, OnePlace
    <3> QED  BY <1>1, <1>5, <3>1, <3>2
  <2>4. \A q, r \in Procs : Adding(q)' /\ Adding(r)' /\ arg'[q] = arg'[r] => q = r
    BY <1>1, <1>4 DEF LifeInv, OnePlace
  <2> QED  BY <2>1, <2>2, <2>3, <2>4 DEF OnePlace, InTable
<1>7. \A q \in Procs : arg'[q] # NoSink => Adding(q)' \/ pc'[q] \in Changing
  BY <1>1, <1>2 DEF LifeInv, Adding, Changing
<1>8. ASSUME NEW s \in Sinks PROVE Live(s)' <=> Live(s)
  <2>1. ~Closing(s) /\ ~Closing(s)'
    BY <1>1, <1>2 DEF Closing, Holding, Working
  <2>2. (\E q \in Procs : Adding(q)' /\ arg'[q] = s) \/ s = n
          <=> \E q \in Procs : Adding(q) /\ arg[q] = s
    BY <1>1, <1>2, <1>4 DEF Adding
  <2> QED  BY <1>1, <1>5, <2>1, <2>2 DEF Live
<1> QED  BY <1>1, <1>6, <1>7, <1>8 DEF LifeInv

(* remove_callback calls on_close of the callback that it found. *)
LEMMA LifeFind ==
  ASSUME TypeOK, LockInv, LifeInv, NEW p \in Procs, FindAndClose(p)
  PROVE  LifeInv'
<1>1. PICK k \in DOMAIN s_callbacks :
         /\ closes' = [closes EXCEPT ![s_callbacks[k]] = @ + 1]
         /\ idx' = [idx EXCEPT ![p] = k]
  BY DEF FindAndClose, At
<1> DEFINE n == s_callbacks[k]
<1>2. /\ k \in 1..Len(s_callbacks) /\ n \in Sinks
      /\ s_callbacks' = s_callbacks /\ fresh' = fresh /\ arg' = arg
      /\ pc[p] = "find" /\ owner = p /\ pc'[p] = "erase" /\ idx'[p] = k
      /\ \A q \in Procs : q # p => pc'[q] = pc[q] /\ pc[q] \notin Holding
  <2>1. /\ s_callbacks' = s_callbacks /\ fresh' = fresh /\ arg' = arg
        /\ pc[p] = "find" /\ pc' = [pc EXCEPT ![p] = "erase"]
    BY DEF FindAndClose, Go
  <2>2. k \in 1..Len(s_callbacks) /\ n \in Sinks
    <3>1. s_callbacks \in Seq(Sinks)
      BY DEF TypeOK
    <3>2. k \in 1..Len(s_callbacks)
      BY <3>1
    <3> QED  BY <3>1, <3>2
  <2>3. owner = p /\ \A q \in Procs : q # p => pc[q] \notin Holding
    BY <2>1 DEF LockInv, Holding, Working
  <2> QED  BY <1>1, <2>1, <2>2, <2>3 DEF TypeOK
<1>3. \A q \in Procs :
        (Adding(q)' <=> Adding(q)) /\ (pc'[q] \in Changing <=> pc[q] \in Changing)
  BY <1>2 DEF Adding, Changing
<1>4. OnePlace'
  BY <1>2, <1>3 DEF LifeInv, OnePlace, InTable
<1>5. \A q \in Procs : arg'[q] # NoSink => Adding(q)' \/ pc'[q] \in Changing
  BY <1>2, <1>3 DEF LifeInv
<1>6. ASSUME NEW s \in Sinks PROVE closes'[s] = IF Live(s)' THEN 0 ELSE 1
  <2>1. ~Closing(s) /\ (Closing(s)' <=> s = n)
    BY <1>2 DEF Closing, Holding, Working
  <2>2. InTable(s)' <=> InTable(s)
    BY <1>2 DEF InTable
  <2>3. CASE s = n
    <3>1. InTable(s) /\ Live(s)
      BY <1>2, <2>1, <2>3 DEF InTable, Live
    <3>2. s \notin fresh' /\ \A q \in Procs : Adding(q)' => arg'[q] # s
      BY <1>2, <1>3, <2>3, <3>1 DEF LifeInv, OnePlace
    <3>3. ~Live(s)'
      BY <2>1, <2>3, <3>2 DEF Live
    <3> QED  BY <1>1, <1>2, <2>3, <3>1, <3>3 DEF TypeOK, LifeInv
  <2>4. CASE s # n
    <3>1. Live(s)' <=> Live(s)
      BY <1>2, <1>3, <2>1, <2>2, <2>4 DEF Live
    <3> QED  BY <1>1, <1>2, <2>4, <3>1 DEF TypeOK, LifeInv
  <2> QED  BY <2>3, <2>4
<1> QED  BY <1>4, <1>5, <1>6 DEF LifeInv

(* remove_callback erases the callback that it closed. *)
LEMMA LifeErase ==
  ASSUME TypeOK, LockInv, LocalInv, LifeInv, NEW p \in Procs, Erase(p)
  PROVE  LifeInv'
<1> DEFINE k == idx[p]
           n == s_callbacks[k]
<1>1. s_callbacks \in Seq(Sinks) /\ k \in 1..Len(s_callbacks) /\ n \in Sinks
  <2>1. s_callbacks \in Seq(Sinks) /\ k \in 1..Len(s_callbacks)
    BY DEF TypeOK, LocalInv, InLoop, Erase
  <2> QED  BY <2>1
<1>2. /\ s_callbacks' = RemoveAt(s_callbacks, k)
      /\ fresh' = fresh /\ closes' = closes /\ arg' = arg /\ idx' = idx
      /\ pc[p] = "erase" /\ pc'[p] = "reset"
      /\ \A q \in Procs : q # p => pc'[q] = pc[q]
  BY DEF Erase, Go, TypeOK, table, locals
<1>3. owner = p /\ \A q \in Procs : q # p => pc[q] \notin Holding
  BY <1>2 DEF LockInv, Holding, Working
<1>4. /\ Len(s_callbacks') = Len(s_callbacks) - 1
      /\ \A j \in 1..(Len(s_callbacks) - 1) :
           s_callbacks'[j] = IF j < k THEN s_callbacks[j] ELSE s_callbacks[j + 1]
  <2> HIDE DEF k
  <2> QED  BY ONLY <1>1, <1>2, RemoveAtType
<1>5. \A i, j \in 1..Len(s_callbacks) : s_callbacks[i] = s_callbacks[j] => i = j
  BY DEF LifeInv, OnePlace
<1> HIDE DEF k, n
<1>6. ASSUME NEW s PROVE InTable(s)' <=> InTable(s) /\ s # n
  <2>1. ASSUME NEW j \in 1..(Len(s_callbacks) - 1)
        PROVE  InTable(s_callbacks'[j]) /\ s_callbacks'[j] # n
    <3>1. CASE j < k
      BY <1>1, <1>4, <1>5, <3>1 DEF InTable, n
    <3>2. CASE ~(j < k)
      BY <1>1, <1>4, <1>5, <3>2 DEF InTable, n
    <3> QED  BY <3>1, <3>2
  <2>2. ASSUME NEW j \in 1..Len(s_callbacks), s_callbacks[j] # n
        PROVE  \E i \in 1..(Len(s_callbacks) - 1) : s_callbacks'[i] = s_callbacks[j]
    <3>1. CASE j < k
      BY <1>1, <1>4, <3>1
    <3>2. CASE ~(j < k)
      <4>1. j # k
        BY <2>2 DEF n
      <4>2. j - 1 \in 1..(Len(s_callbacks) - 1) /\ ~(j - 1 < k) /\ (j - 1) + 1 = j
        BY <1>1, <3>2, <4>1
      <4> QED  BY <1>4, <4>2
    <3> QED  BY <3>1, <3>2
  <2> QED  BY <1>4, <2>1, <2>2 DEF InTable
<1>7. \A q \in Procs : Adding(q)' <=> Adding(q)
  BY <1>2 DEF Adding
<1>8. OnePlace'
  <2>1. ASSUME NEW i \in 1..Len(s_callbacks'), NEW j \in 1..Len(s_callbacks'),
               s_callbacks'[i] = s_callbacks'[j]
        PROVE  i = j
    <3>1. /\ i \in 1..(Len(s_callbacks) - 1) /\ j \in 1..(Len(s_callbacks) - 1)
          /\ Len(s_callbacks) \in Nat /\ k \in Int
      BY <1>1, <1>4
    <3> DEFINE at(h) == IF h < k THEN h ELSE h + 1
    <3>2. /\ s_callbacks'[i] = s_callbacks[at(i)] /\ s_callbacks'[j] = s_callbacks[at(j)]
          /\ at(i) \in 1..Len(s_callbacks) /\ at(j) \in 1..Len(s_callbacks)
      BY <1>4, <3>1
    <3>3. at(i) = at(j)
      BY <1>5, <2>1, <3>2
    <3> QED  BY <3>1, <3>3
  <2>2. \A i \in 1..Len(s_callbacks') : s_callbacks'[i] \notin fresh'
    <3>1. \A i \in 1..Len(s_callbacks') : InTable(s_callbacks'[i])
      BY <1>6 DEF InTable
    <3> QED  BY <1>2, <3>1 DEF LifeInv, OnePlace, InTable
  <2>3. \A q \in Procs : Adding(q)' => arg'[q] \notin fresh' /\ ~InTable(arg[q])'
    BY <1>2, <1>6, <1>7 DEF LifeInv, OnePlace
  <2>4. \A q, r \in Procs : Adding(q)' /\ Adding(r)' /\ arg'[q] = arg'[r] => q = r
    BY <1>2, <1>7 DEF LifeInv, OnePlace
  <2> QED  BY <1>2, <2>1, <2>2, <2>3, <2>4 DEF OnePlace, InTable
<1>9. \A q \in Procs : arg'[q] # NoSink => Adding(q)' \/ pc'[q] \in Changing
  BY <1>2, <1>7 DEF LifeInv, Changing
<1>10. ASSUME NEW s \in Sinks PROVE Live(s)' <=> Live(s)
  <2>1. Closing(s) <=> s = n
    BY <1>1, <1>2, <1>3 DEF Closing, Holding, Working, k, n
  <2>2. ~Closing(s)'
    BY <1>2, <1>3 DEF Closing, Holding, Working
  <2>3. (\E q \in Procs : Adding(q)' /\ arg'[q] = s)
          <=> \E q \in Procs : Adding(q) /\ arg[q] = s
    BY <1>2, <1>7
  <2> QED  BY <1>2, <1>6, <2>1, <2>2, <2>3 DEF Live
<1> QED  BY <1>2, <1>8, <1>9, <1>10 DEF LifeInv

(* remove_all_callbacks closes the callback at its position of the table. *)
LEMMA LifeClose ==
  ASSUME TypeOK, LockInv, LifeInv, NEW p \in Procs, CloseNext(p)
  PROVE  LifeInv'
<1> DEFINE k == idx[p]
           n == s_callbacks[k]
<1>1. s_callbacks \in Seq(Sinks) /\ k \in 1..Len(s_callbacks) /\ n \in Sinks
  <2>1. s_callbacks \in Seq(Sinks) /\ k \in 1..Len(s_callbacks)
    BY DEF TypeOK, InLoop, CloseNext
  <2> QED  BY <2>1
<1>2. /\ s_callbacks' = s_callbacks /\ fresh' = fresh /\ arg' = arg /\ pc' = pc
      /\ closes' = [closes EXCEPT ![n] = @ + 1] /\ pc[p] = "close_all"
      /\ idx' = [idx EXCEPT ![p] = k + 1]
  BY DEF CloseNext, Here, At
<1>3. owner = p /\ \A q \in Procs : q # p => pc[q] \notin Holding
  BY <1>2 DEF LockInv, Holding, Working
<1>4. idx'[p] = k + 1
  BY <1>2 DEF TypeOK
<1> HIDE DEF k, n
<1>5. OnePlace'
  BY <1>2 DEF LifeInv, OnePlace, Adding, InTable
<1>6. \A q \in Procs : arg'[q] # NoSink => Adding(q)' \/ pc'[q] \in Changing
  BY <1>2 DEF LifeInv, Adding
<1>7. ASSUME NEW s \in Sinks PROVE closes'[s] = IF Live(s)' THEN 0 ELSE 1
  <2>1. Closing(s) <=> \E j \in 1..Len(s_callbacks) : j < k /\ s_callbacks[j] = s
    BY <1>2, <1>3 DEF Closing, Holding, Working, k
  <2>2. Closing(s)' <=> \E j \in 1..Len(s_callbacks) : j < k + 1 /\ s_callbacks[j] = s
    BY <1>2, <1>3, <1>4 DEF Closing, Holding, Working
  <2>3. /\ InTable(s)' <=> InTable(s)
        /\ \A q \in Procs : Adding(q)' <=> Adding(q)
    BY <1>2 DEF InTable, Adding
  <2>4. CASE s = n
    <3>1. InTable(s)
      BY <1>1, <2>4 DEF InTable, n
    <3>2. ~Closing(s)
      BY <1>1, <2>1, <2>4 DEF LifeInv, OnePlace, n
    <3>3. Closing(s)'
      BY <1>1, <2>2, <2>4 DEF n
    <3>4. s \notin fresh /\ \A q \in Procs : Adding(q) => arg[q] # s
      BY <3>1 DEF LifeInv, OnePlace, InTable
    <3>5. Live(s) /\ ~Live(s)'
      BY <1>2, <2>3, <3>1, <3>2, <3>3, <3>4 DEF Live
    <3> QED  BY <1>1, <1>2, <2>4, <3>5 DEF TypeOK, LifeInv
  <2>5. CASE s # n
    <3>1. Closing(s)' <=> Closing(s)
      BY <1>1, <2>1, <2>2, <2>5 DEF n
    <3>2. Live(s)' <=> Live(s)
      BY <1>2, <2>3, <3>1 DEF Live
    <3> QED  BY <1>1, <1>2, <2>5, <3>2 DEF TypeOK, LifeInv
  <2> QED  BY <2>4, <2>5
<1> QED  BY <1>5, <1>6, <1>7 DEF LifeInv

(* remove_all_callbacks empties the table when all of it is closed. *)
LEMMA LifeClear ==
  ASSUME TypeOK, LockInv, LifeInv, NEW p \in Procs, ClearAll(p)
  PROVE  LifeInv'
<1>1. /\ s_callbacks' = <<>> /\ fresh' = fresh /\ closes' = closes /\ arg' = arg
      /\ pc[p] = "close_all" /\ pc'[p] = "reset"
      /\ \A q \in Procs : q # p => pc'[q] = pc[q]
      /\ \A j \in 1..Len(s_callbacks) : j < idx[p]
  <2>1. s_callbacks \in Seq(Sinks) /\ idx[p] \in Nat
    BY DEF TypeOK
  <2> QED  BY <2>1 DEF ClearAll, InLoop, Go, TypeOK, locals
<1>2. owner = p /\ \A q \in Procs : q # p => pc[q] \notin Holding
  BY <1>1 DEF LockInv, Holding, Working
<1>3. /\ \A q \in Procs : Adding(q)' <=> Adding(q)
      /\ \A s : ~InTable(s)'
  BY <1>1 DEF Adding, InTable
<1>4. OnePlace'
  BY <1>1, <1>3 DEF LifeInv, OnePlace, InTable
<1>5. \A q \in Procs : arg'[q] # NoSink => Adding(q)' \/ pc'[q] \in Changing
  BY <1>1, <1>3 DEF LifeInv, Changing
<1>6. ASSUME NEW s \in Sinks PROVE Live(s)' <=> Live(s)
  <2>1. InTable(s) => Closing(s)
    BY <1>1 DEF InTable, Closing
  <2> QED  BY <1>1, <1>3, <2>1 DEF Live
<1> QED  BY <1>1, <1>4, <1>5, <1>6 DEF LifeInv

(* Every other step leaves the lives of the callbacks alone. *)
LEMMA NextLife == CoreInv /\ LifeInv /\ [Next]_vars => LifeInv'
<1> SUFFICES ASSUME CoreInv, LifeInv, [Next]_vars PROVE LifeInv'
  OBVIOUS
<1> USE DEF Waiting, Filtering, Logging, Changing, Working, Holding,
            mutex, table, config, delivery, locals
<1>0. TypeOK /\ LockInv /\ LocalInv /\ LifeInv
  BY DEF CoreInv
<1>1. ASSUME NEW t \in Threads, Log(t) PROVE LifeInv'
  <2>1. LifeApart
    BY <1>0, <1>1 DEF TypeOK, LifeApart, Log, Call, Go
  <2> QED  BY <1>0, <2>1, LifeUndisturbed
<1>2. ASSUME NEW t \in Threads, AddCallback(t) PROVE LifeInv'
  BY <1>0, <1>2, LifeAdd
<1>3. ASSUME NEW t \in Threads, RemoveCallback(t) PROVE LifeInv'
  <2>1. LifeApart
    BY <1>0, <1>3 DEF TypeOK, LifeApart, RemoveCallback, Call, Go
  <2> QED  BY <1>0, <2>1, LifeUndisturbed
<1>4. ASSUME NEW t \in Threads, RemoveAllCallbacks(t) PROVE LifeInv'
  <2>1. LifeApart
    BY <1>0, <1>4 DEF TypeOK, LifeApart, RemoveAllCallbacks, Call, Go
  <2> QED  BY <1>0, <2>1, LifeUndisturbed
<1>5. ASSUME NEW t \in Threads, Flush(t) PROVE LifeInv'
  <2>1. LifeApart
    BY <1>0, <1>5 DEF TypeOK, LifeApart, Flush, Call, Go
  <2> QED  BY <1>0, <2>1, LifeUndisturbed
<1>6. ASSUME NEW p \in Procs, ReadCutoff(p) PROVE LifeInv'
  <2>1. LifeApart
    BY <1>0, <1>6 DEF TypeOK, LifeApart, ReadCutoff, Filtered, AfterLog, Go
  <2> QED  BY <1>0, <2>1, LifeUndisturbed
<1>7. ASSUME NEW p \in Procs, RereadCutoff(p) PROVE LifeInv'
  <2>1. LifeApart
    BY <1>0, <1>7 DEF TypeOK, LifeApart, RereadCutoff, Filtered, AfterLog, Go
  <2> QED  BY <1>0, <2>1, LifeUndisturbed
<1>8. ASSUME NEW p \in Procs, Acquire(p) PROVE LifeInv'
  <2>0. /\ UNCHANGED <<s_callbacks, fresh, closes, arg>> /\ pc[p] \in Waiting
        /\ idx'[p] = 1 /\ pc'[p] = Entry[pc[p]]
        /\ \A q \in Procs \ {p} : pc'[q] = pc[q] /\ idx'[q] = idx[q]
    BY <1>0, <1>8 DEF TypeOK, Acquire, Go, At
  <2>1. LifeApart
    BY <1>0, <2>0 DEF LifeApart, Entry, LifeInv, Adding
  <2> QED  BY <1>0, <2>1, LifeUndisturbed
<1>9. ASSUME NEW p \in Procs, WriteStderr(p) PROVE LifeInv'
  <2>1. LifeApart
    BY <1>0, <1>9 DEF TypeOK, LifeApart, WriteStderr, Go
  <2> QED  BY <1>0, <2>1, LifeUndisturbed
<1>10. ASSUME NEW p \in Procs, FlushStderr(p) PROVE LifeInv'
  <2>1. LifeApart
    BY <1>0, <1>10 DEF TypeOK, LifeApart, FlushStderr, Go
  <2> QED  BY <1>0, <2>1, LifeUndisturbed
<1>11. ASSUME NEW p \in Procs, CallSink(p) PROVE LifeInv'
  <2>1. LifeApart
    BY <1>0, <1>11 DEF TypeOK, LifeApart, CallSink, Go, At
  <2> QED  BY <1>0, <2>1, LifeUndisturbed
<1>12. ASSUME NEW p \in Procs, FlushSink(p) PROVE LifeInv'
  <2>1. LifeApart
    BY <1>0, <1>12 DEF TypeOK, LifeApart, FlushSink, Go, At
  <2> QED  BY <1>0, <2>1, LifeUndisturbed
<1>13. ASSUME NEW p \in Procs, EndLog(p) PROVE LifeInv'
  <2>1. LifeApart
    BY <1>0, <1>13 DEF TypeOK, LifeApart, EndLog, SpawnFlushThread
  <2> QED  BY <1>0, <2>1, LifeUndisturbed
<1>14. ASSUME NEW p \in Procs, Push(p) PROVE LifeInv'
  BY <1>0, <1>14, LifePush
<1>15. ASSUME NEW p \in Procs, FindAndClose(p) PROVE LifeInv'
  BY <1>0, <1>15, LifeFind
<1>16. ASSUME NEW p \in Procs, FindNothing(p) PROVE LifeInv'
  <2>1. LifeApart
    BY <1>0, <1>16 DEF TypeOK, LifeApart, FindNothing, Go
  <2> QED  BY <1>0, <2>1, LifeUndisturbed
<1>17. ASSUME NEW p \in Procs, Erase(p) PROVE LifeInv'
  BY <1>0, <1>17, LifeErase
<1>18. ASSUME NEW p \in Procs, CloseNext(p) PROVE LifeInv'
  BY <1>0, <1>18, LifeClose
<1>19. ASSUME NEW p \in Procs, ClearAll(p) PROVE LifeInv'
  BY <1>0, <1>19, LifeClear
<1>20. ASSUME NEW p \in Procs, ResetCutoff(p) PROVE LifeInv'
  <2>1. LifeApart
    BY <1>0, <1>20 DEF TypeOK, LifeApart, ResetCutoff, Go, At
  <2> QED  BY <1>0, <2>1, LifeUndisturbed
<1>21. ASSUME NEW p \in Procs, RaiseCutoff(p) PROVE LifeInv'
  <2>1. LifeApart
    BY <1>0, <1>21 DEF TypeOK, LifeApart, RaiseCutoff, Go, At
  <2> QED  BY <1>0, <2>1, LifeUndisturbed
<1>22. ASSUME NEW p \in Procs, Return(p) PROVE LifeInv'
  <2>0. /\ UNCHANGED <<s_callbacks, fresh, closes, idx>> /\ pc'[p] = "idle"
        /\ arg'[p] = NoSink /\ pc[p] \in {"unlock", "recompute"}
        /\ \A q \in Procs \ {p} : pc'[q] = pc[q] /\ arg'[q] = arg[q]
    BY <1>0, <1>22 DEF TypeOK, Return, Go
  <2>1. LifeApart
    BY <2>0 DEF LifeApart
  <2> QED  BY <1>0, <2>1, LifeUndisturbed
<1>23. ASSUME NEW p \in Procs, FlushStderrFirst(p) PROVE LifeInv'
  <2>1. LifeApart
    BY <1>0, <1>23 DEF TypeOK, LifeApart, FlushStderrFirst, Go
  <2> QED  BY <1>0, <2>1, LifeUndisturbed
<1>24. ASSUME NEW p \in Procs, FlushNext(p) PROVE LifeInv'
  <2>1. LifeApart
    BY <1>0, <1>24 DEF TypeOK, LifeApart, FlushNext, Go, At
  <2> QED  BY <1>0, <2>1, LifeUndisturbed
<1>25. ASSUME NEW p \in Procs, FlushDone(p) PROVE LifeInv'
  <2>1. LifeApart
    BY <1>0, <1>25 DEF TypeOK, LifeApart, FlushDone, Go
  <2> QED  BY <1>0, <2>1, LifeUndisturbed
<1>26. ASSUME Poll PROVE LifeInv'
  <2>1. LifeApart
    BY <1>0, <1>26 DEF TypeOK, LifeApart, Poll, Go
  <2> QED  BY <1>0, <2>1, LifeUndisturbed
<1>27. ASSUME SetFlushInterval PROVE LifeInv'
  <2>1. LifeApart
    BY <1>0, <1>27 DEF TypeOK, LifeApart, SetFlushInterval
  <2> QED  BY <1>0, <2>1, LifeUndisturbed
<1>28. CASE UNCHANGED vars
  <2>1. LifeApart
    BY <1>28 DEF LifeApart, vars
  <2> QED  BY <1>0, <2>1, LifeUndisturbed
<1> QED
  BY <1>1, <1>2, <1>3, <1>4, <1>5, <1>6, <1>7, <1>8, <1>9, <1>10, <1>11, <1>12, <1>13, <1>14, <1>15, <1>16, <1>17, <1>18, <1>19, <1>20, <1>21, <1>22, <1>23, <1>24, <1>25, <1>26, <1>27, <1>28
  DEF Next, Begin, Step, Finished

(* The life of a callback is in order in every behaviour. *)
LEMMA LifeInvariant == Spec => []LifeInv
BY CoreInvariant, InitLife, NextLife, PTL DEF Spec

(* Whenever s_mutex is free a callback that is installed or still waits to  *)
(* be was never closed, and one that was removed was closed exactly once,   *)
(* whichever of remove_callback and remove_all_callbacks took it.           *)
THEOREM ClosedOnceCorrect == Spec => []ClosedOnce
<1>1. CoreInv /\ LifeInv => ClosedOnce
  <2> SUFFICES ASSUME CoreInv, LifeInv, owner = NoOne, NEW s \in Sinks
               PROVE  closes[s] = IF s \in Installed \cup fresh \cup {arg[t] : t \in Threads}
                                  THEN 0 ELSE 1
    BY DEF ClosedOnce
  <2>1. TypeOK /\ LockInv /\ LocalInv
    BY DEF CoreInv
  <2>2. \A p \in Procs : pc[p] \notin Holding
    BY <2>1 DEF LockInv
  <2>3. ~Closing(s)
    BY <2>2 DEF Closing, Holding, Working
  <2>4. s \in Installed <=> InTable(s)
    <3>1. DOMAIN s_callbacks = 1..Len(s_callbacks)
      BY <2>1 DEF TypeOK
    <3> QED  BY <3>1 DEF Installed, Range, InTable
  <2>5. (\E p \in Procs : Adding(p) /\ arg[p] = s) <=> s \in {arg[t] : t \in Threads}
    <3>1. ~Adding(FlushThread)
      BY <2>1 DEF LocalInv, Adding
    <3>2. ASSUME NEW t \in Threads, arg[t] = s PROVE Adding(t)
      BY <2>2, <3>2 DEF LifeInv, Holding, Working
    <3> QED  BY <3>1, <3>2
  <2> QED  BY <2>3, <2>4, <2>5 DEF LifeInv, Live
<1> QED  BY CoreInvariant, LifeInvariant, <1>1, PTL

(* A callback whose on_close was called gets no message and no flush any    *)
(* more: a thread that passed the cutoff before the removal finds the table *)
(* without it.                                                              *)
THEOREM NoUseAfterCloseCorrect == Spec => NoUseAfterClose
<1> DEFINE Untouched == \A s \in Sinks : closes[s] > 0 => UNCHANGED <<out[s], flushed[s]>>
<1>1. CoreInv /\ LifeInv /\ [Next]_vars => [Untouched]_vars
  <2> SUFFICES ASSUME CoreInv, LifeInv, [Next]_vars,
                      NEW s \in Sinks, closes[s] > 0,
                      ~UNCHANGED <<out[s], flushed[s]>>
               PROVE  FALSE
    OBVIOUS
  <2>1. TypeOK /\ LockInv /\ LocalInv
    BY DEF CoreInv
  <2>2. \/ \E p \in Procs : WriteStderr(p) \/ FlushStderr(p) \/ FlushStderrFirst(p)
        \/ \E p \in Procs : CallSink(p) \/ FlushSink(p) \/ FlushNext(p)
    <3>1. out' # out \/ flushed' # flushed
      OBVIOUS
    <3> QED
      BY <3>1 DEF vars, delivery, Next, Begin, Step, Poll, SetFlushInterval, Finished,
         Log, AddCallback, RemoveCallback, RemoveAllCallbacks, Flush, Call,
         ReadCutoff, RereadCutoff, Acquire, EndLog, Push, FindAndClose, FindNothing,
         Erase, CloseNext, ClearAll, ResetCutoff, RaiseCutoff, Return, FlushDone
  <2>3. CASE \E p \in Procs : WriteStderr(p) \/ FlushStderr(p) \/ FlushStderrFirst(p)
    BY <2>1, <2>3 DEF TypeOK, WriteStderr, FlushStderr, FlushStderrFirst, Write, MakeDurable
  <2>4. CASE \E p \in Procs : CallSink(p) \/ FlushSink(p) \/ FlushNext(p)
    <3>1. PICK p \in Procs : CallSink(p) \/ FlushSink(p) \/ FlushNext(p)
      BY <2>4
    <3>2. pc[p] \in {"sinks", "sink_flush", "flush_sinks"} /\ InLoop(p)
      BY <2>1, <3>1 DEF CallSink, FlushSink, FlushNext, LocalInv
    <3>3. owner = p
      BY <2>1, <3>2 DEF LockInv, Holding, Logging, Working
    <3>4. Here(p) \in Sinks /\ closes[Here(p)] = 0
      BY <2>1, <3>2, <3>3, HereAlive
    <3>5. s # Here(p)
      BY <3>4
    <3> QED
      BY <2>1, <3>1, <3>4, <3>5 DEF TypeOK, CallSink, FlushSink, FlushNext, Write, MakeDurable
  <2> QED  BY <2>2, <2>3, <2>4
<1> QED  BY CoreInvariant, LifeInvariant, <1>1, PTL DEF Spec, NoUseAfterClose

-----------------------------------------------------------------------------
(***************************************************************************)
(* Text that was written is flushed or known to need it: the mark          *)
(* s_needs_flushing that the flush thread reads without the mutex; and in  *)
(* the unbuffered mode it is flushed by the call that wrote it.            *)
(***************************************************************************)
Unused(s) == \/ s \in fresh
             \/ \E p \in Procs : Adding(p) /\ arg[p] = s

Durable(o) == flushed[o] = Len(out[o])

(* The outputs that flush() reaches. *)
Watched(o) == o = Stderr \/ (o \in Flushable /\ InTable(o))

(* A thread in the unbuffered mode wrote to o and is about to flush it. *)
FlushComing(o) ==
  \E p \in Procs :
    \/ pc[p] = "stderr_flush" /\ o = Stderr
    \/ pc[p] = "sink_flush" /\ o = Here(p)

(***************************************************************************)
(* An output that flush() reaches is durable, or marked, or about to be    *)
(* flushed; and flush() has made durable what it passed, so that it may    *)
(* clear the mark.  A callback not yet in the table was given nothing.     *)
(***************************************************************************)
NoneLost == \A o \in Outputs :
              Watched(o) => Durable(o) \/ s_needs_flushing \/ FlushComing(o)

Passed(p) == /\ Durable(Stderr)
             /\ \A j \in 1..Len(s_callbacks) :
                  j < idx[p] /\ s_callbacks[j] \in Flushable => Durable(s_callbacks[j])

FlushInv ==
  /\ \A s \in Sinks : Unused(s) => out[s] = <<>> /\ flushed[s] = 0
  /\ NoneLost
  /\ \A p \in Procs : pc[p] = "flush_sinks" => Passed(p)
  /\ \A p \in Procs : pc[p] = "flush_stderr" => idx[p] = 1


(* At the start nothing is written. *)
LEMMA InitFlush == Init => FlushInv
<1> SUFFICES ASSUME Init PROVE FlushInv
  OBVIOUS
<1>1. /\ \A p \in Procs : pc[p] \in {"unborn", "idle"}
      /\ \A o \in Outputs : out[o] = <<>> /\ flushed[o] = 0
  BY DEF Init
<1>2. NoneLost
  BY <1>1 DEF NoneLost, Durable, Watched
<1> QED  BY <1>1, <1>2 DEF FlushInv

(* A step that leaves the outputs, the table and every flush alone. *)
FlushApart ==
  /\ out' = out /\ flushed' = flushed /\ s_needs_flushing' = s_needs_flushing
  /\ s_callbacks' = s_callbacks
  /\ \A s \in Sinks : Unused(s)' => Unused(s)
  /\ \A q \in Procs :
       /\ pc[q] \in {"stderr_flush", "sink_flush"} => pc'[q] = pc[q] /\ idx'[q] = idx[q]
       /\ pc'[q] = "flush_sinks" => pc[q] = "flush_sinks" /\ idx'[q] = idx[q]
       /\ pc'[q] = "flush_stderr" =>
            idx'[q] = 1 \/ (pc[q] = "flush_stderr" /\ idx'[q] = idx[q])

(* A step that writes, flushes and clears nothing preserves FlushInv. *)
LEMMA FlushUndisturbed == FlushInv /\ FlushApart => FlushInv'
<1> SUFFICES ASSUME FlushInv, FlushApart PROVE FlushInv'
  OBVIOUS
<1>1. \A s \in Sinks : Unused(s)' => out'[s] = <<>> /\ flushed'[s] = 0
  BY DEF FlushInv, FlushApart
<1>2. NoneLost'
  <2>1. \A o \in Outputs : FlushComing(o) => FlushComing(o)'
    BY DEF FlushApart, FlushComing, Here
  <2>2. \A o \in Outputs :
          (Watched(o)' <=> Watched(o)) /\ (Durable(o)' <=> Durable(o))
    BY DEF FlushApart, Watched, Durable, InTable
  <2> SUFFICES ASSUME NEW o \in Outputs, Watched(o)'
               PROVE  Durable(o)' \/ s_needs_flushing' \/ FlushComing(o)'
    BY Zenon DEF NoneLost
  <2>0. Watched(o)
    BY <2>2
  <2>3. Durable(o) \/ s_needs_flushing \/ FlushComing(o)
    BY Zenon, <2>0 DEF FlushInv, NoneLost
  <2>4. CASE Durable(o) \/ FlushComing(o)
    BY Zenon, <2>1, <2>2, <2>4
  <2>5. CASE s_needs_flushing
    BY Zenon, <2>5 DEF FlushApart
  <2> QED  BY Zenon, <2>3, <2>4, <2>5
<1>3. \A p \in Procs : pc'[p] = "flush_sinks" => Passed(p)'
  BY DEF FlushInv, FlushApart, Passed, Durable
<1>4. \A p \in Procs : pc'[p] = "flush_stderr" => idx'[p] = 1
  BY DEF FlushInv, FlushApart
<1> QED  BY <1>1, <1>2, <1>3, <1>4 DEF FlushInv

(***************************************************************************)
(* The steps of a thread p that holds the mutex and changes an output, the *)
(* table or the mark: no other thread is about to flush, or in flush().    *)
(***************************************************************************)
Alone(p) == /\ owner = p
            /\ \A q \in Procs : q # p => pc[q] \notin Holding /\ pc'[q] = pc[q]
            /\ pc[p] \in Holding

(* A step that does not write and leaves p outside of flush(). *)
LEMMA FlushTable ==
  ASSUME LockInv, FlushInv, NEW p \in Procs, Alone(p),
         pc[p] \notin {"stderr_flush", "sink_flush"},
         pc'[p] \notin {"flush_stderr", "flush_sinks"},
         UNCHANGED <<out, flushed, s_needs_flushing>>,
         \A s \in Sinks : Unused(s)' => Unused(s),
         \A s \in Sinks : InTable(s)' => InTable(s) \/ Unused(s)
  PROVE  FlushInv'
<1>1. \A q \in Procs : pc'[q] \notin {"flush_stderr", "flush_sinks"}
  BY DEF Alone, Holding, Working
<1>2. \A o \in Outputs : ~FlushComing(o)
  BY DEF Alone, FlushComing, Holding, Logging
<1>3. \A s \in Sinks : Unused(s) => Durable(s)
  BY DEF FlushInv, Durable
<1>4. NoneLost'
  <2> SUFFICES ASSUME NEW o \in Outputs, Watched(o)'
               PROVE  Durable(o) \/ s_needs_flushing
    BY DEF NoneLost, Durable
  <2>1. Watched(o) \/ Unused(o)
    BY DEF Watched
  <2> QED  BY <1>2, <1>3, <2>1 DEF FlushInv, NoneLost, Watched
<1> QED  BY <1>1, <1>4 DEF FlushInv

(* Writing marks the output or is followed by its flush. *)
LEMMA FlushWrite ==
  ASSUME TypeOK, LockInv, LocalInv, LifeInv, FlushInv, NEW p \in Procs,
         WriteStderr(p) \/ CallSink(p)
  PROVE  FlushInv'
<1>0. PICK o : o = IF pc[p] = "stderr" THEN Stderr ELSE Here(p)
  OBVIOUS
<1>1. Alone(p) /\ pc[p] \in {"stderr", "sinks"}
  BY DEF WriteStderr, CallSink, Go, TypeOK, LockInv, Alone, Holding, Logging
<1>2. o \in Outputs /\ ~Unused(o)
  <2>1. CASE pc[p] = "stderr"
    BY <1>0, <2>1 DEF Unused, Adding, TypeOK, LocalInv
  <2>2. CASE pc[p] # "stderr"
    <3>1. idx[p] \in 1..Len(s_callbacks) /\ s_callbacks \in Seq(Sinks)
      BY <2>2 DEF CallSink, WriteStderr, InLoop, TypeOK
    <3>2. Here(p) \in Sinks /\ InTable(Here(p)) /\ Here(p) \notin fresh
      BY <3>1 DEF Here, InTable, LifeInv, OnePlace
    <3> QED  BY <1>0, <2>2, <3>2 DEF Unused, LifeInv, OnePlace
  <2> QED  BY <2>1, <2>2
<1>3. /\ s_callbacks' = s_callbacks /\ flushed' = flushed
      /\ UNCHANGED <<fresh, arg>>
      /\ \A q \in Outputs : q # o => out'[q] = out[q]
      /\ pc'[p] \in {"stderr_flush", "sink_flush", "sinks"}
  BY <1>0 DEF WriteStderr, CallSink, Write, Go, TypeOK, table, locals
<1>4. \/ out' = out /\ s_needs_flushing' = s_needs_flushing
      \/ s_needs_flushing' = TRUE
      \/ s_needs_flushing' = s_needs_flushing /\ FlushComing(o)'
  <2>1. CASE WriteStderr(p) /\ Wants(Stderr, cur[p]) /\ g_flush_interval_ms = 0
    <3>1. pc'[p] = "stderr_flush" /\ o = Stderr
      BY <1>0, <2>1 DEF WriteStderr, Go, TypeOK
    <3>2. s_needs_flushing' = s_needs_flushing
      BY Zenon, <2>1 DEF WriteStderr
    <3>3. FlushComing(o)'
      BY <3>1 DEF FlushComing
    <3> QED  BY Zenon, <3>2, <3>3
  <2>2. CASE CallSink(p) /\ Wants(Here(p), cur[p]) /\ g_flush_interval_ms = 0
    <3>1. pc'[p] = "sink_flush" /\ Here(p)' = o /\ s_needs_flushing' = s_needs_flushing
      BY <1>0, <1>3, <2>2 DEF CallSink, Go, TypeOK, Here
    <3> QED  BY <3>1 DEF FlushComing
  <2> QED  BY <2>1, <2>2 DEF WriteStderr, CallSink
<1>5. \A s \in Sinks : Unused(s)' <=> Unused(s)
  BY <1>1, <1>3 DEF Unused, Adding, Alone
<1>6. \A s \in Sinks : Unused(s)' => out'[s] = <<>> /\ flushed'[s] = 0
  BY <1>2, <1>3, <1>5 DEF FlushInv
<1>7. \A q \in Procs : pc'[q] \notin {"flush_stderr", "flush_sinks"}
  BY <1>1, <1>3 DEF Alone, Holding, Working
<1>8. NoneLost'
  <2>1. \A q \in Outputs : ~FlushComing(q)
    BY <1>1 DEF Alone, FlushComing, Holding, Logging
  <2>2. \A q \in Outputs : Watched(q)' <=> Watched(q)
    BY <1>3 DEF Watched, InTable
  <2>3. \A q \in Outputs : Watched(q) => Durable(q) \/ s_needs_flushing
    BY Zenon, <2>1 DEF FlushInv, NoneLost
  <2>4. \A q \in Outputs : q # o => (Durable(q)' <=> Durable(q))
    BY <1>3 DEF Durable
  <2>5. out' = out => (Durable(o)' <=> Durable(o))
    BY <1>3 DEF Durable
  <2> SUFFICES ASSUME NEW q \in Outputs, Watched(q)'
               PROVE  Durable(q)' \/ s_needs_flushing' \/ FlushComing(q)'
    BY Zenon DEF NoneLost
  <2>6. Durable(q) \/ s_needs_flushing
    BY Zenon, <2>2, <2>3
  <2>7. CASE s_needs_flushing' = TRUE
    BY Zenon, <2>7
  <2>8. CASE out' = out /\ s_needs_flushing' = s_needs_flushing
    <3>1. Durable(q)' <=> Durable(q)
      BY <2>4, <2>5, <2>8
    <3> QED  BY Zenon, <2>6, <2>8, <3>1
  <2>9. CASE s_needs_flushing' = s_needs_flushing /\ FlushComing(o)'
    <3>1. CASE q = o
      BY Zenon, <2>9, <3>1
    <3>2. CASE q # o
      <4>1. Durable(q)' <=> Durable(q)
        BY <2>4, <3>2
      <4> QED  BY Zenon, <2>6, <2>9, <4>1
    <3> QED  BY <3>1, <3>2
  <2> QED  BY Zenon, <1>4, <2>7, <2>8, <2>9
<1> QED  BY <1>6, <1>7, <1>8 DEF FlushInv

(* The flush of the unbuffered mode makes durable what was just written. *)
LEMMA FlushAfterWrite ==
  ASSUME TypeOK, LockInv, LocalInv, FlushInv, NEW p \in Procs,
         FlushStderr(p) \/ FlushSink(p)
  PROVE  FlushInv'
<1>0. PICK o : o = IF pc[p] = "stderr_flush" THEN Stderr ELSE Here(p)
  OBVIOUS
<1>1. Alone(p) /\ pc[p] \in {"stderr_flush", "sink_flush"}
  BY DEF FlushStderr, FlushSink, Go, TypeOK, LockInv, Alone, Holding, Logging
<1>2. o \in Outputs
  <2>1. pc[p] = "sink_flush" => idx[p] \in 1..Len(s_callbacks) /\ s_callbacks \in Seq(Sinks)
    BY DEF LocalInv, TypeOK, InLoop
  <2> QED  BY <1>0, <1>1, <2>1 DEF Here
<1>3. /\ UNCHANGED <<s_callbacks, fresh, arg, out, s_needs_flushing>>
      /\ pc'[p] = "sinks"
      /\ flushed' = [flushed EXCEPT ![o] = Len(out[o])] \/ (flushed' = flushed /\ ~Watched(o))
  <2>1. CASE FlushStderr(p)
    BY <1>0, <2>1 DEF FlushStderr, MakeDurable, Go, TypeOK, table, locals
  <2>2. CASE FlushSink(p)
    <3>1. pc[p] = "sink_flush" => o \in Sinks
      <4>1. pc[p] = "sink_flush" => idx[p] \in 1..Len(s_callbacks) /\ s_callbacks \in Seq(Sinks)
        BY DEF LocalInv, TypeOK, InLoop
      <4> QED  BY <1>0, <4>1 DEF Here
    <3> QED  BY <1>0, <2>2, <3>1 DEF FlushSink, MakeDurable, Go, TypeOK, table, Watched
  <2> QED  BY <2>1, <2>2
<1>4. ASSUME NEW q \in Outputs, FlushComing(q) PROVE q = o
  <2>1. PICK r \in Procs :
          \/ pc[r] = "stderr_flush" /\ q = Stderr
          \/ pc[r] = "sink_flush" /\ q = Here(r)
    BY <1>4 DEF FlushComing
  <2>2. r = p
    BY <1>1, <2>1 DEF Alone, Holding, Logging
  <2> QED  BY <1>0, <2>1, <2>2
<1>5. \A q \in Outputs : q # o => flushed'[q] = flushed[q]
  BY <1>3 DEF TypeOK
<1>6. \A s \in Sinks : Unused(s)' => out'[s] = <<>> /\ flushed'[s] = 0
  <2>1. \A s \in Sinks : Unused(s)' <=> Unused(s)
    BY <1>1, <1>3 DEF Unused, Adding, Alone
  <2>2. \A s \in Sinks : Unused(s) => out[s] = <<>> /\ flushed[s] = 0
    BY DEF FlushInv
  <2>3. Len(<<>>) = 0
    OBVIOUS
  <2>4. out[o] = <<>> /\ flushed[o] = 0 => flushed'[o] = 0
    BY <1>2, <1>3, <2>3 DEF TypeOK
  <2> QED  BY <1>3, <1>5, <2>1, <2>2, <2>4
<1>7. \A q \in Procs : pc'[q] \notin {"flush_stderr", "flush_sinks"}
  BY <1>1, <1>3 DEF Alone, Holding, Working
<1>8. NoneLost'
  <2>1. \A q \in Outputs : Watched(q)' <=> Watched(q)
    BY <1>3 DEF Watched, InTable
  <2>2. \A q \in Outputs : q # o => (Durable(q)' <=> Durable(q))
    BY <1>3, <1>5 DEF Durable
  <2>3. Watched(o) => Durable(o)'
    BY <1>2, <1>3 DEF Durable, TypeOK
  <2>4. s_needs_flushing' = s_needs_flushing /\ NoneLost
    BY <1>3 DEF FlushInv
  <2> QED  BY Zenon, <1>4, <2>1, <2>2, <2>3, <2>4 DEF NoneLost
<1> QED  BY <1>6, <1>7, <1>8 DEF FlushInv

(* The steps of flush(): the mark is cleared when all is durable. *)
LEMMA FlushCall ==
  ASSUME TypeOK, LockInv, FlushInv, NEW p \in Procs,
         FlushStderrFirst(p) \/ FlushNext(p) \/ FlushDone(p)
  PROVE  FlushInv'
<1>1. /\ Alone(p) /\ pc[p] \in {"flush_stderr", "flush_sinks"}
      /\ \A q \in Procs : pc'[q] \in {"flush_stderr", "flush_sinks"} => q = p
  BY DEF FlushStderrFirst, FlushNext, FlushDone, Go, TypeOK, LockInv, Alone, Holding, Working
<1>2. UNCHANGED <<s_callbacks, fresh, arg, out>>
  <2>1. CASE FlushStderrFirst(p)
    BY <2>1 DEF FlushStderrFirst, table, locals
  <2>2. CASE FlushNext(p)
    BY <2>2 DEF FlushNext, table
  <2>3. CASE FlushDone(p)
    BY <2>3 DEF FlushDone, table, locals
  <2> QED  BY <2>1, <2>2, <2>3
<1>3. \A o \in Outputs : ~FlushComing(o)
  BY <1>1 DEF Alone, FlushComing, Holding, Logging
<1>4. /\ \A s \in Sinks : Unused(s)' <=> Unused(s)
      /\ \A o \in Outputs : Watched(o)' <=> Watched(o)
  <2>1. ~Adding(p) /\ ~Adding(p)'
    BY <1>1 DEF FlushStderrFirst, FlushNext, FlushDone, Go, TypeOK, Adding
  <2> QED  BY <1>1, <1>2, <2>1 DEF Unused, Adding, Alone, Watched, InTable
<1>5. CASE FlushDone(p)
  <2>1. \A o \in Outputs : Watched(o) => Durable(o)
    <3>1. \A j \in 1..Len(s_callbacks) : j < idx[p]
      BY <1>5 DEF FlushDone, InLoop, TypeOK
    <3>2. Passed(p)
      BY <1>5 DEF FlushDone, FlushInv
    <3> QED  BY <3>1, <3>2 DEF Passed, Watched, InTable
  <2>2. flushed' = flushed /\ pc'[p] = "idle"
    BY <1>5 DEF FlushDone, Go, TypeOK
  <2>3. \A o \in Outputs : Watched(o)' => Durable(o)'
    BY <1>2, <1>4, <2>1, <2>2 DEF Durable
  <2>4. NoneLost'
    BY Zenon, <2>3 DEF NoneLost
  <2> QED  BY <1>1, <1>2, <1>4, <2>2, <2>4 DEF FlushInv
<1>6. CASE FlushStderrFirst(p) \/ FlushNext(p)
  <2>0. PICK o : o = IF pc[p] = "flush_stderr" THEN Stderr ELSE Here(p)
    OBVIOUS
  <2>1. o \in Outputs
    <3>1. pc[p] = "flush_sinks" => idx[p] \in 1..Len(s_callbacks) /\ s_callbacks \in Seq(Sinks)
      BY <1>6 DEF FlushStderrFirst, FlushNext, InLoop, TypeOK
    <3> QED  BY <1>1, <2>0, <3>1 DEF Here
  <2>2. /\ s_needs_flushing' = s_needs_flushing /\ pc'[p] = "flush_sinks"
        /\ \/ flushed' = [flushed EXCEPT ![o] = Len(out[o])]
           \/ flushed' = flushed /\ o \notin Flushable /\ o # Stderr
    <3>1. CASE FlushStderrFirst(p)
      BY <2>0, <3>1 DEF FlushStderrFirst, MakeDurable, Go, TypeOK
    <3>2. CASE FlushNext(p)
      <4>1. o = Here(p) /\ o \in Sinks
        <5>1. pc[p] = "flush_sinks" /\ idx[p] \in 1..Len(s_callbacks) /\ s_callbacks \in Seq(Sinks)
          BY <3>2 DEF FlushNext, InLoop, TypeOK
        <5> QED  BY <2>0, <5>1 DEF Here
      <4> QED  BY <3>2, <4>1 DEF FlushNext, MakeDurable
    <3> QED  BY <1>6, <3>1, <3>2
  <2>3. \A q \in Outputs : q # o => flushed'[q] = flushed[q]
    BY <2>2 DEF TypeOK
  <2>4. \A q \in Outputs : Durable(q) => Durable(q)'
    BY <1>2, <2>1, <2>2 DEF Durable, TypeOK
  <2>5. o \in Flushable \cup {Stderr} => Durable(o)'
    BY <1>2, <2>1, <2>2 DEF Durable, TypeOK
  <2>6. NoneLost'
    <3> SUFFICES ASSUME NEW q \in Outputs, Watched(q)'
                 PROVE  Durable(q)' \/ s_needs_flushing' \/ FlushComing(q)'
      BY Zenon DEF NoneLost
    <3>1. Watched(q) /\ ~FlushComing(q)
      BY <1>3, <1>4
    <3>2. Durable(q) \/ s_needs_flushing
      BY Zenon, <3>1 DEF FlushInv, NoneLost
    <3>3. CASE Durable(q)
      BY Zenon, <2>4, <3>3
    <3>4. CASE s_needs_flushing
      BY Zenon, <2>2, <3>4
    <3> QED  BY Zenon, <3>2, <3>3, <3>4
  <2>7. \A s \in Sinks : Unused(s)' => out'[s] = <<>> /\ flushed'[s] = 0
    <3>1. \A s \in Sinks : Unused(s)' => out[s] = <<>> /\ flushed[s] = 0
      BY <1>4 DEF FlushInv
    <3>2. Len(<<>>) = 0
      OBVIOUS
    <3>3. out[o] = <<>> /\ flushed[o] = 0 => flushed'[o] = 0
      BY <2>1, <2>2, <3>2 DEF TypeOK
    <3> QED  BY <1>2, <2>3, <3>1, <3>3
  <2>8. Passed(p)'
    <3>1. CASE FlushStderrFirst(p)
      <4>1. o = Stderr /\ idx'[p] = 1 /\ s_callbacks \in Seq(Sinks)
        BY <2>0, <3>1 DEF FlushStderrFirst, FlushInv, locals, TypeOK
      <4>2. ~\E j \in 1..Len(s_callbacks') : j < idx'[p]
        BY <1>2, <4>1
      <4> QED  BY <2>5, <4>1, <4>2 DEF Passed
    <3>2. CASE FlushNext(p)
      <4>1. /\ Passed(p) /\ pc[p] = "flush_sinks" /\ idx'[p] = idx[p] + 1
            /\ o = s_callbacks[idx[p]] /\ s_callbacks \in Seq(Sinks) /\ idx[p] \in Nat
        BY <2>0, <3>2 DEF FlushNext, FlushInv, At, Here, TypeOK
      <4>2. Durable(Stderr)'
        BY <2>4, <4>1 DEF Passed
      <4>3. ASSUME NEW j \in 1..Len(s_callbacks), j < idx[p] + 1, s_callbacks[j] \in Flushable
            PROVE  flushed'[s_callbacks[j]] = Len(out'[s_callbacks[j]])
        <5>1. CASE j = idx[p]
          BY <2>5, <4>1, <4>3, <5>1 DEF Durable
        <5>2. CASE j # idx[p]
          <6>1. j < idx[p] /\ s_callbacks[j] \in Outputs
            BY <4>1, <4>3, <5>2
          <6>2. Durable(s_callbacks[j])
            BY <4>1, <4>3, <6>1 DEF Passed
          <6> QED  BY <2>4, <6>1, <6>2 DEF Durable
        <5> QED  BY <5>1, <5>2
      <4> QED  BY <1>2, <4>1, <4>2, <4>3 DEF Passed, Durable
    <3> QED  BY <1>6, <3>1, <3>2
  <2> QED  BY <1>1, <2>2, <2>6, <2>7, <2>8 DEF FlushInv
<1> QED  BY <1>5, <1>6

(* Every other step leaves the outputs, the table and the mark alone, or   *)
(* only takes callbacks out of the table.                                  *)
LEMMA NextFlush == CoreInv /\ LifeInv /\ FlushInv /\ [Next]_vars => FlushInv'
<1> SUFFICES ASSUME CoreInv, LifeInv, FlushInv, [Next]_vars PROVE FlushInv'
  OBVIOUS
<1> USE DEF Waiting, Filtering, Logging, Changing, Working, Holding,
            mutex, table, config, delivery, locals
<1>0. TypeOK /\ LockInv /\ LocalInv /\ LifeInv /\ FlushInv
  BY DEF CoreInv
<1>1. ASSUME NEW t \in Threads, Log(t) PROVE FlushInv'
  <2>1. FlushApart
    BY <1>0, <1>1 DEF TypeOK, FlushApart, Unused, Adding, Log, Call, Go
  <2> QED  BY <1>0, <2>1, FlushUndisturbed
<1>2. ASSUME NEW t \in Threads, AddCallback(t) PROVE FlushInv'
  <2>0. /\ UNCHANGED <<out, flushed, s_needs_flushing, s_callbacks, idx>>
        /\ \A s \in Sinks : Unused(s)' => Unused(s)
        /\ pc'[t] = "add" /\ pc[t] = "idle" /\ \A q \in Procs : q # t => pc'[q] = pc[q]
    <3>1. PICK n \in fresh : arg' = [arg EXCEPT ![t] = n] /\ fresh' = fresh \ {n}
      BY <1>2 DEF AddCallback
    <3>2. pc' = [pc EXCEPT ![t] = "add"] /\ pc[t] = "idle"
      BY <1>2 DEF AddCallback, Go
    <3>3. \A s \in Sinks : Unused(s)' => Unused(s)
      BY <1>0, <3>1, <3>2 DEF Unused, Adding, TypeOK
    <3> QED  BY <1>0, <1>2, <3>2, <3>3 DEF AddCallback, TypeOK
  <2>1. FlushApart
    BY <2>0 DEF FlushApart
  <2> QED  BY <1>0, <2>1, FlushUndisturbed
<1>3. ASSUME NEW t \in Threads, RemoveCallback(t) PROVE FlushInv'
  <2>1. FlushApart
    BY <1>0, <1>3 DEF TypeOK, FlushApart, Unused, Adding, RemoveCallback, Call, Go
  <2> QED  BY <1>0, <2>1, FlushUndisturbed
<1>4. ASSUME NEW t \in Threads, RemoveAllCallbacks(t) PROVE FlushInv'
  <2>1. FlushApart
    BY <1>0, <1>4 DEF TypeOK, FlushApart, Unused, Adding, RemoveAllCallbacks, Call, Go
  <2> QED  BY <1>0, <2>1, FlushUndisturbed
<1>5. ASSUME NEW t \in Threads, Flush(t) PROVE FlushInv'
  <2>1. FlushApart
    BY <1>0, <1>5 DEF TypeOK, FlushApart, Unused, Adding, Flush, Call, Go
  <2> QED  BY <1>0, <2>1, FlushUndisturbed
<1>6. ASSUME NEW p \in Procs, ReadCutoff(p) PROVE FlushInv'
  <2>1. FlushApart
    BY <1>0, <1>6 DEF TypeOK, FlushApart, Unused, Adding, ReadCutoff, Filtered, AfterLog, Go
  <2> QED  BY <1>0, <2>1, FlushUndisturbed
<1>7. ASSUME NEW p \in Procs, RereadCutoff(p) PROVE FlushInv'
  <2>1. FlushApart
    BY <1>0, <1>7 DEF TypeOK, FlushApart, Unused, Adding, RereadCutoff, Filtered, AfterLog, Go
  <2> QED  BY <1>0, <2>1, FlushUndisturbed
<1>8. ASSUME NEW p \in Procs, Acquire(p) PROVE FlushInv'
  <2>0. /\ UNCHANGED <<out, flushed, s_needs_flushing, s_callbacks, fresh, arg>>
        /\ pc[p] \in Waiting /\ idx'[p] = 1 /\ pc'[p] = Entry[pc[p]]
        /\ \A q \in Procs \ {p} : pc'[q] = pc[q] /\ idx'[q] = idx[q]
    BY <1>0, <1>8 DEF TypeOK, Acquire, Go, At
  <2>1. FlushApart
    BY <2>0 DEF FlushApart, Entry, Unused, Adding
  <2> QED  BY <1>0, <2>1, FlushUndisturbed
<1>9. ASSUME NEW p \in Procs, WriteStderr(p) PROVE FlushInv'
  BY <1>0, <1>9, FlushWrite
<1>10. ASSUME NEW p \in Procs, FlushStderr(p) PROVE FlushInv'
  BY <1>0, <1>10, FlushAfterWrite
<1>11. ASSUME NEW p \in Procs, CallSink(p) PROVE FlushInv'
  BY <1>0, <1>11, FlushWrite
<1>12. ASSUME NEW p \in Procs, FlushSink(p) PROVE FlushInv'
  BY <1>0, <1>12, FlushAfterWrite
<1>13. ASSUME NEW p \in Procs, EndLog(p) PROVE FlushInv'
  <2>1. FlushApart
    BY <1>0, <1>13 DEF TypeOK, FlushApart, Unused, Adding, EndLog, SpawnFlushThread
  <2> QED  BY <1>0, <2>1, FlushUndisturbed
<1>14. ASSUME NEW p \in Procs, Push(p) PROVE FlushInv'
  <2>1. /\ Alone(p) /\ UNCHANGED <<out, flushed, s_needs_flushing, fresh, arg>>
        /\ pc[p] \in {"push", "erase", "close_all"} /\ pc'[p] = "reset"
    BY <1>0, <1>14 DEF TypeOK, LockInv, Alone, Push, Go
  <2>2. \A s \in Sinks : Unused(s)' => Unused(s)
    BY <2>1 DEF Unused, Adding, Alone
  <2>3. \A s \in Sinks : InTable(s)' => InTable(s) \/ Unused(s)
    <3>1. /\ s_callbacks \in Seq(Sinks) /\ s_callbacks' = Append(s_callbacks, arg[p])
          /\ arg[p] \in Sinks /\ Unused(arg[p])
      BY <1>0, <1>14 DEF Push, TypeOK, LocalInv, Unused, Adding
    <3> QED  BY <3>1 DEF InTable
  <2> QED  BY <1>0, <2>1, <2>2, <2>3, FlushTable
<1>15. ASSUME NEW p \in Procs, FindAndClose(p) PROVE FlushInv'
  <2>0. /\ UNCHANGED <<out, flushed, s_needs_flushing, s_callbacks, fresh, arg>>
        /\ pc[p] = "find" /\ pc'[p] = "erase"
        /\ \E k \in DOMAIN s_callbacks : idx' = [idx EXCEPT ![p] = k]
        /\ \A q \in Procs \ {p} : pc'[q] = pc[q]
    BY <1>0, <1>15 DEF TypeOK, FindAndClose, Go, At
  <2>1. FlushApart
    BY <1>0, <2>0 DEF TypeOK, FlushApart, Unused, Adding, Unused, Adding
  <2> QED  BY <1>0, <2>1, FlushUndisturbed
<1>16. ASSUME NEW p \in Procs, FindNothing(p) PROVE FlushInv'
  <2>1. FlushApart
    BY <1>0, <1>16 DEF TypeOK, FlushApart, Unused, Adding, FindNothing, Go
  <2> QED  BY <1>0, <2>1, FlushUndisturbed
<1>17. ASSUME NEW p \in Procs, Erase(p) PROVE FlushInv'
  <2>1. /\ Alone(p) /\ UNCHANGED <<out, flushed, s_needs_flushing, fresh, arg>>
        /\ pc[p] \in {"push", "erase", "close_all"} /\ pc'[p] = "reset"
    BY <1>0, <1>17 DEF TypeOK, LockInv, Alone, Erase, Go
  <2>2. \A s \in Sinks : Unused(s)' => Unused(s)
    BY <2>1 DEF Unused, Adding, Alone
  <2>3. \A s \in Sinks : InTable(s)' => InTable(s) \/ Unused(s)
    <3>1. s_callbacks \in Seq(Sinks) /\ idx[p] \in 1..Len(s_callbacks)
      BY <1>0, <1>17 DEF Erase, TypeOK, LocalInv, InLoop
    <3>2. s_callbacks' = RemoveAt(s_callbacks, idx[p])
      BY <1>17 DEF Erase
    <3>3. /\ Len(s_callbacks') = Len(s_callbacks) - 1
          /\ \A j \in 1..(Len(s_callbacks) - 1) :
               s_callbacks'[j] = IF j < idx[p] THEN s_callbacks[j] ELSE s_callbacks[j + 1]
      BY ONLY <3>1, <3>2, RemoveAtType
    <3>4. ASSUME NEW j \in 1..(Len(s_callbacks) - 1) PROVE InTable(s_callbacks'[j])
      <4>1. Len(s_callbacks) \in Nat /\ j \in 1..Len(s_callbacks) /\ j + 1 \in 1..Len(s_callbacks)
        BY <3>1
      <4> QED  BY <3>3, <4>1 DEF InTable
    <3> QED  BY <3>3, <3>4 DEF InTable
  <2> QED  BY <1>0, <2>1, <2>2, <2>3, FlushTable
<1>18. ASSUME NEW p \in Procs, CloseNext(p) PROVE FlushInv'
  <2>1. FlushApart
    BY <1>0, <1>18 DEF TypeOK, FlushApart, Unused, Adding, CloseNext, Go, At
  <2> QED  BY <1>0, <2>1, FlushUndisturbed
<1>19. ASSUME NEW p \in Procs, ClearAll(p) PROVE FlushInv'
  <2>1. /\ Alone(p) /\ UNCHANGED <<out, flushed, s_needs_flushing, fresh, arg>>
        /\ pc[p] \in {"push", "erase", "close_all"} /\ pc'[p] = "reset"
    BY <1>0, <1>19 DEF TypeOK, LockInv, Alone, ClearAll, Go
  <2>2. \A s \in Sinks : Unused(s)' => Unused(s)
    BY <2>1 DEF Unused, Adding, Alone
  <2>3. \A s \in Sinks : InTable(s)' => InTable(s) \/ Unused(s)
    BY <1>19 DEF ClearAll, InTable
  <2> QED  BY <1>0, <2>1, <2>2, <2>3, FlushTable
<1>20. ASSUME NEW p \in Procs, ResetCutoff(p) PROVE FlushInv'
  <2>1. FlushApart
    BY <1>0, <1>20 DEF TypeOK, FlushApart, Unused, Adding, ResetCutoff, Go, At
  <2> QED  BY <1>0, <2>1, FlushUndisturbed
<1>21. ASSUME NEW p \in Procs, RaiseCutoff(p) PROVE FlushInv'
  <2>1. FlushApart
    BY <1>0, <1>21 DEF TypeOK, FlushApart, Unused, Adding, RaiseCutoff, Go, At
  <2> QED  BY <1>0, <2>1, FlushUndisturbed
<1>22. ASSUME NEW p \in Procs, Return(p) PROVE FlushInv'
  <2>0. /\ UNCHANGED <<out, flushed, s_needs_flushing, s_callbacks, fresh, idx>>
        /\ pc'[p] = "idle" /\ pc[p] \in {"unlock", "recompute"}
        /\ \A q \in Procs \ {p} : pc'[q] = pc[q] /\ arg'[q] = arg[q]
    BY <1>0, <1>22 DEF TypeOK, Return, Go
  <2>1. FlushApart
    BY <2>0 DEF FlushApart, Unused, Adding
  <2> QED  BY <1>0, <2>1, FlushUndisturbed
<1>23. ASSUME NEW p \in Procs, FlushStderrFirst(p) PROVE FlushInv'
  BY <1>0, <1>23, FlushCall
<1>24. ASSUME NEW p \in Procs, FlushNext(p) PROVE FlushInv'
  BY <1>0, <1>24, FlushCall
<1>25. ASSUME NEW p \in Procs, FlushDone(p) PROVE FlushInv'
  BY <1>0, <1>25, FlushCall
<1>26. ASSUME Poll PROVE FlushInv'
  <2>1. FlushApart
    BY <1>0, <1>26 DEF TypeOK, FlushApart, Unused, Adding, Poll, Go
  <2> QED  BY <1>0, <2>1, FlushUndisturbed
<1>27. ASSUME SetFlushInterval PROVE FlushInv'
  <2>1. FlushApart
    BY <1>0, <1>27 DEF TypeOK, FlushApart, Unused, Adding, SetFlushInterval
  <2> QED  BY <1>0, <2>1, FlushUndisturbed
<1>28. CASE UNCHANGED vars
  <2>1. FlushApart
    BY <1>28 DEF FlushApart, Unused, Adding, vars
  <2> QED  BY <1>0, <2>1, FlushUndisturbed
<1> QED
  BY <1>1, <1>2, <1>3, <1>4, <1>5, <1>6, <1>7, <1>8, <1>9, <1>10, <1>11, <1>12, <1>13, <1>14, <1>15, <1>16, <1>17, <1>18, <1>19, <1>20, <1>21, <1>22, <1>23, <1>24, <1>25, <1>26, <1>27, <1>28
  DEF Next, Begin, Step, Finished

(* What is not durable is marked or about to be flushed, in every behaviour. *)
LEMMA FlushInvariant == Spec => []FlushInv
BY CoreInvariant, LifeInvariant, InitFlush, NextFlush, PTL DEF Spec

(* Whenever s_mutex is free, an installed output with text that was not     *)
(* flushed is marked: the flush thread, which reads s_needs_flushing        *)
(* without the mutex, cannot miss it for good, however flush, log_message   *)
(* and the program's assignments to g_flush_interval_ms interleave.         *)
THEOREM NothingForgottenCorrect == Spec => []NothingForgotten
<1>1. CoreInv /\ FlushInv => NothingForgotten
  <2> SUFFICES ASSUME CoreInv, FlushInv, owner = NoOne, NEW o \in Outputs, Pending(o)
               PROVE  s_needs_flushing
    BY Zenon DEF NothingForgotten
  <2>1. TypeOK /\ LockInv
    BY DEF CoreInv
  <2>2. DOMAIN s_callbacks = 1..Len(s_callbacks)
    BY <2>1 DEF TypeOK
  <2>3. Watched(o) /\ ~Durable(o)
    BY <2>2 DEF Pending, Watched, Durable, Installed, Range, InTable
  <2>4. ~FlushComing(o)
    BY <2>1 DEF LockInv, FlushComing, Holding, Logging
  <2> QED  BY Zenon, <2>3, <2>4 DEF FlushInv, NoneLost
<1> QED  BY CoreInvariant, FlushInvariant, <1>1, PTL

-----------------------------------------------------------------------------
(***************************************************************************)
(* The unbuffered mode: what a hard crash at any moment can lose.          *)
(***************************************************************************)

(* p has written to o and is about to flush it. *)
AtFlush(p, o) ==
  IF o = Stderr THEN pc[p] = "stderr_flush"
                ELSE pc[p] = "sink_flush" /\ s_callbacks[idx[p]] = o

(* All that o holds is durable, but for the message of a call that is about *)
(* to flush o.                                                              *)
Kept(o) ==
  \/ flushed[o] = Len(out[o])
  \/ /\ Len(out[o]) > 0 /\ flushed[o] = Len(out[o]) - 1
     /\ \E p \in Procs : AtFlush(p, o) /\ cur[p] = out[o][Len(out[o])]

CrashInv == \A o \in {Stderr} \cup Flushable : Kept(o)

(* At the start every output is empty. *)
LEMMA InitCrash == Init => CrashInv
<1> SUFFICES ASSUME Init, NEW o \in {Stderr} \cup Flushable PROVE Kept(o)
  BY DEF CrashInv
<1>1. out[o] = <<>> /\ flushed[o] = 0
  BY DEF Init
<1> QED  BY <1>1 DEF Kept

(* A step that neither writes nor flushes, and takes nobody away from a flush. *)
CrashApart ==
  /\ UNCHANGED <<out, flushed>>
  /\ \A q \in Procs : pc[q] \in {"stderr_flush", "sink_flush"} =>
       pc'[q] = pc[q] /\ cur'[q] = cur[q] /\ idx'[q] = idx[q] /\ s_callbacks' = s_callbacks

(* Such a step preserves CrashInv. *)
LEMMA CrashUndisturbed == CrashInv /\ CrashApart => CrashInv'
<1> SUFFICES ASSUME CrashInv, CrashApart, NEW o \in {Stderr} \cup Flushable PROVE Kept(o)'
  BY DEF CrashInv
<1>1. UNCHANGED <<out, flushed>> /\ Kept(o)
  BY DEF CrashInv, CrashApart
<1>2. \A p \in Procs : AtFlush(p, o) => AtFlush(p, o)' /\ cur'[p] = cur[p]
  BY DEF AtFlush, CrashApart
<1> QED  BY <1>1, <1>2 DEF Kept

(* A step of p that is not itself at a flush and moves nobody else. *)
LEMMA CrashLocal ==
  ASSUME CrashInv, NEW p \in Procs, UNCHANGED <<out, flushed>>,
         pc[p] \notin {"stderr_flush", "sink_flush"},
         \A q \in Procs \ {p} :
           /\ pc'[q] = pc[q] /\ cur'[q] = cur[q] /\ idx'[q] = idx[q]
           /\ pc[q] \in {"stderr_flush", "sink_flush"} => s_callbacks' = s_callbacks
  PROVE  CrashInv'
<1>1. CrashApart
  BY DEF CrashApart
<1> QED  BY <1>1, CrashUndisturbed

(* An output is flushed: p was at most at the flush of this one, and nobody *)
(* else is at one.                                                          *)
LEMMA CrashFlush ==
  ASSUME TypeOK, CrashInv, NEW p \in Procs, NEW r \in Outputs, UNCHANGED out,
         \A q \in Procs \ {p} : pc[q] \notin {"stderr_flush", "sink_flush"},
         \A o \in Outputs : AtFlush(p, o) => o = r,
         \/ flushed' = [flushed EXCEPT ![r] = Len(out[r])]
         \/ flushed' = flushed /\ r \notin {Stderr} \cup Flushable
  PROVE  CrashInv'
<1> SUFFICES ASSUME NEW o \in {Stderr} \cup Flushable PROVE flushed'[o] = Len(out[o])
  BY DEF CrashInv, Kept
<1>1. CASE o = r
  BY <1>1 DEF TypeOK
<1>2. CASE o # r
  <2>1. \A q \in Procs : ~AtFlush(q, o)
    BY <1>2 DEF AtFlush
  <2>2. flushed[o] = Len(out[o])
    BY <2>1 DEF CrashInv, Kept
  <2> QED  BY <1>2, <2>2 DEF TypeOK
<1> QED  BY <1>1, <1>2

(* The owner of the mutex gives its message to an output, and goes to flush *)
(* it, or the output does not want it.                                      *)
LEMMA CrashWrite ==
  ASSUME TypeOK, CrashInv, NEW p \in Procs, NEW r \in Outputs, UNCHANGED flushed,
         cur[p] \in Message, cur' = cur,
         \A q \in Procs : pc[q] \notin {"stderr_flush", "sink_flush"},
         \/ out' = [out EXCEPT ![r] = Append(@, cur[p])] /\ AtFlush(p, r)'
         \/ out' = out
  PROVE  CrashInv'
<1> SUFFICES ASSUME NEW o \in {Stderr} \cup Flushable PROVE Kept(o)'
  BY DEF CrashInv
<1>1. flushed[o] = Len(out[o]) /\ out[o] \in Seq(Message)
  BY DEF CrashInv, Kept, AtFlush, TypeOK
<1>2. CASE out' = out
  BY <1>1, <1>2 DEF Kept
<1>3. CASE out' = [out EXCEPT ![r] = Append(@, cur[p])] /\ AtFlush(p, r)'
  <2>1. CASE o = r
    <3>1. out'[o] = Append(out[o], cur[p])
      BY <1>3, <2>1 DEF TypeOK
    <3>2. Len(out'[o]) = Len(out[o]) + 1 /\ out'[o][Len(out'[o])] = cur[p] /\ Len(out[o]) \in Nat
      BY <1>1, <3>1
    <3>3. AtFlush(p, o)' /\ cur'[p] = cur[p]
      BY <1>3, <2>1
    <3>4. \E q \in Procs : AtFlush(q, o)' /\ cur'[q] = out'[o][Len(out'[o])]
      BY <3>2, <3>3
    <3> QED  BY <1>1, <3>2, <3>4 DEF Kept
  <2>2. CASE o # r
    <3>1. out'[o] = out[o]
      BY <1>3, <2>2 DEF TypeOK
    <3> QED  BY <1>1, <3>1 DEF Kept
  <2> QED  BY <2>1, <2>2
<1> QED  BY <1>2, <1>3

(* In the unbuffered mode every step keeps what is written durable. *)
LEMMA NextCrash ==
  FlushIntervals = {0} /\ CoreInv /\ CrashInv /\ [Next]_vars => CrashInv'
<1> SUFFICES ASSUME FlushIntervals = {0}, CoreInv, CrashInv, [Next]_vars PROVE CrashInv'
  OBVIOUS
<1> USE DEF Waiting, Filtering, Logging, Changing, Working, Holding,
            mutex, table, config, delivery, locals
<1>0. TypeOK /\ LockInv /\ LocalInv /\ CrashInv /\ g_flush_interval_ms = 0
  BY DEF CoreInv, TypeOK
<1>1. ASSUME NEW t \in Threads, Log(t) PROVE CrashInv'
  <2>1. /\ UNCHANGED <<out, flushed>> /\ pc[t] \notin {"stderr_flush", "sink_flush"}
        /\ \A q \in Procs \ {t} : pc'[q] = pc[q] /\ cur'[q] = cur[q] /\ idx'[q] = idx[q]
    BY <1>0, <1>1 DEF TypeOK, Log, Call, Go
  <2>2. \A q \in Procs \ {t} :
          pc[q] \in {"stderr_flush", "sink_flush"} => s_callbacks' = s_callbacks
    BY <1>0, <1>1 DEF LockInv, Log, Call, Go
  <2> QED  BY <1>0, <2>1, <2>2, CrashLocal
<1>2. ASSUME NEW t \in Threads, AddCallback(t) PROVE CrashInv'
  <2>1. /\ UNCHANGED <<out, flushed>> /\ pc[t] \notin {"stderr_flush", "sink_flush"}
        /\ \A q \in Procs \ {t} : pc'[q] = pc[q] /\ cur'[q] = cur[q] /\ idx'[q] = idx[q]
    BY <1>0, <1>2 DEF TypeOK, AddCallback, Go
  <2>2. \A q \in Procs \ {t} :
          pc[q] \in {"stderr_flush", "sink_flush"} => s_callbacks' = s_callbacks
    BY <1>0, <1>2 DEF LockInv, AddCallback, Go
  <2> QED  BY <1>0, <2>1, <2>2, CrashLocal
<1>3. ASSUME NEW t \in Threads, RemoveCallback(t) PROVE CrashInv'
  <2>1. /\ UNCHANGED <<out, flushed>> /\ pc[t] \notin {"stderr_flush", "sink_flush"}
        /\ \A q \in Procs \ {t} : pc'[q] = pc[q] /\ cur'[q] = cur[q] /\ idx'[q] = idx[q]
    BY <1>0, <1>3 DEF TypeOK, RemoveCallback, Call, Go
  <2>2. \A q \in Procs \ {t} :
          pc[q] \in {"stderr_flush", "sink_flush"} => s_callbacks' = s_callbacks
    BY <1>0, <1>3 DEF LockInv, RemoveCallback, Call, Go
  <2> QED  BY <1>0, <2>1, <2>2, CrashLocal
<1>4. ASSUME NEW t \in Threads, RemoveAllCallbacks(t) PROVE CrashInv'
  <2>1. /\ UNCHANGED <<out, flushed>> /\ pc[t] \notin {"stderr_flush", "sink_flush"}
        /\ \A q \in Procs \ {t} : pc'[q] = pc[q] /\ cur'[q] = cur[q] /\ idx'[q] = idx[q]
    BY <1>0, <1>4 DEF TypeOK, RemoveAllCallbacks, Call, Go
  <2>2. \A q \in Procs \ {t} :
          pc[q] \in {"stderr_flush", "sink_flush"} => s_callbacks' = s_callbacks
    BY <1>0, <1>4 DEF LockInv, RemoveAllCallbacks, Call, Go
  <2> QED  BY <1>0, <2>1, <2>2, CrashLocal
<1>5. ASSUME NEW t \in Threads, Flush(t) PROVE CrashInv'
  <2>1. /\ UNCHANGED <<out, flushed>> /\ pc[t] \notin {"stderr_flush", "sink_flush"}
        /\ \A q \in Procs \ {t} : pc'[q] = pc[q] /\ cur'[q] = cur[q] /\ idx'[q] = idx[q]
    BY <1>0, <1>5 DEF TypeOK, Flush, Call, Go
  <2>2. \A q \in Procs \ {t} :
          pc[q] \in {"stderr_flush", "sink_flush"} => s_callbacks' = s_callbacks
    BY <1>0, <1>5 DEF LockInv, Flush, Call, Go
  <2> QED  BY <1>0, <2>1, <2>2, CrashLocal
<1>6. ASSUME NEW p \in Procs, ReadCutoff(p) PROVE CrashInv'
  <2>1. /\ UNCHANGED <<out, flushed>> /\ pc[p] \notin {"stderr_flush", "sink_flush"}
        /\ \A q \in Procs \ {p} : pc'[q] = pc[q] /\ cur'[q] = cur[q] /\ idx'[q] = idx[q]
    BY <1>0, <1>6 DEF TypeOK, ReadCutoff, Filtered, AfterLog, Go
  <2>2. \A q \in Procs \ {p} :
          pc[q] \in {"stderr_flush", "sink_flush"} => s_callbacks' = s_callbacks
    BY <1>0, <1>6 DEF LockInv, ReadCutoff, Filtered, AfterLog, Go
  <2> QED  BY <1>0, <2>1, <2>2, CrashLocal
<1>7. ASSUME NEW p \in Procs, RereadCutoff(p) PROVE CrashInv'
  <2>1. /\ UNCHANGED <<out, flushed>> /\ pc[p] \notin {"stderr_flush", "sink_flush"}
        /\ \A q \in Procs \ {p} : pc'[q] = pc[q] /\ cur'[q] = cur[q] /\ idx'[q] = idx[q]
    BY <1>0, <1>7 DEF TypeOK, RereadCutoff, Filtered, AfterLog, Go
  <2>2. \A q \in Procs \ {p} :
          pc[q] \in {"stderr_flush", "sink_flush"} => s_callbacks' = s_callbacks
    BY <1>0, <1>7 DEF LockInv, RereadCutoff, Filtered, AfterLog, Go
  <2> QED  BY <1>0, <2>1, <2>2, CrashLocal
<1>8. ASSUME NEW p \in Procs, Acquire(p) PROVE CrashInv'
  <2>1. /\ UNCHANGED <<out, flushed>> /\ pc[p] \notin {"stderr_flush", "sink_flush"}
        /\ \A q \in Procs \ {p} : pc'[q] = pc[q] /\ cur'[q] = cur[q] /\ idx'[q] = idx[q]
    BY <1>0, <1>8 DEF TypeOK, Acquire, Go, At
  <2>2. \A q \in Procs \ {p} :
          pc[q] \in {"stderr_flush", "sink_flush"} => s_callbacks' = s_callbacks
    BY <1>0, <1>8 DEF LockInv, Acquire, Go, At
  <2> QED  BY <1>0, <2>1, <2>2, CrashLocal
<1>9. ASSUME NEW p \in Procs, WriteStderr(p) PROVE CrashInv'
  <2>1. /\ pc[p] = "stderr" /\ UNCHANGED <<flushed, cur>>
        /\ \/ out' = [out EXCEPT ![Stderr] = Append(@, cur[p])] /\ pc'[p] = "stderr_flush"
           \/ out' = out
    BY <1>0, <1>9 DEF TypeOK, WriteStderr, Write, Go
  <2>2. /\ cur[p] \in Message
        /\ \A q \in Procs : pc[q] \notin {"stderr_flush", "sink_flush"}
    BY <1>0, <2>1 DEF LockInv, LocalInv
  <2>3. pc'[p] = "stderr_flush" => AtFlush(p, Stderr)'
    BY DEF AtFlush
  <2> QED  BY <1>0, <2>1, <2>2, <2>3, CrashWrite
<1>10. ASSUME NEW p \in Procs, FlushStderr(p) PROVE CrashInv'
  <2>1. /\ pc[p] = "stderr_flush" /\ UNCHANGED out
        /\ flushed' = [flushed EXCEPT ![Stderr] = Len(out[Stderr])]
    BY <1>10 DEF FlushStderr, MakeDurable
  <2>2. \A q \in Procs \ {p} : pc[q] \notin {"stderr_flush", "sink_flush"}
    BY <1>0, <2>1 DEF LockInv
  <2>3. \A o \in Outputs : AtFlush(p, o) => o = Stderr
    BY <2>1 DEF AtFlush
  <2> QED  BY <1>0, <2>1, <2>2, <2>3, CrashFlush
<1>11. ASSUME NEW p \in Procs, CallSink(p) PROVE CrashInv'
  <2>1. /\ pc[p] = "sinks" /\ idx[p] \in 1..Len(s_callbacks) /\ s_callbacks \in Seq(Sinks)
        /\ UNCHANGED <<flushed, cur, s_callbacks>>
    BY <1>0, <1>11 DEF TypeOK, CallSink, InLoop
  <2>2. /\ cur[p] \in Message
        /\ \A q \in Procs : pc[q] \notin {"stderr_flush", "sink_flush"}
    BY <1>0, <2>1 DEF LockInv, LocalInv
  <2>3. PICK r \in Sinks : r = s_callbacks[idx[p]]
    BY <2>1
  <2>4. CASE Wants(r, cur[p])
    <3>1. /\ out' = [out EXCEPT ![r] = Append(@, cur[p])]
          /\ pc' = [pc EXCEPT ![p] = "sink_flush"] /\ idx' = idx
      BY <1>0, <1>11, <2>3, <2>4 DEF CallSink, Here, Write, Go
    <3>2. AtFlush(p, r)'
      BY <1>0, <2>1, <2>3, <3>1 DEF AtFlush, TypeOK
    <3> QED  BY <1>0, <2>1, <2>2, <3>1, <3>2, CrashWrite
  <2>5. CASE ~Wants(r, cur[p])
    <3>1. out' = out
      BY <1>11, <2>3, <2>5 DEF CallSink, Here
    <3> QED  BY <1>0, <2>1, <2>2, <3>1, CrashWrite
  <2> QED  BY <2>4, <2>5
<1>12. ASSUME NEW p \in Procs, FlushSink(p) PROVE CrashInv'
  <2>1. /\ pc[p] = "sink_flush" /\ UNCHANGED out
        /\ idx[p] \in 1..Len(s_callbacks) /\ s_callbacks \in Seq(Sinks)
    BY <1>0, <1>12 DEF TypeOK, LocalInv, InLoop, FlushSink
  <2>2. PICK r \in Sinks : r = s_callbacks[idx[p]]
    BY <2>1
  <2>3. \/ flushed' = [flushed EXCEPT ![r] = Len(out[r])]
        \/ flushed' = flushed /\ r \notin {Stderr} \cup Flushable
    BY <1>12, <2>2 DEF FlushSink, MakeDurable, Here
  <2>4. \A q \in Procs \ {p} : pc[q] \notin {"stderr_flush", "sink_flush"}
    BY <1>0, <2>1 DEF LockInv
  <2>5. \A o \in Outputs : AtFlush(p, o) => o = r
    BY <2>1, <2>2 DEF AtFlush
  <2> QED  BY <1>0, <2>1, <2>3, <2>4, <2>5, CrashFlush
<1>13. ASSUME NEW p \in Procs, EndLog(p) PROVE CrashInv'
  <2>1. CrashApart
    BY <1>0, <1>13 DEF TypeOK, CrashApart, EndLog, SpawnFlushThread
  <2> QED  BY <1>0, <2>1, CrashUndisturbed
<1>14. ASSUME NEW p \in Procs, Push(p) PROVE CrashInv'
  <2>1. /\ UNCHANGED <<out, flushed>> /\ pc[p] \notin {"stderr_flush", "sink_flush"}
        /\ \A q \in Procs \ {p} : pc'[q] = pc[q] /\ cur'[q] = cur[q] /\ idx'[q] = idx[q]
    BY <1>0, <1>14 DEF TypeOK, Push, Go
  <2>2. \A q \in Procs \ {p} :
          pc[q] \in {"stderr_flush", "sink_flush"} => s_callbacks' = s_callbacks
    BY <1>0, <1>14 DEF LockInv, Push, Go
  <2> QED  BY <1>0, <2>1, <2>2, CrashLocal
<1>15. ASSUME NEW p \in Procs, FindAndClose(p) PROVE CrashInv'
  <2>1. /\ UNCHANGED <<out, flushed>> /\ pc[p] \notin {"stderr_flush", "sink_flush"}
        /\ \A q \in Procs \ {p} : pc'[q] = pc[q] /\ cur'[q] = cur[q] /\ idx'[q] = idx[q]
    BY <1>0, <1>15 DEF TypeOK, FindAndClose, Go, At
  <2>2. \A q \in Procs \ {p} :
          pc[q] \in {"stderr_flush", "sink_flush"} => s_callbacks' = s_callbacks
    BY <1>0, <1>15 DEF LockInv, FindAndClose, Go, At
  <2> QED  BY <1>0, <2>1, <2>2, CrashLocal
<1>16. ASSUME NEW p \in Procs, FindNothing(p) PROVE CrashInv'
  <2>1. /\ UNCHANGED <<out, flushed>> /\ pc[p] \notin {"stderr_flush", "sink_flush"}
        /\ \A q \in Procs \ {p} : pc'[q] = pc[q] /\ cur'[q] = cur[q] /\ idx'[q] = idx[q]
    BY <1>0, <1>16 DEF TypeOK, FindNothing, Go
  <2>2. \A q \in Procs \ {p} :
          pc[q] \in {"stderr_flush", "sink_flush"} => s_callbacks' = s_callbacks
    BY <1>0, <1>16 DEF LockInv, FindNothing, Go
  <2> QED  BY <1>0, <2>1, <2>2, CrashLocal
<1>17. ASSUME NEW p \in Procs, Erase(p) PROVE CrashInv'
  <2>1. /\ UNCHANGED <<out, flushed>> /\ pc[p] \notin {"stderr_flush", "sink_flush"}
        /\ \A q \in Procs \ {p} : pc'[q] = pc[q] /\ cur'[q] = cur[q] /\ idx'[q] = idx[q]
    BY <1>0, <1>17 DEF TypeOK, Erase, Go
  <2>2. \A q \in Procs \ {p} :
          pc[q] \in {"stderr_flush", "sink_flush"} => s_callbacks' = s_callbacks
    BY <1>0, <1>17 DEF LockInv, Erase, Go
  <2> QED  BY <1>0, <2>1, <2>2, CrashLocal
<1>18. ASSUME NEW p \in Procs, CloseNext(p) PROVE CrashInv'
  <2>1. /\ UNCHANGED <<out, flushed>> /\ pc[p] \notin {"stderr_flush", "sink_flush"}
        /\ \A q \in Procs \ {p} : pc'[q] = pc[q] /\ cur'[q] = cur[q] /\ idx'[q] = idx[q]
    BY <1>0, <1>18 DEF TypeOK, CloseNext, At
  <2>2. \A q \in Procs \ {p} :
          pc[q] \in {"stderr_flush", "sink_flush"} => s_callbacks' = s_callbacks
    BY <1>0, <1>18 DEF LockInv, CloseNext, At
  <2> QED  BY <1>0, <2>1, <2>2, CrashLocal
<1>19. ASSUME NEW p \in Procs, ClearAll(p) PROVE CrashInv'
  <2>1. /\ UNCHANGED <<out, flushed>> /\ pc[p] \notin {"stderr_flush", "sink_flush"}
        /\ \A q \in Procs \ {p} : pc'[q] = pc[q] /\ cur'[q] = cur[q] /\ idx'[q] = idx[q]
    BY <1>0, <1>19 DEF TypeOK, ClearAll, Go
  <2>2. \A q \in Procs \ {p} :
          pc[q] \in {"stderr_flush", "sink_flush"} => s_callbacks' = s_callbacks
    BY <1>0, <1>19 DEF LockInv, ClearAll, Go
  <2> QED  BY <1>0, <2>1, <2>2, CrashLocal
<1>20. ASSUME NEW p \in Procs, ResetCutoff(p) PROVE CrashInv'
  <2>1. /\ UNCHANGED <<out, flushed>> /\ pc[p] \notin {"stderr_flush", "sink_flush"}
        /\ \A q \in Procs \ {p} : pc'[q] = pc[q] /\ cur'[q] = cur[q] /\ idx'[q] = idx[q]
    BY <1>0, <1>20 DEF TypeOK, ResetCutoff, Go, At
  <2>2. \A q \in Procs \ {p} :
          pc[q] \in {"stderr_flush", "sink_flush"} => s_callbacks' = s_callbacks
    BY <1>0, <1>20 DEF LockInv, ResetCutoff, Go, At
  <2> QED  BY <1>0, <2>1, <2>2, CrashLocal
<1>21. ASSUME NEW p \in Procs, RaiseCutoff(p) PROVE CrashInv'
  <2>1. /\ UNCHANGED <<out, flushed>> /\ pc[p] \notin {"stderr_flush", "sink_flush"}
        /\ \A q \in Procs \ {p} : pc'[q] = pc[q] /\ cur'[q] = cur[q] /\ idx'[q] = idx[q]
    BY <1>0, <1>21 DEF TypeOK, RaiseCutoff, At
  <2>2. \A q \in Procs \ {p} :
          pc[q] \in {"stderr_flush", "sink_flush"} => s_callbacks' = s_callbacks
    BY <1>0, <1>21 DEF LockInv, RaiseCutoff, At
  <2> QED  BY <1>0, <2>1, <2>2, CrashLocal
<1>22. ASSUME NEW p \in Procs, Return(p) PROVE CrashInv'
  <2>1. /\ UNCHANGED <<out, flushed>> /\ pc[p] \notin {"stderr_flush", "sink_flush"}
        /\ \A q \in Procs \ {p} : pc'[q] = pc[q] /\ cur'[q] = cur[q] /\ idx'[q] = idx[q]
    BY <1>0, <1>22 DEF TypeOK, Return, Go
  <2>2. \A q \in Procs \ {p} :
          pc[q] \in {"stderr_flush", "sink_flush"} => s_callbacks' = s_callbacks
    BY <1>0, <1>22 DEF LockInv, Return, Go
  <2> QED  BY <1>0, <2>1, <2>2, CrashLocal
<1>23. ASSUME NEW p \in Procs, FlushStderrFirst(p) PROVE CrashInv'
  <2>1. /\ pc[p] = "flush_stderr" /\ UNCHANGED out
        /\ flushed' = [flushed EXCEPT ![Stderr] = Len(out[Stderr])]
    BY <1>23 DEF FlushStderrFirst, MakeDurable
  <2>2. \A q \in Procs : pc[q] \notin {"stderr_flush", "sink_flush"}
    BY <1>0, <2>1 DEF LockInv
  <2>3. \A o \in Outputs : ~AtFlush(p, o)
    BY <2>2 DEF AtFlush
  <2> QED  BY <1>0, <2>1, <2>2, <2>3, CrashFlush
<1>24. ASSUME NEW p \in Procs, FlushNext(p) PROVE CrashInv'
  <2>1. /\ pc[p] = "flush_sinks" /\ UNCHANGED out
        /\ idx[p] \in 1..Len(s_callbacks) /\ s_callbacks \in Seq(Sinks)
    BY <1>0, <1>24 DEF TypeOK, InLoop, FlushNext
  <2>2. PICK r \in Sinks : r = s_callbacks[idx[p]]
    BY <2>1
  <2>3. \/ flushed' = [flushed EXCEPT ![r] = Len(out[r])]
        \/ flushed' = flushed /\ r \notin {Stderr} \cup Flushable
    BY <1>24, <2>2 DEF FlushNext, MakeDurable, Here
  <2>4. \A q \in Procs : pc[q] \notin {"stderr_flush", "sink_flush"}
    BY <1>0, <2>1 DEF LockInv
  <2>5. \A o \in Outputs : ~AtFlush(p, o)
    BY <2>4 DEF AtFlush
  <2> QED  BY <1>0, <2>1, <2>3, <2>4, <2>5, CrashFlush
<1>25. ASSUME NEW p \in Procs, FlushDone(p) PROVE CrashInv'
  <2>1. /\ UNCHANGED <<out, flushed>> /\ pc[p] \notin {"stderr_flush", "sink_flush"}
        /\ \A q \in Procs \ {p} : pc'[q] = pc[q] /\ cur'[q] = cur[q] /\ idx'[q] = idx[q]
    BY <1>0, <1>25 DEF TypeOK, FlushDone, Go
  <2>2. \A q \in Procs \ {p} :
          pc[q] \in {"stderr_flush", "sink_flush"} => s_callbacks' = s_callbacks
    BY <1>0, <1>25 DEF LockInv, FlushDone, Go
  <2> QED  BY <1>0, <2>1, <2>2, CrashLocal
<1>26. ASSUME Poll \/ SetFlushInterval PROVE CrashInv'
  <2>1. CrashApart
    BY <1>0, <1>26 DEF TypeOK, CrashApart, Poll, SetFlushInterval, Go
  <2> QED  BY <1>0, <2>1, CrashUndisturbed
<1>27. CASE UNCHANGED vars
  <2>1. CrashApart
    BY <1>27 DEF CrashApart, vars
  <2> QED  BY <1>0, <2>1, CrashUndisturbed
<1> QED
  BY <1>1, <1>2, <1>3, <1>4, <1>5, <1>6, <1>7, <1>8, <1>9, <1>10, <1>11, <1>12, <1>13, <1>14, <1>15, <1>16, <1>17, <1>18, <1>19, <1>20, <1>21, <1>22, <1>23, <1>24, <1>25, <1>26, <1>27
  DEF Next, Begin, Step, Finished

(* With g_flush_interval_ms = 0 a hard crash at any moment loses no message *)
(* whose LOG_F returned: what is written but not durable is the message of  *)
(* a call that is still running.                                            *)
THEOREM HardCrashCorrect == FlushIntervals = {0} => (Spec => []HardCrashLosesNothing)
<1> SUFFICES ASSUME FlushIntervals = {0} PROVE Spec => []HardCrashLosesNothing
  OBVIOUS
<1>1. CoreInv /\ CrashInv => HardCrashLosesNothing
  <2> SUFFICES ASSUME CoreInv, CrashInv, NEW o \in {Stderr} \cup Flushable,
                      NEW n \in (flushed[o] + 1)..Len(out[o])
               PROVE  \E t \in Threads : cur[t] = out[o][n]
    BY DEF HardCrashLosesNothing
  <2>1. flushed[o] \in Nat /\ Len(out[o]) \in Nat
    BY DEF CoreInv, TypeOK
  <2>2. /\ Len(out[o]) > 0 /\ flushed[o] = Len(out[o]) - 1
        /\ \E p \in Procs : AtFlush(p, o) /\ cur[p] = out[o][Len(out[o])]
    BY <2>1 DEF CrashInv, Kept
  <2>3. n = Len(out[o])
    BY <2>1, <2>2
  <2>4. \A p \in Procs : AtFlush(p, o) => p \in Threads
    BY DEF AtFlush, CoreInv, LocalInv
  <2> QED  BY <2>2, <2>3, <2>4
<1>2. CoreInv /\ CrashInv /\ [Next]_vars => CrashInv'
  BY NextCrash
<1> QED  BY CoreInvariant, InitCrash, <1>1, <1>2, PTL DEF Spec

=============================================================================
