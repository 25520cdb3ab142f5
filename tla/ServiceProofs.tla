---------------------------- MODULE ServiceProofs ---------------------------
(***************************************************************************)
(* LoguruCore implements LogService: its many steps for a message, its     *)
(* unlocked reads of the cutoff and its loops over the table come to one   *)
(* atomic delivery, for any number of threads, callbacks and messages.     *)
(***************************************************************************)
EXTENDS LogDelivery, LoguruCoreProofs

USE ProcsAssumption, SinksAssumption, ValuesAssumption
USE DEF Procs, Outputs

-----------------------------------------------------------------------------
(***************************************************************************)
(* One order of the messages for all outputs, although a message reaches   *)
(* them one at a time and threads begin to log in any order.               *)
(***************************************************************************)
Got(o, m)      == \E i \in 1..Len(out[o]) : out[o][i] = m
OnlyLast(o, m) == \A i \in 1..Len(out[o]) : out[o][i] = m => i = Len(out[o])

(* SameOrder, with the positions of Before in sight. *)
Agree(a, b) ==
  \A i, j \in 1..Len(a) : \A k, l \in 1..Len(b) :
    i < j /\ k < l => ~(b[k] = a[j] /\ b[l] = a[i])

Ordered == \A o1, o2 \in Outputs : Agree(out[o1], out[o2])

(* The outputs that log_message has been at, in this call of p. *)
Reached(p, o) ==
  \/ pc[p] # "stderr" /\ o = Stderr
  \/ /\ pc[p] \in {"sinks", "sink_flush"}
     /\ \E j \in 1..Len(s_callbacks) :
          /\ s_callbacks[j] = o
          /\ j < idx[p] \/ (j = idx[p] /\ pc[p] = "sink_flush")

ToLog == Filtering \cup {"log"}

(* The message of a call is its thread's, and no later one's. *)
Named == /\ \A p \in Procs : pc[p] \in ToLog \cup Logging => cur[p].by = p /\ cur[p].no <= calls
         /\ \A o \in Outputs : \A i \in 1..Len(out[o]) : out[o][i].no <= calls

(* A call that may have to log has logged nothing yet. *)
Early(p) == \A o \in Outputs : \A i \in 1..Len(out[o]) : out[o][i].by = p => out[o][i].no < calls

(***************************************************************************)
(* A message that is waiting to be logged is in no output.  While it is    *)
(* logged it is in none that log_message is still to call, and last in     *)
(* those it is in.                                                         *)
(***************************************************************************)
OrderInv ==
  /\ Ordered
  /\ Named
  /\ \A p \in Procs : pc[p] \in {"remove", "find"} => Early(p)
  /\ \A p \in Procs : pc[p] \in ToLog => \A o \in Outputs : ~Got(o, cur[p])
  /\ \A p \in Procs : pc[p] \in Logging =>
       \A o \in Outputs : OnlyLast(o, cur[p]) /\ (~Reached(p, o) => ~Got(o, cur[p]))

(* At the start every output is empty. *)
LEMMA InitOrder == Init => OrderInv
<1> SUFFICES ASSUME Init PROVE OrderInv
  OBVIOUS
<1>1. /\ \A p \in Procs : pc[p] \in {"unborn", "idle"}
      /\ \A o \in Outputs : out[o] = <<>>
  BY DEF Init
<1>2. Ordered /\ Named
  BY <1>1 DEF Ordered, Agree, Named, ToLog, Filtering, Logging
<1> QED  BY <1>1, <1>2 DEF OrderInv, ToLog, Filtering, Logging

(* A message goes to one more output, which did not have it, and is last   *)
(* wherever it is: the outputs still agree.                                *)
LEMMA OrderedWrite ==
  ASSUME out \in [Outputs -> Seq(Message)], Ordered, NEW o \in Outputs, NEW m \in Message,
         out' = [out EXCEPT ![o] = Append(@, m)],
         ~Got(o, m), \A q \in Outputs : OnlyLast(q, m)
  PROVE  Ordered' /\ \A q \in Outputs : OnlyLast(q, m)'
<1> DEFINE n == Len(out[o])
           Old(q, x) == x \in 1..Len(out[q]) /\ out'[q][x] = out[q][x]
           New(q, x) == q = o /\ x = n + 1 /\ out'[q][x] = m
<1>1. /\ n \in Nat /\ Len(out'[o]) = n + 1 /\ out'[o][n + 1] = m
      /\ \A x \in 1..n : out'[o][x] = out[o][x]
      /\ \A q \in Outputs : q # o => out'[q] = out[q]
      /\ \A q \in Outputs : Len(out[q]) \in Nat
  <2>1. out'[o] = Append(out[o], m) /\ out[o] \in Seq(Message)
    OBVIOUS
  <2> QED  BY <2>1
<1>2. ASSUME NEW q \in Outputs, NEW x \in 1..Len(out'[q]) PROVE Old(q, x) \/ New(q, x)
  <2>1. CASE q = o
    BY <1>1, <2>1
  <2>2. CASE q # o
    BY <1>1, <2>2
  <2> QED  BY <2>1, <2>2
<1>3. ASSUME NEW q \in Outputs, NEW x \in 1..Len(out'[q]), NEW y \in 1..Len(out'[q]), x < y
      PROVE  Old(q, x)
  <2>1. ~New(q, x)
    BY <1>1, <1>3
  <2> QED  BY <1>2, <2>1
<1> HIDE DEF n
<1>4. Ordered'
  <2> SUFFICES ASSUME NEW o1 \in Outputs, NEW o2 \in Outputs
               PROVE  \A i, j \in 1..Len(out'[o1]) : \A k, l \in 1..Len(out'[o2]) :
                        i < j /\ k < l => ~(out'[o2][k] = out'[o1][j] /\ out'[o2][l] = out'[o1][i])
    BY Zenon DEF Ordered, Agree
  <2> TAKE i, j \in 1..Len(out'[o1])
  <2> TAKE k, l \in 1..Len(out'[o2])
  <2> HAVE i < j /\ k < l
  <2> SUFFICES ASSUME out'[o2][k] = out'[o1][j], out'[o2][l] = out'[o1][i] PROVE FALSE
    OBVIOUS
  <2>1. Old(o1, i) /\ Old(o2, k)
    BY <1>3
  <2>2. CASE Old(o1, j) /\ Old(o2, l)
    <3>1. Agree(out[o1], out[o2])
      BY DEF Ordered
    <3> QED  BY <2>1, <2>2, <3>1 DEF Agree
  <2>3. CASE New(o1, j) /\ Old(o2, l)
    <3>1. out[o2][k] = m /\ k \in 1..Len(out[o2]) /\ l \in 1..Len(out[o2])
      BY <2>1, <2>3
    <3>2. k = Len(out[o2])
      BY <3>1 DEF OnlyLast
    <3> QED  BY <1>1, <3>1, <3>2
  <2>4. CASE New(o1, j) /\ New(o2, l)
    BY <2>1, <2>4 DEF Got
  <2>5. CASE Old(o1, j) /\ New(o2, l)
    <3>1. out[o1][i] = m /\ i \in 1..Len(out[o1]) /\ j \in 1..Len(out[o1])
      BY <2>1, <2>5
    <3>2. i = Len(out[o1])
      BY <3>1 DEF OnlyLast
    <3> QED  BY <1>1, <3>1, <3>2
  <2>6. (Old(o1, j) \/ New(o1, j)) /\ (Old(o2, l) \/ New(o2, l))
    BY <1>2
  <2> QED  BY <2>2, <2>3, <2>4, <2>5, <2>6
<1>5. ASSUME NEW q \in Outputs, NEW x \in 1..Len(out'[q]), out'[q][x] = m
      PROVE  x = Len(out'[q])
  <2>1. CASE q = o
    <3>1. x \in 1..(n + 1) /\ (x # n + 1 => x \in 1..n)
      BY <1>1, <2>1
    <3>2. x \notin 1..n
      BY <1>1, <1>5, <2>1 DEF Got, n
    <3> QED  BY <1>1, <2>1, <3>1, <3>2
  <2>2. CASE q # o
    BY <1>1, <1>5, <2>2 DEF OnlyLast
  <2> QED  BY <2>1, <2>2
<1> QED  BY <1>4, <1>5 DEF OnlyLast

(* Messages are numbered by the calls. *)
LEMMA Numbers ==
  ASSUME TypeOK, LocalInv
  PROVE  /\ \A q \in Procs : pc[q] \in ToLog \cup Logging => cur[q].no \in Int
         /\ \A o \in Outputs : \A i \in 1..Len(out[o]) : out[o][i].no \in Int
         /\ calls \in Nat
<1>1. \A m \in Message : m.no \in Int
  BY DEF Message
<1>2. \A q \in Procs : pc[q] \in ToLog \cup Logging => cur[q] \in Message
  BY DEF LocalInv, ToLog
<1>3. ASSUME NEW o \in Outputs, NEW i \in 1..Len(out[o]) PROVE out[o][i] \in Message
  <2>1. out[o] \in Seq(Message)
    BY DEF TypeOK
  <2> QED  BY <2>1
<1> QED  BY <1>1, <1>2, <1>3 DEF TypeOK

(* A step that writes to no output and begins no message. *)
OrderApart ==
  /\ out' = out /\ calls' \in Nat /\ calls' >= calls
  /\ \A q \in Procs :
       /\ pc'[q] \in {"remove", "find"} => pc[q] \in {"remove", "find"}
       /\ pc'[q] \in ToLog => pc[q] \in ToLog /\ cur'[q] = cur[q]
       /\ pc'[q] \in Logging =>
            /\ cur'[q] = cur[q]
            /\ pc[q] \in ToLog
               \/ (pc[q] \in Logging /\ \A o \in Outputs : Reached(q, o) => Reached(q, o)')

(* Such a step preserves OrderInv. *)
LEMMA OrderUndisturbed == TypeOK /\ LocalInv /\ OrderInv /\ OrderApart => OrderInv'
<1> SUFFICES ASSUME TypeOK, LocalInv, OrderInv, OrderApart PROVE OrderInv'
  OBVIOUS
<1>1. Ordered'
  BY DEF OrderInv, OrderApart, Ordered
<1>2. /\ \A q \in Procs : pc[q] \in ToLog \cup Logging => cur[q].no \in Int
      /\ \A o \in Outputs : \A i \in 1..Len(out[o]) : out[o][i].no \in Int
      /\ calls \in Int
  BY Numbers
<1>3. Named'
  BY <1>2 DEF OrderInv, OrderApart, Named
<1>4. \A q \in Procs : pc'[q] \in {"remove", "find"} => Early(q)'
  BY <1>2 DEF OrderInv, OrderApart, Early
<1>5. \A q \in Procs : pc'[q] \in ToLog => \A o \in Outputs : ~Got(o, cur[q])' /\ cur'[q] = cur[q]
  BY DEF OrderInv, OrderApart, Got
<1>6. ASSUME NEW q \in Procs, pc'[q] \in Logging, NEW o \in Outputs
      PROVE  OnlyLast(o, cur[q])' /\ (~Reached(q, o)' => ~Got(o, cur[q])')
  <2>1. CASE pc[q] \in ToLog
    BY <1>6, <2>1 DEF OrderInv, OrderApart, Got, OnlyLast
  <2>2. CASE pc[q] \in Logging
    BY <1>6, <2>2 DEF OrderInv, OrderApart, Got, OnlyLast
  <2> QED  BY <1>6, <2>1, <2>2 DEF OrderApart
<1> QED  BY <1>1, <1>3, <1>4, <1>5, <1>6 DEF OrderInv

(* A step of p outside of log_message, or into it. *)
LEMMA OrderLocal ==
  ASSUME TypeOK, LocalInv, OrderInv, NEW p \in Procs, UNCHANGED <<out, calls>>,
         \A q \in Procs \ {p} :
           /\ pc'[q] = pc[q] /\ cur'[q] = cur[q] /\ idx'[q] = idx[q]
           /\ s_callbacks' = s_callbacks \/ pc[q] \notin Logging,
         pc'[p] \in {"remove", "find"} => pc[p] \in {"remove", "find"},
         pc'[p] \in ToLog \cup Logging => pc[p] \in ToLog /\ cur'[p] = cur[p],
         pc'[p] \in ToLog => pc'[p] \notin Logging
  PROVE  OrderInv'
<1>1. \A q \in Procs \ {p} : pc'[q] \in Logging =>
        \A o \in Outputs : Reached(q, o) => Reached(q, o)'
  BY DEF Reached
<1>2. calls' \in Nat /\ calls' >= calls
  BY DEF TypeOK
<1>3. ASSUME NEW q \in Procs
      PROVE  /\ pc'[q] \in {"remove", "find"} => pc[q] \in {"remove", "find"}
             /\ pc'[q] \in ToLog => pc[q] \in ToLog /\ cur'[q] = cur[q]
             /\ pc'[q] \in Logging =>
                  /\ cur'[q] = cur[q]
                  /\ pc[q] \in ToLog
                     \/ (pc[q] \in Logging /\ \A o \in Outputs : Reached(q, o) => Reached(q, o)')
  <2>1. CASE q = p
    BY <2>1
  <2>2. CASE q # p
    BY <1>1, <2>2
  <2> QED  BY <2>1, <2>2
<1>4. OrderApart
  BY <1>2, <1>3 DEF OrderApart
<1> QED  BY <1>4, OrderUndisturbed

(* A call begins that will log, or may have to. *)
LEMMA OrderBegin ==
  ASSUME TypeOK, LocalInv, OrderInv, NEW t \in Threads, Log(t) \/ RemoveCallback(t)
  PROVE  OrderInv'
<1>1. /\ out' = out /\ calls' = calls + 1 /\ calls \in Nat /\ UNCHANGED <<s_callbacks, idx>>
      /\ \A q \in Procs : q # t => pc'[q] = pc[q] /\ cur'[q] = cur[q]
      /\ pc'[t] \in {"cutoff", "remove"}
      /\ pc'[t] = "cutoff" => cur'[t].by = t /\ cur'[t].no = calls + 1
  BY DEF Log, RemoveCallback, Call, Go, TypeOK, table, delivery
<1>2. /\ \A q \in Procs : pc[q] \in ToLog \cup Logging => cur[q].no \in Int
      /\ \A o \in Outputs : \A i \in 1..Len(out[o]) : out[o][i].no \in Int
  BY Numbers
<1>3. \A o \in Outputs : \A i \in 1..Len(out[o]) : out[o][i].no < calls + 1
  BY <1>1, <1>2 DEF OrderInv, Named
<1>4. Ordered'
  BY <1>1 DEF OrderInv, Ordered
<1>5. Named'
  BY <1>1, <1>2, <1>3 DEF OrderInv, Named, ToLog, Filtering, Logging
<1>6. \A q \in Procs : pc'[q] \in {"remove", "find"} => Early(q)'
  BY <1>1, <1>2, <1>3 DEF OrderInv, Early
<1>7. \A q \in Procs : pc'[q] \in ToLog => \A o \in Outputs : ~Got(o, cur[q])'
  <2>1. \A o \in Outputs : ~Got(o, cur'[t]) \/ pc'[t] # "cutoff"
    BY <1>1, <1>3 DEF Got
  <2>2. "cutoff" \in ToLog /\ "remove" \notin ToLog
    BY DEF ToLog, Filtering
  <2>3. \A q \in Procs : q # t /\ pc'[q] \in ToLog => \A o \in Outputs : ~Got(o, cur'[q])
    BY <1>1 DEF OrderInv
  <2> QED  BY <1>1, <2>1, <2>2, <2>3 DEF Got
<1>8. \A q \in Procs : pc'[q] \in Logging =>
        \A o \in Outputs : OnlyLast(o, cur[q])' /\ (~Reached(q, o)' => ~Got(o, cur[q])')
  <2> SUFFICES ASSUME NEW q \in Procs, pc'[q] \in Logging, NEW o \in Outputs
               PROVE  OnlyLast(o, cur[q])' /\ (~Reached(q, o)' => ~Got(o, cur[q])')
    OBVIOUS
  <2>1. pc'[q] = pc[q] /\ cur'[q] = cur[q] /\ pc[q] \in Logging
    BY <1>1 DEF Logging
  <2>2. OnlyLast(o, cur[q]) /\ (~Reached(q, o) => ~Got(o, cur[q]))
    BY <2>1 DEF OrderInv
  <2>3. Reached(q, o)' <=> Reached(q, o)
    BY <1>1, <2>1 DEF Reached
  <2> QED  BY <1>1, <2>1, <2>2, <2>3 DEF OnlyLast, Got
<1> QED  BY <1>4, <1>5, <1>6, <1>7, <1>8 DEF OrderInv

(* remove_callback's own message is a new one. *)
LEMMA OrderMiss ==
  ASSUME TypeOK, LockInv, LocalInv, OrderInv, NEW p \in Procs, FindNothing(p)
  PROVE  OrderInv'
<1>1. /\ UNCHANGED <<out, calls, s_callbacks, idx>> /\ calls \in Nat /\ pc[p] = "find"
      /\ \A q \in Procs : q # p => pc'[q] = pc[q] /\ cur'[q] = cur[q]
      /\ pc'[p] = "cutoff" /\ cur'[p].by = p /\ cur'[p].no = calls
  BY DEF FindNothing, Go, TypeOK, table, delivery
<1>2. Ordered' /\ Named'
  BY <1>1 DEF OrderInv, Ordered, Named, ToLog, Filtering, Logging
<1>3. \A q \in Procs : pc'[q] \in {"remove", "find"} => Early(q)'
  BY <1>1 DEF OrderInv, Early
<1>4. \A q \in Procs : pc'[q] \in ToLog => \A o \in Outputs : ~Got(o, cur[q])'
  <2>1. \A o \in Outputs : ~Got(o, cur'[p])
    BY <1>1 DEF OrderInv, Early, Got
  <2> QED  BY <1>1, <2>1 DEF OrderInv, Got
<1>5. \A q \in Procs : pc'[q] \in Logging =>
        \A o \in Outputs : OnlyLast(o, cur[q])' /\ (~Reached(q, o)' => ~Got(o, cur[q])')
  <2> SUFFICES ASSUME NEW q \in Procs, pc'[q] \in Logging, NEW o \in Outputs
               PROVE  OnlyLast(o, cur[q])' /\ (~Reached(q, o)' => ~Got(o, cur[q])')
    OBVIOUS
  <2>1. pc'[q] = pc[q] /\ cur'[q] = cur[q] /\ pc[q] \in Logging
    BY <1>1 DEF Logging
  <2>2. OnlyLast(o, cur[q]) /\ (~Reached(q, o) => ~Got(o, cur[q]))
    BY <2>1 DEF OrderInv
  <2>3. Reached(q, o)' <=> Reached(q, o)
    BY <1>1, <2>1 DEF Reached
  <2> QED  BY <1>1, <2>1, <2>2, <2>3 DEF OnlyLast, Got
<1> QED  BY <1>2, <1>3, <1>4, <1>5 DEF OrderInv

(* log_message writes its message to the next output, or passes it by. *)
LEMMA OrderDeliver ==
  ASSUME TypeOK, LockInv, LocalInv, LifeInv, OrderInv, NEW p \in Procs,
         WriteStderr(p) \/ CallSink(p)
  PROVE  OrderInv'
<1> DEFINE m == cur[p]
<1>0. PICK o : o = IF pc[p] = "stderr" THEN Stderr ELSE Here(p)
  OBVIOUS
<1>1. /\ pc[p] \in {"stderr", "sinks"} /\ pc'[p] \in {"stderr_flush", "sinks", "sink_flush"}
      /\ UNCHANGED <<s_callbacks, cur, calls>> /\ m \in Message
      /\ \A q \in Procs : q # p => pc'[q] = pc[q] /\ pc[q] \notin Logging
  <2>1. pc[p] \in {"stderr", "sinks"} /\ UNCHANGED <<s_callbacks, cur, calls>>
    BY DEF WriteStderr, CallSink, table, locals
  <2>2. /\ pc'[p] \in {"stderr_flush", "sinks", "sink_flush"}
        /\ \A q \in Procs : q # p => pc'[q] = pc[q]
    BY DEF WriteStderr, CallSink, Go, TypeOK
  <2>3. m \in Message /\ \A q \in Procs : q # p => pc[q] \notin Logging
    BY <2>1 DEF LocalInv, LockInv, Logging, Holding
  <2> QED  BY <2>1, <2>2, <2>3
<1>2. o \in Outputs /\ (pc[p] = "sinks" => o \in Sinks /\ idx[p] \in 1..Len(s_callbacks))
  <2>1. CASE pc[p] = "stderr"
    BY <1>0, <2>1
  <2>2. CASE pc[p] = "sinks"
    <3>1. idx[p] \in 1..Len(s_callbacks) /\ s_callbacks \in Seq(Sinks)
      BY <2>2 DEF WriteStderr, CallSink, InLoop, TypeOK
    <3> QED  BY <1>0, <2>2, <3>1 DEF Here
  <2> QED  BY <1>1, <2>1, <2>2
<1>3. out' = out \/ out' = [out EXCEPT ![o] = Append(@, m)]
  BY <1>0 DEF WriteStderr, CallSink, Write
<1>4. ~Reached(p, o)
  <2>1. CASE pc[p] = "stderr"
    BY <2>1 DEF Reached
  <2>2. CASE pc[p] = "sinks"
    <3>1. o = s_callbacks[idx[p]] /\ o # Stderr
      BY <1>0, <1>2, <2>2 DEF Here
    <3>2. \A j \in 1..Len(s_callbacks) : j < idx[p] => s_callbacks[j] # o
      BY <1>2, <2>2, <3>1 DEF LifeInv, OnePlace
    <3> QED  BY <2>2, <3>1, <3>2 DEF Reached
  <2> QED  BY <1>1, <2>1, <2>2
<1>5. /\ ~Got(o, m)
      /\ \A q \in Outputs : OnlyLast(q, m) /\ (~Reached(p, q) => ~Got(q, m))
  BY <1>1, <1>2, <1>4 DEF OrderInv, Logging
<1>6. Ordered' /\ \A q \in Outputs : OnlyLast(q, m)'
  <2>1. CASE out' = out
    BY <1>1, <1>5, <2>1 DEF OrderInv, Ordered, OnlyLast
  <2>2. CASE out' = [out EXCEPT ![o] = Append(@, m)]
    <3>1. Ordered /\ out \in [Outputs -> Seq(Message)] /\ m' = m
      BY <1>1 DEF OrderInv, TypeOK
    <3>2. PICK mm : mm = m
      OBVIOUS
    <3> HIDE DEF m
    <3>3. Ordered' /\ \A q \in Outputs : OnlyLast(q, mm)'
      BY <1>1, <1>2, <1>5, <2>2, <3>1, <3>2, OrderedWrite
    <3> QED  BY <3>1, <3>2, <3>3 DEF OnlyLast
  <2> QED  BY <1>3, <2>1, <2>2
<1>7. /\ \A q \in Outputs : q # o => out'[q] = out[q]
      /\ \A q \in Outputs : \A x \in 1..Len(out'[q]) :
           (x \in 1..Len(out[q]) /\ out'[q][x] = out[q][x]) \/ out'[q][x] = m
  <2>1. CASE out' = out
    BY <2>1
  <2>2. CASE out' = [out EXCEPT ![o] = Append(@, m)]
    <3>1. out[o] \in Seq(Message) /\ out'[o] = Append(out[o], m)
      BY <1>2, <2>2 DEF TypeOK
    <3>2. \A q \in Outputs : q # o => out'[q] = out[q]
      BY <2>2 DEF TypeOK
    <3>3. \A x \in 1..Len(out'[o]) :
            (x \in 1..Len(out[o]) /\ out'[o][x] = out[o][x]) \/ out'[o][x] = m
      BY <1>1, <3>1
    <3> QED  BY <3>2, <3>3
  <2> QED  BY <1>3, <2>1, <2>2
<1>8. m.by = p /\ m.no <= calls
  BY <1>1 DEF OrderInv, Named, Logging
<1>9. Named'
  BY <1>1, <1>7, <1>8, SMTT(40) DEF OrderInv, Named, Logging
<1>10. \A q \in Procs : pc'[q] \in {"remove", "find"} => Early(q)'
  <2> SUFFICES ASSUME NEW q \in Procs, pc'[q] \in {"remove", "find"} PROVE Early(q)'
    OBVIOUS
  <2>1. q # p /\ Early(q)
    BY <1>1 DEF OrderInv
  <2> QED  BY <1>1, <1>7, <1>8, <2>1 DEF Early
<1>11. \A q \in Procs : pc'[q] \in ToLog => \A r \in Outputs : ~Got(r, cur[q])'
  <2> SUFFICES ASSUME NEW q \in Procs, pc'[q] \in ToLog, NEW r \in Outputs
               PROVE  ~Got(r, cur[q])'
    OBVIOUS
  <2>1. q # p
    BY <1>1 DEF ToLog, Filtering
  <2>2. cur[q].by = q /\ ~Got(r, cur[q]) /\ cur'[q] = cur[q]
    BY <1>1, <2>1 DEF OrderInv, Named
  <2> QED  BY <1>7, <1>8, <2>1, <2>2 DEF Got
<1>12. ASSUME NEW r \in Outputs, ~Reached(p, r)' PROVE ~Got(r, m)'
  <2>1. r # o
    <3>1. CASE pc[p] = "stderr"
      <4>1. o = Stderr /\ pc'[p] # "stderr"
        BY <1>0, <1>1, <3>1
      <4> QED  BY <1>12, <4>1 DEF Reached
    <3>2. CASE pc[p] = "sinks"
      <4>1. /\ o = s_callbacks[idx[p]] /\ idx[p] \in 1..Len(s_callbacks)
            /\ \/ pc'[p] = "sink_flush" /\ idx'[p] = idx[p]
               \/ pc'[p] = "sinks" /\ idx'[p] = idx[p] + 1
        <5>1. CallSink(p) /\ o = Here(p) /\ idx[p] \in 1..Len(s_callbacks)
          BY <1>0, <1>2, <3>2 DEF WriteStderr
        <5>2. \/ pc'[p] = "sink_flush" /\ idx'[p] = idx[p]
              \/ pc'[p] = "sinks" /\ idx'[p] = idx[p] + 1
          <6>1. CASE pc' = pc
            <7>1. idx' = [idx EXCEPT ![p] = idx[p] + 1]
              BY <3>2, <5>1, <6>1 DEF CallSink, Go, At, TypeOK
            <7> QED  BY <3>2, <6>1, <7>1 DEF TypeOK
          <6>2. CASE pc' = [pc EXCEPT ![p] = "sink_flush"] /\ idx' = idx
            BY <6>2 DEF TypeOK
          <6>3. pc' = pc \/ (pc' = [pc EXCEPT ![p] = "sink_flush"] /\ idx' = idx)
            BY <5>1 DEF CallSink, Go
          <6> QED  BY <6>1, <6>2, <6>3
        <5> QED  BY <5>1, <5>2 DEF Here
      <4>2. idx[p] < idx'[p] \/ (idx[p] = idx'[p] /\ pc'[p] = "sink_flush")
        BY <4>1
      <4> QED  BY <1>1, <1>12, <4>1, <4>2 DEF Reached
    <3> QED  BY <1>1, <3>1, <3>2
  <2>2. ~Reached(p, r)
    <3>1. CASE pc[p] = "stderr"
      BY <3>1 DEF Reached
    <3>2. CASE pc[p] = "sinks"
      <4>1. idx'[p] >= idx[p] /\ pc'[p] \in {"sinks", "sink_flush"} /\ idx[p] \in Nat /\ idx'[p] \in Nat
        BY <3>2 DEF WriteStderr, CallSink, Go, At, TypeOK
      <4> QED  BY <1>1, <1>12, <3>2, <4>1 DEF Reached
    <3> QED  BY <1>1, <3>1, <3>2
  <2>3. ~Got(r, m) /\ out'[r] = out[r]
    BY <1>5, <1>7, <2>1, <2>2
  <2> QED  BY <1>1, <2>3 DEF Got
<1>13. \A q \in Procs : pc'[q] \in Logging =>
         \A r \in Outputs : OnlyLast(r, cur[q])' /\ (~Reached(q, r)' => ~Got(r, cur[q])')
  <2>1. \A q \in Procs : pc'[q] \in Logging => q = p
    BY <1>1
  <2> QED  BY <1>6, <1>12, <2>1
<1> QED  BY <1>6, <1>9, <1>10, <1>11, <1>13 DEF OrderInv

(* Every other step leaves the outputs and the messages alone. *)
LEMMA NextOrder == CoreInv /\ LifeInv /\ OrderInv /\ [Next]_vars => OrderInv'
<1> SUFFICES ASSUME CoreInv, LifeInv, OrderInv, [Next]_vars PROVE OrderInv'
  OBVIOUS
<1> USE DEF Waiting, Filtering, Logging, Changing, Working, Holding,
            mutex, table, config, delivery, locals
<1>0. TypeOK /\ LockInv /\ LocalInv /\ LifeInv /\ OrderInv
  BY DEF CoreInv
<1>1. ASSUME NEW t \in Threads, Log(t) PROVE OrderInv'
  BY <1>0, <1>1, OrderBegin
<1>2. ASSUME NEW t \in Threads, AddCallback(t) PROVE OrderInv'
  <2>1. OrderApart
    BY <1>0, <1>2, SMTT(40) DEF TypeOK, OrderApart, Reached, ToLog, AddCallback, Go
  <2> QED  BY <1>0, <2>1, OrderUndisturbed
<1>3. ASSUME NEW t \in Threads, RemoveCallback(t) PROVE OrderInv'
  BY <1>0, <1>3, OrderBegin
<1>4. ASSUME NEW t \in Threads, RemoveAllCallbacks(t) PROVE OrderInv'
  <2>1. OrderApart
    BY <1>0, <1>4 DEF TypeOK, OrderApart, Reached, ToLog, RemoveAllCallbacks, Call, Go
  <2> QED  BY <1>0, <2>1, OrderUndisturbed
<1>5. ASSUME NEW t \in Threads, Flush(t) PROVE OrderInv'
  <2>1. OrderApart
    BY <1>0, <1>5 DEF TypeOK, OrderApart, Reached, ToLog, Flush, Call, Go
  <2> QED  BY <1>0, <2>1, OrderUndisturbed
<1>6. ASSUME NEW p \in Procs, ReadCutoff(p) PROVE OrderInv'
  <2>0. /\ UNCHANGED <<out, calls, s_callbacks, idx>> /\ pc[p] \in {"cutoff", "reread"}
        /\ (pc'[p] \in {"log", "reread"} /\ cur' = cur) \/ pc'[p] \in {"idle", "unlock"}
        /\ \A q \in Procs \ {p} : pc'[q] = pc[q] /\ cur'[q] = cur[q]
    BY <1>0, <1>6 DEF TypeOK, ReadCutoff, Filtered, AfterLog, Go
  <2> QED  BY <1>0, <2>0, OrderLocal DEF ToLog
<1>7. ASSUME NEW p \in Procs, RereadCutoff(p) PROVE OrderInv'
  <2>0. /\ UNCHANGED <<out, calls, s_callbacks, idx>> /\ pc[p] \in {"cutoff", "reread"}
        /\ (pc'[p] \in {"log", "reread"} /\ cur' = cur) \/ pc'[p] \in {"idle", "unlock"}
        /\ \A q \in Procs \ {p} : pc'[q] = pc[q] /\ cur'[q] = cur[q]
    BY <1>0, <1>7 DEF TypeOK, RereadCutoff, Filtered, AfterLog, Go
  <2> QED  BY <1>0, <2>0, OrderLocal DEF ToLog
<1>8. ASSUME NEW p \in Procs, Acquire(p) PROVE OrderInv'
  <2>0. /\ UNCHANGED <<out, cur, calls, s_callbacks>>
        /\ pc[p] \in Waiting /\ pc'[p] = Entry[pc[p]]
        /\ \A q \in Procs \ {p} : pc'[q] = pc[q] /\ idx'[q] = idx[q]
    BY <1>0, <1>8 DEF TypeOK, Acquire, Go, At
  <2>1. /\ pc'[p] \in {"remove", "find"} => pc[p] \in {"remove", "find"}
        /\ pc'[p] \in ToLog \cup Logging => pc[p] \in ToLog
        /\ pc'[p] \in ToLog => pc'[p] \notin Logging
    BY <2>0 DEF Entry, ToLog
  <2> QED  BY <1>0, <2>0, <2>1, OrderLocal
<1>9. ASSUME NEW p \in Procs, WriteStderr(p) PROVE OrderInv'
  BY <1>0, <1>9, OrderDeliver
<1>10. ASSUME NEW p \in Procs, FlushStderr(p) PROVE OrderInv'
  <2>1. OrderApart
    BY <1>0, <1>10 DEF TypeOK, OrderApart, Reached, ToLog, FlushStderr, Go
  <2> QED  BY <1>0, <2>1, OrderUndisturbed
<1>11. ASSUME NEW p \in Procs, CallSink(p) PROVE OrderInv'
  BY <1>0, <1>11, OrderDeliver
<1>12. ASSUME NEW p \in Procs, FlushSink(p) PROVE OrderInv'
  <2>0. /\ UNCHANGED <<out, calls, s_callbacks, cur>> /\ pc[p] = "sink_flush" /\ pc'[p] = "sinks"
        /\ idx'[p] = idx[p] + 1 /\ idx[p] \in Nat
        /\ \A q \in Procs \ {p} : pc'[q] = pc[q] /\ idx'[q] = idx[q]
    BY <1>0, <1>12 DEF TypeOK, FlushSink, Go, At
  <2>3. \A j \in Nat : j < idx[p] \/ j = idx[p] => j < idx'[p]
    BY <2>0
  <2>4. \A q \in Procs, o \in Outputs : Reached(q, o) => Reached(q, o)'
    <3>1. s_callbacks \in Seq(Sinks)
      BY <1>0 DEF TypeOK
    <3> SUFFICES ASSUME NEW q \in Procs, NEW o \in Outputs, Reached(q, o) PROVE Reached(q, o)'
      OBVIOUS
    <3>2. CASE q = p
      <4>1. CASE o = Stderr
        BY <2>0, <3>2, <4>1 DEF Reached
      <4>2. CASE o # Stderr
        <5>1. PICK j \in 1..Len(s_callbacks) : s_callbacks[j] = o /\ (j < idx[p] \/ j = idx[p])
          BY <3>2, <4>2 DEF Reached
        <5>2. j < idx'[p] /\ pc'[p] = "sinks" /\ s_callbacks' = s_callbacks
          BY <2>0, <2>3, <3>1, <5>1
        <5> QED  BY <3>2, <5>1, <5>2 DEF Reached
      <4> QED  BY <4>1, <4>2
    <3>3. CASE q # p
      BY <2>0, <3>3 DEF Reached
    <3> QED  BY <3>2, <3>3
  <2>5. calls' \in Nat /\ calls' >= calls /\ out' = out
    BY <1>0, <2>0 DEF TypeOK
  <2>6. ASSUME NEW q \in Procs
        PROVE  /\ pc'[q] \in {"remove", "find"} => pc[q] \in {"remove", "find"}
               /\ pc'[q] \in ToLog => pc[q] \in ToLog /\ cur'[q] = cur[q]
               /\ pc'[q] \in Logging => cur'[q] = cur[q] /\ pc[q] \in ToLog \cup Logging
    <3>1. CASE q = p
      BY <2>0, <3>1 DEF ToLog, Filtering, Logging
    <3>2. CASE q # p
      BY <2>0, <3>2
    <3> QED  BY <3>1, <3>2
  <2>1. OrderApart
    BY <2>4, <2>5, <2>6 DEF OrderApart
  <2> QED  BY <1>0, <2>1, OrderUndisturbed
<1>13. ASSUME NEW p \in Procs, EndLog(p) PROVE OrderInv'
  <2>0. /\ out' = out /\ calls' \in Nat /\ calls' >= calls
        /\ idx' = idx /\ s_callbacks' = s_callbacks /\ cur' = [cur EXCEPT ![p] = NoMessage]
        /\ \A q \in Procs : \/ pc'[q] \in {"idle", "unlock"}
                            \/ q # p /\ pc'[q] = pc[q]
    BY <1>0, <1>13 DEF TypeOK, EndLog, delivery, table
  <2>2. ASSUME NEW q \in Procs, pc'[q] \in {"remove", "find"} \cup ToLog \cup Logging
        PROVE  pc'[q] = pc[q] /\ cur'[q] = cur[q]
    <3>1. pc'[q] \notin {"idle", "unlock"}
      BY <2>2 DEF ToLog, Filtering, Logging
    <3> QED  BY <1>0, <2>0, <3>1 DEF TypeOK
  <2>3. \A q \in Procs, o \in Outputs :
          pc'[q] = pc[q] /\ Reached(q, o) => Reached(q, o)'
    BY <2>0 DEF Reached
  <2>1. OrderApart
    BY <2>0, <2>2, <2>3 DEF OrderApart
  <2> QED  BY <1>0, <2>1, OrderUndisturbed
<1>14. ASSUME NEW p \in Procs, Push(p) PROVE OrderInv'
  <2>0. /\ UNCHANGED <<out, cur, calls, idx>> /\ pc'[p] = "reset"
        /\ \A q \in Procs \ {p} : pc'[q] = pc[q] /\ pc[q] \notin Logging
    BY <1>0, <1>14 DEF TypeOK, LockInv, Push, Go
  <2> QED  BY <1>0, <2>0, OrderLocal DEF ToLog
<1>15. ASSUME NEW p \in Procs, FindAndClose(p) PROVE OrderInv'
  <2>0. /\ UNCHANGED <<out, cur, calls, s_callbacks>> /\ pc'[p] \notin Logging
        /\ pc'[p] \notin {"remove", "find"} \cup ToLog
        /\ \A q \in Procs \ {p} : pc'[q] = pc[q] /\ idx'[q] = idx[q]
    BY <1>0, <1>15 DEF TypeOK, FindAndClose, Go, At, ToLog
  <2> QED  BY <1>0, <2>0, OrderLocal
<1>16. ASSUME NEW p \in Procs, FindNothing(p) PROVE OrderInv'
  BY <1>0, <1>16, OrderMiss
<1>17. ASSUME NEW p \in Procs, Erase(p) PROVE OrderInv'
  <2>0. /\ UNCHANGED <<out, cur, calls, idx>> /\ pc'[p] = "reset"
        /\ \A q \in Procs \ {p} : pc'[q] = pc[q] /\ pc[q] \notin Logging
    BY <1>0, <1>17 DEF TypeOK, LockInv, Erase, Go
  <2> QED  BY <1>0, <2>0, OrderLocal DEF ToLog
<1>18. ASSUME NEW p \in Procs, CloseNext(p) PROVE OrderInv'
  <2>0. /\ UNCHANGED <<out, cur, calls, s_callbacks>> /\ pc'[p] \notin Logging
        /\ pc'[p] \notin {"remove", "find"} \cup ToLog
        /\ \A q \in Procs \ {p} : pc'[q] = pc[q] /\ idx'[q] = idx[q]
    BY <1>0, <1>18 DEF TypeOK, CloseNext, Go, At, ToLog
  <2> QED  BY <1>0, <2>0, OrderLocal
<1>19. ASSUME NEW p \in Procs, ClearAll(p) PROVE OrderInv'
  <2>0. /\ UNCHANGED <<out, cur, calls, idx>> /\ pc'[p] = "reset"
        /\ \A q \in Procs \ {p} : pc'[q] = pc[q] /\ pc[q] \notin Logging
    BY <1>0, <1>19 DEF TypeOK, LockInv, ClearAll, Go
  <2> QED  BY <1>0, <2>0, OrderLocal DEF ToLog
<1>20. ASSUME NEW p \in Procs, ResetCutoff(p) PROVE OrderInv'
  <2>0. /\ UNCHANGED <<out, cur, calls, s_callbacks>> /\ pc'[p] \notin Logging
        /\ pc'[p] \notin {"remove", "find"} \cup ToLog
        /\ \A q \in Procs \ {p} : pc'[q] = pc[q] /\ idx'[q] = idx[q]
    BY <1>0, <1>20 DEF TypeOK, ResetCutoff, Go, At, ToLog
  <2> QED  BY <1>0, <2>0, OrderLocal
<1>21. ASSUME NEW p \in Procs, RaiseCutoff(p) PROVE OrderInv'
  <2>0. /\ UNCHANGED <<out, cur, calls, s_callbacks>> /\ pc'[p] \notin Logging
        /\ pc'[p] \notin {"remove", "find"} \cup ToLog
        /\ \A q \in Procs \ {p} : pc'[q] = pc[q] /\ idx'[q] = idx[q]
    BY <1>0, <1>21 DEF TypeOK, RaiseCutoff, Go, At, ToLog
  <2> QED  BY <1>0, <2>0, OrderLocal
<1>22. ASSUME NEW p \in Procs, Return(p) PROVE OrderInv'
  <2>0. /\ UNCHANGED <<out, cur, calls, s_callbacks>> /\ pc'[p] \notin Logging
        /\ pc'[p] \notin {"remove", "find"} \cup ToLog
        /\ \A q \in Procs \ {p} : pc'[q] = pc[q] /\ idx'[q] = idx[q]
    BY <1>0, <1>22 DEF TypeOK, Return, Go, At, ToLog
  <2> QED  BY <1>0, <2>0, OrderLocal
<1>23. ASSUME NEW p \in Procs, FlushStderrFirst(p) PROVE OrderInv'
  <2>0. /\ UNCHANGED <<out, cur, calls, s_callbacks>> /\ pc'[p] \notin Logging
        /\ pc'[p] \notin {"remove", "find"} \cup ToLog
        /\ \A q \in Procs \ {p} : pc'[q] = pc[q] /\ idx'[q] = idx[q]
    BY <1>0, <1>23 DEF TypeOK, FlushStderrFirst, Go, At, ToLog
  <2> QED  BY <1>0, <2>0, OrderLocal
<1>24. ASSUME NEW p \in Procs, FlushNext(p) PROVE OrderInv'
  <2>0. /\ UNCHANGED <<out, cur, calls, s_callbacks>> /\ pc'[p] \notin Logging
        /\ pc'[p] \notin {"remove", "find"} \cup ToLog
        /\ \A q \in Procs \ {p} : pc'[q] = pc[q] /\ idx'[q] = idx[q]
    BY <1>0, <1>24 DEF TypeOK, FlushNext, Go, At, ToLog
  <2> QED  BY <1>0, <2>0, OrderLocal
<1>25. ASSUME NEW p \in Procs, FlushDone(p) PROVE OrderInv'
  <2>0. /\ UNCHANGED <<out, cur, calls, s_callbacks>> /\ pc'[p] \notin Logging
        /\ pc'[p] \notin {"remove", "find"} \cup ToLog
        /\ \A q \in Procs \ {p} : pc'[q] = pc[q] /\ idx'[q] = idx[q]
    BY <1>0, <1>25 DEF TypeOK, FlushDone, Go, At, ToLog
  <2> QED  BY <1>0, <2>0, OrderLocal
<1>26. ASSUME Poll PROVE OrderInv'
  <2>1. OrderApart
    BY <1>0, <1>26 DEF TypeOK, OrderApart, Reached, ToLog, Poll, Go
  <2> QED  BY <1>0, <2>1, OrderUndisturbed
<1>27. ASSUME SetFlushInterval PROVE OrderInv'
  <2>1. OrderApart
    BY <1>0, <1>27 DEF TypeOK, OrderApart, Reached, ToLog, SetFlushInterval
  <2> QED  BY <1>0, <2>1, OrderUndisturbed
<1>28. CASE UNCHANGED vars
  <2>1. OrderApart
    BY <1>0, <1>28 DEF TypeOK, OrderApart, Reached, vars
  <2> QED  BY <1>0, <2>1, OrderUndisturbed
<1> QED
  BY <1>1, <1>2, <1>3, <1>4, <1>5, <1>6, <1>7, <1>8, <1>9, <1>10, <1>11, <1>12, <1>13, <1>14, <1>15, <1>16, <1>17, <1>18, <1>19, <1>20, <1>21, <1>22, <1>23, <1>24, <1>25, <1>26, <1>27, <1>28
  DEF Next, Begin, Step, Finished

(* The outputs agree on the order in every behaviour. *)
LEMMA OrderInvariant == Spec => []OrderInv
BY CoreInvariant, LifeInvariant, InitOrder, NextOrder, PTL DEF Spec

(* No two outputs disagree on the order of two messages and none gets a     *)
(* message twice, for any number of threads, callbacks and messages.        *)
THEOREM SameOrderCorrect == Spec => []SameOrder
<1>1. CoreInv /\ OrderInv => SameOrder
  <2> SUFFICES ASSUME CoreInv, OrderInv, NEW o1 \in Outputs, NEW o2 \in Outputs,
                      NEW i \in DOMAIN out[o1], NEW j \in DOMAIN out[o1], i < j,
                      Before(o2, out[o1][j], out[o1][i])
               PROVE  FALSE
    BY DEF SameOrder
  <2>1. out[o1] \in Seq(Message) /\ out[o2] \in Seq(Message)
    BY DEF CoreInv, TypeOK
  <2>2. PICK k, l \in DOMAIN out[o2] : k < l /\ out[o2][k] = out[o1][j] /\ out[o2][l] = out[o1][i]
    BY DEF Before
  <2>3. /\ i \in 1..Len(out[o1]) /\ j \in 1..Len(out[o1])
        /\ k \in 1..Len(out[o2]) /\ l \in 1..Len(out[o2])
    BY <2>1
  <2>4. Agree(out[o1], out[o2])
    BY DEF OrderInv, Ordered
  <2> QED  BY <2>2, <2>3, <2>4 DEF Agree
<1> QED  BY CoreInvariant, OrderInvariant, <1>1, PTL

-----------------------------------------------------------------------------
(***************************************************************************)
(* Where a message has arrived at any moment of its delivery, for any      *)
(* number of threads, callbacks and messages.                              *)
(***************************************************************************)

(* A thread has a message from the start of its call to the end of         *)
(* log_message, which gave it to those of the outputs it has been at that  *)
(* want it, and to no others.                                              *)
DeliveryInv ==
  /\ \A p \in Procs : cur[p] # NoMessage => pc[p] \in ToLog \cup Logging
  /\ \A p \in Procs : pc[p] \in Logging =>
       \A o \in Outputs : Got(o, cur[p]) <=> Wants(o, cur[p]) /\ Reached(p, o)
  /\ \A p \in Procs : pc[p] \in {"stderr", "stderr_flush"} => idx[p] = 1

(* At the start nothing is being logged. *)
LEMMA InitDelivery == Init => DeliveryInv
BY DEF Init, DeliveryInv, Logging

(* A step that leaves the outputs and every delivery under way alone. *)
DeliveryApart ==
  /\ out' = out
  /\ \A q \in Procs :
       /\ cur'[q] # NoMessage => pc'[q] \in ToLog \cup Logging
       /\ pc'[q] \in {"stderr", "stderr_flush"} => idx'[q] = 1
       /\ pc'[q] \in Logging =>
            /\ cur'[q] = cur[q]
            /\ \/ pc[q] \in Logging /\ \A o \in Outputs : Reached(q, o)' <=> Reached(q, o)
               \/ pc[q] = "log" /\ pc'[q] = "stderr"

(* Such a step preserves DeliveryInv. *)
LEMMA DeliveryUndisturbed == OrderInv /\ DeliveryInv /\ DeliveryApart => DeliveryInv'
<1> SUFFICES ASSUME OrderInv, DeliveryInv, DeliveryApart PROVE DeliveryInv'
  OBVIOUS
<1>1. \A p \in Procs : /\ cur'[p] # NoMessage => pc'[p] \in ToLog \cup Logging
                       /\ pc'[p] \in {"stderr", "stderr_flush"} => idx'[p] = 1
  BY DEF DeliveryApart
<1>2. ASSUME NEW p \in Procs, pc'[p] \in Logging, NEW o \in Outputs
      PROVE  Got(o, cur[p])' <=> Wants(o, cur'[p]) /\ Reached(p, o)'
  <2>1. out' = out /\ cur'[p] = cur[p]
    BY <1>2 DEF DeliveryApart
  <2>2. CASE pc[p] \in Logging /\ \A q \in Outputs : Reached(p, q)' <=> Reached(p, q)
    BY <1>2, <2>1, <2>2 DEF DeliveryInv, Got
  <2>3. CASE pc[p] = "log" /\ pc'[p] = "stderr"
    <3>1. ~Got(o, cur[p])
      BY <2>3 DEF OrderInv, ToLog
    <3>2. ~Reached(p, o)'
      BY <2>3 DEF Reached
    <3> QED  BY <2>1, <3>1, <3>2 DEF Got
  <2> QED  BY <1>2, <2>2, <2>3 DEF DeliveryApart
<1> QED  BY <1>1, <1>2 DEF DeliveryInv

(* A step of p that is not in log_message before or after, or takes s_mutex *)
(* for it: whoever else is in log_message stays where it is.                *)
LEMMA DeliveryLocal ==
  ASSUME OrderInv, DeliveryInv, NEW p \in Procs, UNCHANGED out,
         \A q \in Procs \ {p} :
           /\ pc'[q] = pc[q] /\ cur'[q] = cur[q] /\ idx'[q] = idx[q]
           /\ s_callbacks' = s_callbacks \/ pc[q] \notin Logging,
         \/ pc'[p] \notin Logging
         \/ pc[p] = "log" /\ pc'[p] = "stderr" /\ cur'[p] = cur[p] /\ idx'[p] = 1,
         cur'[p] # NoMessage => pc'[p] \in ToLog \cup Logging
  PROVE  DeliveryInv'
<1>1. \A q \in Procs \ {p} : pc'[q] \in Logging =>
        pc[q] \in Logging /\ \A o \in Outputs : Reached(q, o)' <=> Reached(q, o)
  BY DEF Reached
<1>2. \A q \in Procs \ {p} :
        /\ cur'[q] # NoMessage => pc'[q] \in ToLog \cup Logging
        /\ pc'[q] \in {"stderr", "stderr_flush"} => idx'[q] = 1
  BY DEF DeliveryInv
<1>3. DeliveryApart
  BY <1>1, <1>2 DEF DeliveryApart, Logging
<1> QED  BY <1>3, DeliveryUndisturbed

(* log_message is at the next output: it writes what the output wants. *)
LEMMA DeliveryWrite ==
  ASSUME TypeOK, LockInv, LocalInv, LifeInv, OrderInv, DeliveryInv,
         NEW p \in Procs, NEW o \in Outputs, NEW m, m = cur[p],
         pc[p] \in {"stderr", "sinks"}, pc'[p] \in Logging,
         \A q \in Procs \ {p} : pc'[q] = pc[q] /\ cur'[q] = cur[q],
         cur'[p] = m, pc'[p] = "stderr_flush" => idx'[p] = 1, pc'[p] # "stderr", ~Reached(p, o),
         \A r \in Outputs : Reached(p, r)' <=> Reached(p, r) \/ r = o,
         out' = IF Wants(o, m) THEN [out EXCEPT ![o] = Append(@, m)] ELSE out
  PROVE  /\ DeliveryInv'
         /\ \A r \in Outputs : r # o \/ ~Wants(o, m) => out'[r] = out[r]
         /\ Wants(o, m) => out'[o] = Append(out[o], m)
<1>1. /\ \A r \in Outputs : r # o \/ ~Wants(o, m) => out'[r] = out[r]
      /\ Wants(o, m) => out'[o] = Append(out[o], m)
      /\ out[o] \in Seq(Message)
  BY DEF TypeOK
<1>2. /\ owner = p /\ m \in Message
      /\ \A q \in Procs \ {p} : pc[q] \notin Logging
  BY DEF LockInv, LocalInv, Logging, Holding
<1>3. ~Got(o, m) /\ \A r \in Outputs : Got(r, m) <=> Wants(r, m) /\ Reached(p, r)
  BY DEF DeliveryInv, Logging
<1>4. ASSUME NEW r \in Outputs PROVE Got(r, m)' <=> Wants(r, m) /\ Reached(p, r)'
  <2>1. CASE r # o \/ ~Wants(o, m)
    BY <1>1, <1>3, <2>1 DEF Got
  <2>2. CASE r = o /\ Wants(o, m)
    <3>1. Len(out'[o]) \in 1..Len(out'[o]) /\ out'[o][Len(out'[o])] = m
      BY <1>1, <1>2, <2>2
    <3> QED  BY <2>2, <3>1 DEF Got
  <2> QED  BY <2>1, <2>2
<1>5. \A r \in Outputs : Got(r, cur[p])' <=> Wants(r, cur'[p]) /\ Reached(p, r)'
  BY <1>4 DEF Got
<1>6. \A q \in Procs : cur'[q] # NoMessage => pc'[q] \in ToLog \cup Logging
  BY DEF DeliveryInv
<1>7. \A q \in Procs : pc'[q] \in Logging => q = p
  BY <1>2
<1>8. DeliveryInv'
  BY <1>5, <1>6, <1>7 DEF DeliveryInv, Logging
<1> QED  BY <1>1, <1>8

(* The two steps of log_message that write, and where they write. *)
LEMMA DeliverWhere ==
  ASSUME TypeOK, LockInv, LocalInv, LifeInv, DeliveryInv, NEW p \in Procs,
         WriteStderr(p) \/ CallSink(p)
  PROVE  \E o \in Outputs :
           /\ pc[p] \in {"stderr", "sinks"} /\ pc'[p] \in Logging /\ pc'[p] # "stderr"
           /\ pc'[p] = "stderr_flush" => idx'[p] = 1
           /\ \A q \in Procs \ {p} : pc'[q] = pc[q]
           /\ UNCHANGED <<owner, s_callbacks, closes, cur>>
           /\ ~Reached(p, o)
           /\ \A r \in Outputs : Reached(p, r)' <=> Reached(p, r) \/ r = o
           /\ out' = IF Wants(o, cur[p]) THEN [out EXCEPT ![o] = Append(@, cur[p])] ELSE out
<1>1. CASE WriteStderr(p)
  <2>1. /\ pc[p] = "stderr" /\ pc'[p] \in {"stderr_flush", "sinks"}
        /\ \A q \in Procs \ {p} : pc'[q] = pc[q]
        /\ UNCHANGED <<owner, s_callbacks, closes, cur, idx>>
        /\ out' = IF Wants(Stderr, cur[p]) THEN [out EXCEPT ![Stderr] = Append(@, cur[p])] ELSE out
    BY <1>1 DEF WriteStderr, Write, Go, TypeOK, mutex, table, locals
  <2>2. idx[p] = 1 /\ Len(s_callbacks) \in Nat
    BY <2>1 DEF DeliveryInv, TypeOK
  <2>3. \A r \in Outputs : ~Reached(p, r)
    BY <2>1 DEF Reached
  <2>4. \A r \in Outputs : Reached(p, r)' <=> r = Stderr
    BY <2>1, <2>2 DEF Reached
  <2> QED  BY <2>1, <2>2, <2>3, <2>4 DEF Logging
<1>2. CASE CallSink(p)
  <2>1. /\ pc[p] = "sinks" /\ idx[p] \in 1..Len(s_callbacks) /\ s_callbacks \in Seq(Sinks)
        /\ UNCHANGED <<owner, s_callbacks, closes, cur>>
        /\ out' = IF Wants(Here(p), cur[p]) THEN [out EXCEPT ![Here(p)] = Append(@, cur[p])] ELSE out
    <3>1. pc[p] = "sinks" /\ InLoop(p) /\ UNCHANGED <<owner, s_callbacks, closes, cur>>
      BY <1>2 DEF CallSink, mutex, table
    <3>2. out' = IF Wants(Here(p), cur[p]) THEN [out EXCEPT ![Here(p)] = Append(@, cur[p])] ELSE out
      BY <1>2 DEF CallSink, Write
    <3>3. idx[p] \in 1..Len(s_callbacks) /\ s_callbacks \in Seq(Sinks)
      BY <3>1 DEF InLoop, TypeOK
    <3> QED  BY <3>1, <3>2, <3>3
  <2>2. /\ \/ pc'[p] = "sink_flush" /\ idx'[p] = idx[p]
           \/ pc'[p] = "sinks" /\ idx'[p] = idx[p] + 1
        /\ \A q \in Procs \ {p} : pc'[q] = pc[q]
    <3>1. \/ pc' = pc /\ idx' = [idx EXCEPT ![p] = idx[p] + 1]
          \/ pc' = [pc EXCEPT ![p] = "sink_flush"] /\ idx' = idx
      BY <1>2 DEF CallSink, Go, At
    <3>2. CASE pc' = pc /\ idx' = [idx EXCEPT ![p] = idx[p] + 1]
      BY <2>1, <3>2 DEF TypeOK
    <3>3. CASE pc' = [pc EXCEPT ![p] = "sink_flush"] /\ idx' = idx
      BY <3>3 DEF TypeOK
    <3> QED  BY <3>1, <3>2, <3>3
  <2>3. PICK o : o = Here(p)
    OBVIOUS
  <2>4. o \in Sinks /\ o # Stderr /\ o = s_callbacks[idx[p]]
    BY <2>1, <2>3 DEF Here
  <2>5. ~Reached(p, o)
    <3>1. \A j \in 1..Len(s_callbacks) : s_callbacks[j] = o => j = idx[p]
      BY <2>1, <2>4 DEF LifeInv, OnePlace
    <3> QED  BY <2>1, <2>4, <3>1 DEF Reached
  <2>6. ASSUME NEW r \in Outputs PROVE Reached(p, r)' <=> Reached(p, r) \/ r = o
    <3>1. CASE r = Stderr
      BY <2>1, <2>2, <3>1 DEF Reached
    <3>2. CASE r # Stderr
      <4>1. Reached(p, r)' <=> \E j \in 1..Len(s_callbacks) : s_callbacks[j] = r /\ j <= idx[p]
        <5>1. \A j \in 1..Len(s_callbacks) :
                j <= idx[p] <=> j < idx'[p] \/ (j = idx'[p] /\ pc'[p] = "sink_flush")
          BY <2>1, <2>2
        <5>2. pc'[p] \in {"sinks", "sink_flush"} /\ s_callbacks' = s_callbacks
          BY <2>1, <2>2
        <5> QED  BY <3>2, <5>1, <5>2 DEF Reached
      <4>2. Reached(p, r) <=> \E j \in 1..Len(s_callbacks) : s_callbacks[j] = r /\ j < idx[p]
        BY <2>1, <3>2 DEF Reached
      <4> QED  BY <2>1, <2>4, <4>1, <4>2, SMTT(40)
    <3> QED  BY <3>1, <3>2
  <2> QED  BY <2>1, <2>2, <2>3, <2>4, <2>5, <2>6 DEF Logging
<1> QED  BY <1>1, <1>2

(* So they do preserve DeliveryInv, and the outputs change as Write says. *)
LEMMA DeliveryDeliver ==
  ASSUME TypeOK, LockInv, LocalInv, LifeInv, OrderInv, DeliveryInv, NEW p \in Procs,
         WriteStderr(p) \/ CallSink(p)
  PROVE  DeliveryInv'
<1>1. PICK o \in Outputs :
           /\ pc[p] \in {"stderr", "sinks"} /\ pc'[p] \in Logging /\ pc'[p] # "stderr"
           /\ pc'[p] = "stderr_flush" => idx'[p] = 1
           /\ \A q \in Procs \ {p} : pc'[q] = pc[q]
           /\ UNCHANGED <<owner, s_callbacks, closes, cur>>
           /\ ~Reached(p, o)
           /\ \A r \in Outputs : Reached(p, r)' <=> Reached(p, r) \/ r = o
           /\ out' = IF Wants(o, cur[p]) THEN [out EXCEPT ![o] = Append(@, cur[p])] ELSE out
  BY DeliverWhere
<1> QED  BY <1>1, DeliveryWrite

(* Every other step leaves the deliveries alone, or begins or ends one. *)
LEMMA NextDelivery ==
  CoreInv /\ LifeInv /\ OrderInv /\ DeliveryInv /\ [Next]_vars => DeliveryInv'
<1> SUFFICES ASSUME CoreInv, LifeInv, OrderInv, DeliveryInv, [Next]_vars PROVE DeliveryInv'
  OBVIOUS
<1> USE DEF Waiting, Filtering, Logging, Changing, Working, Holding,
            mutex, table, config, delivery, locals
<1>0. TypeOK /\ LockInv /\ LocalInv /\ LifeInv /\ OrderInv /\ DeliveryInv
  BY DEF CoreInv
<1>1. ASSUME NEW t \in Threads, Log(t) PROVE DeliveryInv'
  <2>1. /\ out' = out
        /\ \A q \in Procs \ {t} : pc'[q] = pc[q] /\ cur'[q] = cur[q] /\ idx'[q] = idx[q]
    BY <1>0, <1>1 DEF TypeOK, Log, Call, Go
  <2>2. \A q \in Procs \ {t} : s_callbacks' = s_callbacks \/ pc[q] \notin Logging
    BY <1>0, <1>1 DEF Log, Call, Go
  <2>3. /\ \/ pc'[t] \notin Logging
           \/ pc[t] = "log" /\ pc'[t] = "stderr" /\ cur'[t] = cur[t] /\ idx'[t] = 1
        /\ cur'[t] # NoMessage => pc'[t] \in ToLog \cup Logging
    BY <1>0, <1>1 DEF TypeOK, DeliveryInv, ToLog, Log, Call, Go
  <2> QED  BY <1>0, <2>1, <2>2, <2>3, DeliveryLocal
<1>2. ASSUME NEW t \in Threads, AddCallback(t) PROVE DeliveryInv'
  <2>1. /\ out' = out
        /\ \A q \in Procs \ {t} : pc'[q] = pc[q] /\ cur'[q] = cur[q] /\ idx'[q] = idx[q]
    BY <1>0, <1>2 DEF TypeOK, AddCallback, Go
  <2>2. \A q \in Procs \ {t} : s_callbacks' = s_callbacks \/ pc[q] \notin Logging
    BY <1>0, <1>2 DEF AddCallback, Go
  <2>3. /\ \/ pc'[t] \notin Logging
           \/ pc[t] = "log" /\ pc'[t] = "stderr" /\ cur'[t] = cur[t] /\ idx'[t] = 1
        /\ cur'[t] # NoMessage => pc'[t] \in ToLog \cup Logging
    BY <1>0, <1>2 DEF TypeOK, DeliveryInv, ToLog, AddCallback, Go
  <2> QED  BY <1>0, <2>1, <2>2, <2>3, DeliveryLocal
<1>3. ASSUME NEW t \in Threads, RemoveCallback(t) PROVE DeliveryInv'
  <2>1. /\ out' = out
        /\ \A q \in Procs \ {t} : pc'[q] = pc[q] /\ cur'[q] = cur[q] /\ idx'[q] = idx[q]
    BY <1>0, <1>3 DEF TypeOK, RemoveCallback, Call, Go
  <2>2. \A q \in Procs \ {t} : s_callbacks' = s_callbacks \/ pc[q] \notin Logging
    BY <1>0, <1>3 DEF RemoveCallback, Call, Go
  <2>3. /\ \/ pc'[t] \notin Logging
           \/ pc[t] = "log" /\ pc'[t] = "stderr" /\ cur'[t] = cur[t] /\ idx'[t] = 1
        /\ cur'[t] # NoMessage => pc'[t] \in ToLog \cup Logging
    BY <1>0, <1>3 DEF TypeOK, DeliveryInv, ToLog, RemoveCallback, Call, Go
  <2> QED  BY <1>0, <2>1, <2>2, <2>3, DeliveryLocal
<1>4. ASSUME NEW t \in Threads, RemoveAllCallbacks(t) PROVE DeliveryInv'
  <2>1. /\ out' = out
        /\ \A q \in Procs \ {t} : pc'[q] = pc[q] /\ cur'[q] = cur[q] /\ idx'[q] = idx[q]
    BY <1>0, <1>4 DEF TypeOK, RemoveAllCallbacks, Call, Go
  <2>2. \A q \in Procs \ {t} : s_callbacks' = s_callbacks \/ pc[q] \notin Logging
    BY <1>0, <1>4 DEF RemoveAllCallbacks, Call, Go
  <2>3. /\ \/ pc'[t] \notin Logging
           \/ pc[t] = "log" /\ pc'[t] = "stderr" /\ cur'[t] = cur[t] /\ idx'[t] = 1
        /\ cur'[t] # NoMessage => pc'[t] \in ToLog \cup Logging
    BY <1>0, <1>4 DEF TypeOK, DeliveryInv, ToLog, RemoveAllCallbacks, Call, Go
  <2> QED  BY <1>0, <2>1, <2>2, <2>3, DeliveryLocal
<1>5. ASSUME NEW t \in Threads, Flush(t) PROVE DeliveryInv'
  <2>1. /\ out' = out
        /\ \A q \in Procs \ {t} : pc'[q] = pc[q] /\ cur'[q] = cur[q] /\ idx'[q] = idx[q]
    BY <1>0, <1>5 DEF TypeOK, Flush, Call, Go
  <2>2. \A q \in Procs \ {t} : s_callbacks' = s_callbacks \/ pc[q] \notin Logging
    BY <1>0, <1>5 DEF Flush, Call, Go
  <2>3. /\ \/ pc'[t] \notin Logging
           \/ pc[t] = "log" /\ pc'[t] = "stderr" /\ cur'[t] = cur[t] /\ idx'[t] = 1
        /\ cur'[t] # NoMessage => pc'[t] \in ToLog \cup Logging
    BY <1>0, <1>5 DEF TypeOK, DeliveryInv, ToLog, Flush, Call, Go
  <2> QED  BY <1>0, <2>1, <2>2, <2>3, DeliveryLocal
<1>6. ASSUME NEW p \in Procs, ReadCutoff(p) PROVE DeliveryInv'
  <2>1. /\ out' = out
        /\ \A q \in Procs \ {p} : pc'[q] = pc[q] /\ cur'[q] = cur[q] /\ idx'[q] = idx[q]
    BY <1>0, <1>6 DEF TypeOK, ReadCutoff, Filtered, AfterLog, Go
  <2>2. \A q \in Procs \ {p} : s_callbacks' = s_callbacks \/ pc[q] \notin Logging
    BY <1>0, <1>6 DEF ReadCutoff, Filtered, AfterLog, Go
  <2>3. /\ \/ pc'[p] \notin Logging
           \/ pc[p] = "log" /\ pc'[p] = "stderr" /\ cur'[p] = cur[p] /\ idx'[p] = 1
        /\ cur'[p] # NoMessage => pc'[p] \in ToLog \cup Logging
    BY <1>0, <1>6 DEF TypeOK, DeliveryInv, ToLog, ReadCutoff, Filtered, AfterLog, Go
  <2> QED  BY <1>0, <2>1, <2>2, <2>3, DeliveryLocal
<1>7. ASSUME NEW p \in Procs, RereadCutoff(p) PROVE DeliveryInv'
  <2>1. /\ out' = out
        /\ \A q \in Procs \ {p} : pc'[q] = pc[q] /\ cur'[q] = cur[q] /\ idx'[q] = idx[q]
    BY <1>0, <1>7 DEF TypeOK, RereadCutoff, Filtered, AfterLog, Go
  <2>2. \A q \in Procs \ {p} : s_callbacks' = s_callbacks \/ pc[q] \notin Logging
    BY <1>0, <1>7 DEF RereadCutoff, Filtered, AfterLog, Go
  <2>3. /\ \/ pc'[p] \notin Logging
           \/ pc[p] = "log" /\ pc'[p] = "stderr" /\ cur'[p] = cur[p] /\ idx'[p] = 1
        /\ cur'[p] # NoMessage => pc'[p] \in ToLog \cup Logging
    BY <1>0, <1>7 DEF TypeOK, DeliveryInv, ToLog, RereadCutoff, Filtered, AfterLog, Go
  <2> QED  BY <1>0, <2>1, <2>2, <2>3, DeliveryLocal
<1>8. ASSUME NEW p \in Procs, Acquire(p) PROVE DeliveryInv'
  <2>1. /\ UNCHANGED <<out, cur, s_callbacks>> /\ idx'[p] = 1
        /\ pc[p] \in Waiting /\ pc'[p] = Entry[pc[p]]
        /\ \A q \in Procs \ {p} : pc'[q] = pc[q] /\ idx'[q] = idx[q]
    BY <1>0, <1>8 DEF TypeOK, Acquire, Go, At
  <2>2. /\ pc'[p] \notin Logging \/ (pc[p] = "log" /\ pc'[p] = "stderr")
        /\ pc[p] = "log" => pc'[p] = "stderr"
    BY <2>1 DEF Entry
  <2>3. cur[p] # NoMessage => pc[p] = "log"
    BY <1>0, <2>1 DEF DeliveryInv, ToLog
  <2> QED  BY <1>0, <2>1, <2>2, <2>3, DeliveryLocal
<1>9. ASSUME NEW p \in Procs, WriteStderr(p) PROVE DeliveryInv'
  BY <1>0, <1>9, DeliveryDeliver
<1>10. ASSUME NEW p \in Procs, FlushStderr(p) PROVE DeliveryInv'
  <2>1. /\ UNCHANGED <<out, cur, s_callbacks, idx>> /\ pc[p] = "stderr_flush" /\ pc'[p] = "sinks"
        /\ \A q \in Procs \ {p} : pc'[q] = pc[q]
        /\ idx[p] = 1 /\ Len(s_callbacks) \in Nat
    BY <1>0, <1>10 DEF TypeOK, DeliveryInv, FlushStderr, Go
  <2>2. \A o \in Outputs : Reached(p, o)' <=> Reached(p, o)
    BY <2>1 DEF Reached
  <2>3. \A q \in Procs \ {p} : \A o \in Outputs : Reached(q, o)' <=> Reached(q, o)
    BY <2>1 DEF Reached
  <2>4. DeliveryApart
    BY <1>0, <2>1, <2>2, <2>3 DEF DeliveryApart, DeliveryInv, ToLog
  <2> QED  BY <1>0, <2>4, DeliveryUndisturbed
<1>11. ASSUME NEW p \in Procs, CallSink(p) PROVE DeliveryInv'
  BY <1>0, <1>11, DeliveryDeliver
<1>12. ASSUME NEW p \in Procs, FlushSink(p) PROVE DeliveryInv'
  <2>1. /\ UNCHANGED <<out, cur, s_callbacks>> /\ pc[p] = "sink_flush" /\ pc'[p] = "sinks"
        /\ idx'[p] = idx[p] + 1 /\ idx[p] \in Nat /\ s_callbacks \in Seq(Sinks)
        /\ \A q \in Procs \ {p} : pc'[q] = pc[q] /\ idx'[q] = idx[q]
    BY <1>0, <1>12 DEF TypeOK, FlushSink, Go, At
  <2>2. ASSUME NEW o \in Outputs PROVE Reached(p, o)' <=> Reached(p, o)
    <3>1. \A j \in 1..Len(s_callbacks) : j < idx'[p] <=> (j < idx[p] \/ j = idx[p])
      BY <2>1
    <3> QED  BY <2>1, <3>1 DEF Reached
  <2>3. \A q \in Procs \ {p} : \A o \in Outputs : Reached(q, o)' <=> Reached(q, o)
    BY <2>1 DEF Reached
  <2>4. DeliveryApart
    BY <1>0, <2>1, <2>2, <2>3 DEF DeliveryApart, DeliveryInv, ToLog
  <2> QED  BY <1>0, <2>4, DeliveryUndisturbed
<1>13. ASSUME NEW p \in Procs, EndLog(p) PROVE DeliveryInv'
  <2>1. DeliveryApart
    BY <1>0, <1>13, ZenonT(60) DEF TypeOK, LockInv, DeliveryInv, DeliveryApart, ToLog, Reached, EndLog, SpawnFlushThread
  <2> QED  BY <1>0, <2>1, DeliveryUndisturbed
<1>14. ASSUME NEW p \in Procs, Push(p) PROVE DeliveryInv'
  <2>1. /\ out' = out
        /\ \A q \in Procs \ {p} : pc'[q] = pc[q] /\ cur'[q] = cur[q] /\ idx'[q] = idx[q]
    BY <1>0, <1>14 DEF TypeOK, Push, Go
  <2>2. \A q \in Procs \ {p} : s_callbacks' = s_callbacks \/ pc[q] \notin Logging
    BY <1>0, <1>14 DEF LockInv, Push, Go
  <2>3. /\ \/ pc'[p] \notin Logging
           \/ pc[p] = "log" /\ pc'[p] = "stderr" /\ cur'[p] = cur[p] /\ idx'[p] = 1
        /\ cur'[p] # NoMessage => pc'[p] \in ToLog \cup Logging
    BY <1>0, <1>14 DEF TypeOK, DeliveryInv, ToLog, Push, Go
  <2> QED  BY <1>0, <2>1, <2>2, <2>3, DeliveryLocal
<1>15. ASSUME NEW p \in Procs, FindAndClose(p) PROVE DeliveryInv'
  <2>1. /\ out' = out
        /\ \A q \in Procs \ {p} : pc'[q] = pc[q] /\ cur'[q] = cur[q] /\ idx'[q] = idx[q]
    BY <1>0, <1>15 DEF TypeOK, FindAndClose, Go, At
  <2>2. \A q \in Procs \ {p} : s_callbacks' = s_callbacks \/ pc[q] \notin Logging
    BY <1>0, <1>15 DEF FindAndClose, Go, At
  <2>3. /\ \/ pc'[p] \notin Logging
           \/ pc[p] = "log" /\ pc'[p] = "stderr" /\ cur'[p] = cur[p] /\ idx'[p] = 1
        /\ cur'[p] # NoMessage => pc'[p] \in ToLog \cup Logging
    BY <1>0, <1>15 DEF TypeOK, DeliveryInv, ToLog, FindAndClose, Go, At
  <2> QED  BY <1>0, <2>1, <2>2, <2>3, DeliveryLocal
<1>16. ASSUME NEW p \in Procs, FindNothing(p) PROVE DeliveryInv'
  <2>1. /\ out' = out
        /\ \A q \in Procs \ {p} : pc'[q] = pc[q] /\ cur'[q] = cur[q] /\ idx'[q] = idx[q]
    BY <1>0, <1>16 DEF TypeOK, FindNothing, Go
  <2>2. \A q \in Procs \ {p} : s_callbacks' = s_callbacks \/ pc[q] \notin Logging
    BY <1>0, <1>16 DEF FindNothing, Go
  <2>3. /\ \/ pc'[p] \notin Logging
           \/ pc[p] = "log" /\ pc'[p] = "stderr" /\ cur'[p] = cur[p] /\ idx'[p] = 1
        /\ cur'[p] # NoMessage => pc'[p] \in ToLog \cup Logging
    BY <1>0, <1>16 DEF TypeOK, DeliveryInv, ToLog, FindNothing, Go
  <2> QED  BY <1>0, <2>1, <2>2, <2>3, DeliveryLocal
<1>17. ASSUME NEW p \in Procs, Erase(p) PROVE DeliveryInv'
  <2>1. /\ out' = out
        /\ \A q \in Procs \ {p} : pc'[q] = pc[q] /\ cur'[q] = cur[q] /\ idx'[q] = idx[q]
    BY <1>0, <1>17 DEF TypeOK, Erase, Go
  <2>2. \A q \in Procs \ {p} : s_callbacks' = s_callbacks \/ pc[q] \notin Logging
    BY <1>0, <1>17 DEF LockInv, Erase, Go
  <2>3. /\ \/ pc'[p] \notin Logging
           \/ pc[p] = "log" /\ pc'[p] = "stderr" /\ cur'[p] = cur[p] /\ idx'[p] = 1
        /\ cur'[p] # NoMessage => pc'[p] \in ToLog \cup Logging
    BY <1>0, <1>17 DEF TypeOK, DeliveryInv, ToLog, Erase, Go
  <2> QED  BY <1>0, <2>1, <2>2, <2>3, DeliveryLocal
<1>18. ASSUME NEW p \in Procs, CloseNext(p) PROVE DeliveryInv'
  <2>1. /\ out' = out
        /\ \A q \in Procs \ {p} : pc'[q] = pc[q] /\ cur'[q] = cur[q] /\ idx'[q] = idx[q]
    BY <1>0, <1>18 DEF TypeOK, CloseNext, At
  <2>2. \A q \in Procs \ {p} : s_callbacks' = s_callbacks \/ pc[q] \notin Logging
    BY <1>0, <1>18 DEF CloseNext, At
  <2>3. /\ \/ pc'[p] \notin Logging
           \/ pc[p] = "log" /\ pc'[p] = "stderr" /\ cur'[p] = cur[p] /\ idx'[p] = 1
        /\ cur'[p] # NoMessage => pc'[p] \in ToLog \cup Logging
    BY <1>0, <1>18 DEF TypeOK, DeliveryInv, ToLog, CloseNext, At
  <2> QED  BY <1>0, <2>1, <2>2, <2>3, DeliveryLocal
<1>19. ASSUME NEW p \in Procs, ClearAll(p) PROVE DeliveryInv'
  <2>1. /\ out' = out
        /\ \A q \in Procs \ {p} : pc'[q] = pc[q] /\ cur'[q] = cur[q] /\ idx'[q] = idx[q]
    BY <1>0, <1>19 DEF TypeOK, ClearAll, Go
  <2>2. \A q \in Procs \ {p} : s_callbacks' = s_callbacks \/ pc[q] \notin Logging
    BY <1>0, <1>19 DEF LockInv, ClearAll, Go
  <2>3. /\ \/ pc'[p] \notin Logging
           \/ pc[p] = "log" /\ pc'[p] = "stderr" /\ cur'[p] = cur[p] /\ idx'[p] = 1
        /\ cur'[p] # NoMessage => pc'[p] \in ToLog \cup Logging
    BY <1>0, <1>19 DEF TypeOK, DeliveryInv, ToLog, ClearAll, Go
  <2> QED  BY <1>0, <2>1, <2>2, <2>3, DeliveryLocal
<1>20. ASSUME NEW p \in Procs, ResetCutoff(p) PROVE DeliveryInv'
  <2>1. /\ out' = out
        /\ \A q \in Procs \ {p} : pc'[q] = pc[q] /\ cur'[q] = cur[q] /\ idx'[q] = idx[q]
    BY <1>0, <1>20 DEF TypeOK, ResetCutoff, Go, At
  <2>2. \A q \in Procs \ {p} : s_callbacks' = s_callbacks \/ pc[q] \notin Logging
    BY <1>0, <1>20 DEF ResetCutoff, Go, At
  <2>3. /\ \/ pc'[p] \notin Logging
           \/ pc[p] = "log" /\ pc'[p] = "stderr" /\ cur'[p] = cur[p] /\ idx'[p] = 1
        /\ cur'[p] # NoMessage => pc'[p] \in ToLog \cup Logging
    BY <1>0, <1>20 DEF TypeOK, DeliveryInv, ToLog, ResetCutoff, Go, At
  <2> QED  BY <1>0, <2>1, <2>2, <2>3, DeliveryLocal
<1>21. ASSUME NEW p \in Procs, RaiseCutoff(p) PROVE DeliveryInv'
  <2>1. /\ out' = out
        /\ \A q \in Procs \ {p} : pc'[q] = pc[q] /\ cur'[q] = cur[q] /\ idx'[q] = idx[q]
    BY <1>0, <1>21 DEF TypeOK, RaiseCutoff, At
  <2>2. \A q \in Procs \ {p} : s_callbacks' = s_callbacks \/ pc[q] \notin Logging
    BY <1>0, <1>21 DEF RaiseCutoff, At
  <2>3. /\ \/ pc'[p] \notin Logging
           \/ pc[p] = "log" /\ pc'[p] = "stderr" /\ cur'[p] = cur[p] /\ idx'[p] = 1
        /\ cur'[p] # NoMessage => pc'[p] \in ToLog \cup Logging
    BY <1>0, <1>21 DEF TypeOK, DeliveryInv, ToLog, RaiseCutoff, At
  <2> QED  BY <1>0, <2>1, <2>2, <2>3, DeliveryLocal
<1>22. ASSUME NEW p \in Procs, Return(p) PROVE DeliveryInv'
  <2>1. /\ out' = out
        /\ \A q \in Procs \ {p} : pc'[q] = pc[q] /\ cur'[q] = cur[q] /\ idx'[q] = idx[q]
    BY <1>0, <1>22 DEF TypeOK, Return, Go
  <2>2. \A q \in Procs \ {p} : s_callbacks' = s_callbacks \/ pc[q] \notin Logging
    BY <1>0, <1>22 DEF Return, Go
  <2>3. /\ \/ pc'[p] \notin Logging
           \/ pc[p] = "log" /\ pc'[p] = "stderr" /\ cur'[p] = cur[p] /\ idx'[p] = 1
        /\ cur'[p] # NoMessage => pc'[p] \in ToLog \cup Logging
    BY <1>0, <1>22 DEF TypeOK, DeliveryInv, ToLog, Return, Go
  <2> QED  BY <1>0, <2>1, <2>2, <2>3, DeliveryLocal
<1>23. ASSUME NEW p \in Procs, FlushStderrFirst(p) PROVE DeliveryInv'
  <2>1. /\ out' = out
        /\ \A q \in Procs \ {p} : pc'[q] = pc[q] /\ cur'[q] = cur[q] /\ idx'[q] = idx[q]
    BY <1>0, <1>23 DEF TypeOK, FlushStderrFirst, Go
  <2>2. \A q \in Procs \ {p} : s_callbacks' = s_callbacks \/ pc[q] \notin Logging
    BY <1>0, <1>23 DEF FlushStderrFirst, Go
  <2>3. /\ \/ pc'[p] \notin Logging
           \/ pc[p] = "log" /\ pc'[p] = "stderr" /\ cur'[p] = cur[p] /\ idx'[p] = 1
        /\ cur'[p] # NoMessage => pc'[p] \in ToLog \cup Logging
    BY <1>0, <1>23 DEF TypeOK, DeliveryInv, ToLog, FlushStderrFirst, Go
  <2> QED  BY <1>0, <2>1, <2>2, <2>3, DeliveryLocal
<1>24. ASSUME NEW p \in Procs, FlushNext(p) PROVE DeliveryInv'
  <2>1. /\ out' = out
        /\ \A q \in Procs \ {p} : pc'[q] = pc[q] /\ cur'[q] = cur[q] /\ idx'[q] = idx[q]
    BY <1>0, <1>24 DEF TypeOK, FlushNext, At
  <2>2. \A q \in Procs \ {p} : s_callbacks' = s_callbacks \/ pc[q] \notin Logging
    BY <1>0, <1>24 DEF FlushNext, At
  <2>3. /\ \/ pc'[p] \notin Logging
           \/ pc[p] = "log" /\ pc'[p] = "stderr" /\ cur'[p] = cur[p] /\ idx'[p] = 1
        /\ cur'[p] # NoMessage => pc'[p] \in ToLog \cup Logging
    BY <1>0, <1>24 DEF TypeOK, DeliveryInv, ToLog, FlushNext, At
  <2> QED  BY <1>0, <2>1, <2>2, <2>3, DeliveryLocal
<1>25. ASSUME NEW p \in Procs, FlushDone(p) PROVE DeliveryInv'
  <2>1. /\ out' = out
        /\ \A q \in Procs \ {p} : pc'[q] = pc[q] /\ cur'[q] = cur[q] /\ idx'[q] = idx[q]
    BY <1>0, <1>25 DEF TypeOK, FlushDone, Go
  <2>2. \A q \in Procs \ {p} : s_callbacks' = s_callbacks \/ pc[q] \notin Logging
    BY <1>0, <1>25 DEF FlushDone, Go
  <2>3. /\ \/ pc'[p] \notin Logging
           \/ pc[p] = "log" /\ pc'[p] = "stderr" /\ cur'[p] = cur[p] /\ idx'[p] = 1
        /\ cur'[p] # NoMessage => pc'[p] \in ToLog \cup Logging
    BY <1>0, <1>25 DEF TypeOK, DeliveryInv, ToLog, FlushDone, Go
  <2> QED  BY <1>0, <2>1, <2>2, <2>3, DeliveryLocal
<1>26. ASSUME Poll PROVE DeliveryInv'
  <2>1. DeliveryApart
    BY <1>0, <1>26 DEF TypeOK, LockInv, DeliveryInv, DeliveryApart, ToLog, Reached, Poll, Go
  <2> QED  BY <1>0, <2>1, DeliveryUndisturbed
<1>27. ASSUME SetFlushInterval PROVE DeliveryInv'
  <2>1. DeliveryApart
    BY <1>0, <1>27 DEF TypeOK, LockInv, DeliveryInv, DeliveryApart, ToLog, Reached, SetFlushInterval
  <2> QED  BY <1>0, <2>1, DeliveryUndisturbed
<1>28. CASE UNCHANGED vars
  BY <1>0, <1>28 DEF DeliveryInv, Got, Reached, vars
<1> QED
  BY <1>1, <1>2, <1>3, <1>4, <1>5, <1>6, <1>7, <1>8, <1>9, <1>10, <1>11, <1>12, <1>13, <1>14, <1>15, <1>16, <1>17, <1>18, <1>19, <1>20, <1>21, <1>22, <1>23, <1>24, <1>25, <1>26, <1>27, <1>28
  DEF Next, Begin, Step, Finished

(* Deliveries are in order in every behaviour. *)
LEMMA DeliveryInvariant == Spec => []DeliveryInv
BY CoreInvariant, LifeInvariant, OrderInvariant, InitDelivery, NextDelivery, PTL DEF Spec

-----------------------------------------------------------------------------
(* The state of LogService, as the instance Service has it. *)
Attached == {s \in Installed : closes[s] = 0}
Detached == {s \in Sinks : closes[s] > 0}
Begun    == {cur[t] : t \in Threads} \ {NoMessage}
Given    == [o \in Outputs |-> Delivered(o)]

(* Attached, by what the callbacks that are not attached are. *)
Unclaimed == {s \in Sinks : /\ closes[s] = 0 /\ s \notin fresh
                            /\ \A p \in Procs : ~(Adding(p) /\ arg[p] = s)}

CoreFacts == /\ TypeOK /\ LockInv /\ LocalInv
             /\ LifeInv /\ CutoffInv /\ OrderInv /\ DeliveryInv
             /\ Attached = Unclaimed


(* Facts about sequences. *)
LEMMA FrontLast ==
  ASSUME NEW S, NEW s \in Seq(S)
  PROVE  /\ s # <<>> => Append(Front(s), Last(s)) = s
         /\ \A m \in S : /\ Front(Append(s, m)) = s /\ Last(Append(s, m)) = m
                         /\ Append(s, m) # <<>>
<1>1. ASSUME s # <<>> PROVE Append(Front(s), Last(s)) = s
  BY <1>1 DEF Front, Last
<1>2. ASSUME NEW m \in S
      PROVE /\ Front(Append(s, m)) = s /\ Last(Append(s, m)) = m /\ Append(s, m) # <<>>
  BY DEF Front, Last
<1> QED  BY <1>1, <1>2

(* The table of callbacks as a set. *)
LEMMA InstalledIs ==
  ASSUME s_callbacks \in Seq(Sinks)
  PROVE  Installed = {s \in Sinks : InTable(s)}
BY DEF Installed, Range, InTable

(* Verbosities are integers. *)
LEMMA VerbosityType == ASSUME NEW m \in Message PROVE m.verbosity \in Int
<1>1. Levels \cup {Verbosity_ERROR} \subseteq Int
  BY DEF Verbosity_ERROR
<1>2. m.verbosity \in Levels \cup {Verbosity_ERROR}
  BY DEF Message
<1> QED  BY <1>1, <1>2

(* The messages of two threads differ. *)
LEMMA OwnMessage ==
  ASSUME CoreFacts, NEW t \in Threads, cur[t] # NoMessage
  PROVE  cur[t] \in Message /\ \A u \in Threads : u # t => cur[u] # cur[t]
<1>1. \A u \in Threads : cur[u] # NoMessage => cur[u].by = u
  BY DEF CoreFacts, DeliveryInv, OrderInv, Named
<1>2. cur[t] \in Message
  BY DEF CoreFacts, TypeOK
<1>3. ASSUME NEW u \in Threads, u # t PROVE cur[u] # cur[t]
  BY <1>1, <1>3
<1> QED  BY <1>2, <1>3

(* A step that changes only how far a change of the callbacks has come. *)
LEMMA QuietStep ==
  ASSUME Attached' = Attached, Detached' = Detached, Begun' = Begun, Given' = Given
  PROVE  Service!Next
<1>1. ChangeRunning' \in BOOLEAN
  BY DEF ChangeRunning
<1>2. Service!Change
  BY <1>1 DEF Service!Change, Attached, Detached, Begun, Given
<1> QED  BY <1>2 DEF Service!Next

(* What counts as delivered does not change when a thread goes on inside    *)
(* log_message, enters it, or does something else.                          *)
LEMMA GivenSame ==
  ASSUME CoreFacts, TypeOK', LockInv', OrderInv', out' = out,
         \A p \in Procs : /\ pc[p] \in Logging => pc'[p] \in Logging
                          /\ pc'[p] \in Logging =>
                               cur'[p] = cur[p] /\ (pc[p] \in Logging \/ pc'[p] = "stderr")
  PROVE  Given' = Given
<1>1. /\ \A p \in Procs : pc[p] \in Logging => owner = p
      /\ \A p \in Procs : pc'[p] \in Logging => owner' = p
      /\ owner \in Procs \cup {NoOne} /\ owner' \in Procs \cup {NoOne}
  BY DEF CoreFacts, LockInv, TypeOK, Holding
<1>2. ASSUME NEW o \in Outputs PROVE Delivered(o)' = Delivered(o)
  <2>1. CASE \E p \in Procs : pc[p] \in Logging
    <3>1. PICK p \in Procs : pc[p] \in Logging
      BY <2>1
    <3>2. owner = p /\ owner' = p /\ pc'[p] \in Logging /\ cur'[p] = cur[p]
      BY <1>1, <3>1
    <3> QED  BY <3>1, <3>2 DEF Delivered
  <2>2. CASE \A p \in Procs : pc[p] \notin Logging
    <3>1. Delivered(o) = out[o]
      BY <1>1, <2>2 DEF Delivered
    <3>2. CASE \E p \in Procs : pc'[p] \in Logging
      <4>1. PICK p \in Procs : pc'[p] \in Logging
        BY <3>2
      <4>2. owner' = p /\ pc'[p] = "stderr" /\ cur'[p] = cur[p]
        BY <1>1, <2>2, <4>1
      <4>3. ~Reached(p, o)'
        BY <4>2 DEF Reached
      <4>4. ~Got(o, cur[p])'
        BY <4>1, <4>3 DEF OrderInv
      <4>5. out'[o] # <<>> => Last(out'[o]) # cur'[p]
        <5>1. out'[o] \in Seq(Message)
          BY DEF TypeOK
        <5>2. out'[o] # <<>> => Len(out'[o]) \in 1..Len(out'[o])
          BY <5>1
        <5> QED  BY <4>4, <5>2 DEF Got, Last
      <4> QED  BY <3>1, <4>2, <4>5 DEF Delivered
    <3>3. CASE \A p \in Procs : pc'[p] \notin Logging
      BY <1>1, <3>1, <3>3 DEF Delivered
    <3> QED  BY <3>2, <3>3
  <2> QED  BY <2>1, <2>2
<1> QED  BY <1>2 DEF Given

(* A write inside log_message is not yet a delivery. *)
LEMMA GivenWrite ==
  ASSUME CoreFacts, NEW p \in Procs, WriteStderr(p) \/ CallSink(p)
  PROVE  Given' = Given
<1>0. TypeOK /\ LockInv /\ LocalInv /\ LifeInv /\ OrderInv /\ DeliveryInv
  BY DEF CoreFacts
<1>1. PICK o \in Outputs :
           /\ pc[p] \in {"stderr", "sinks"} /\ pc'[p] \in Logging /\ pc'[p] # "stderr"
           /\ pc'[p] = "stderr_flush" => idx'[p] = 1
           /\ \A q \in Procs \ {p} : pc'[q] = pc[q]
           /\ UNCHANGED <<owner, s_callbacks, closes, cur>>
           /\ ~Reached(p, o)
           /\ \A r \in Outputs : Reached(p, r)' <=> Reached(p, r) \/ r = o
           /\ out' = IF Wants(o, cur[p]) THEN [out EXCEPT ![o] = Append(@, cur[p])] ELSE out
  BY <1>0, DeliverWhere
<1>2. PICK m : m = cur[p]
  OBVIOUS
<1>3. /\ owner = p /\ owner' = p /\ pc[p] \in Logging /\ pc'[p] \in Logging
      /\ cur'[p] = m /\ m \in Message /\ p # NoOne
  BY <1>0, <1>1, <1>2 DEF LockInv, LocalInv, Holding, Logging
<1>4. ASSUME NEW r \in Outputs PROVE Delivered(r)' = Delivered(r)
  <2>1. CASE out'[r] = out[r]
    BY <1>2, <1>3, <2>1 DEF Delivered
  <2>2. CASE r = o /\ Wants(o, m)
    <3>1. out[o] \in Seq(Message) /\ out'[o] = Append(out[o], m)
      BY <1>0, <1>1, <1>2, <2>2 DEF TypeOK
    <3>2. ~Got(o, m)
      BY <1>0, <1>1, <1>2, <1>3 DEF DeliveryInv
    <3>3. out[o] # <<>> => Last(out[o]) # m
      <4>1. out[o] # <<>> => Len(out[o]) \in 1..Len(out[o])
        BY <3>1
      <4> QED  BY <3>2, <4>1 DEF Got, Last
    <3>4. Delivered(o) = out[o]
      BY <1>2, <1>3, <3>3 DEF Delivered
    <3>5. Front(out'[o]) = out[o] /\ Last(out'[o]) = m /\ out'[o] # <<>>
      <4>1. /\ Front(Append(out[o], m)) = out[o] /\ Last(Append(out[o], m)) = m
            /\ Append(out[o], m) # <<>>
        BY <1>3, <3>1, FrontLast
      <4> QED  BY <3>1, <4>1
    <3> QED  BY <1>3, <2>2, <3>4, <3>5 DEF Delivered
  <2>3. out'[r] = out[r] \/ (r = o /\ Wants(o, m))
    BY <1>0, <1>1, <1>2 DEF TypeOK
  <2> QED  BY <2>1, <2>2, <2>3
<1> QED  BY <1>4 DEF Given

(* A call has a message to log. *)
LEMMA BeginStep ==
  ASSUME CoreFacts, TypeOK', NEW t \in Threads, NEW m, m # NoMessage,
         cur[t] = NoMessage, cur' = [cur EXCEPT ![t] = m],
         \A u \in Threads : cur[u] # m,
         Attached' = Attached, Detached' = Detached, Given' = Given,
         ChangeRunning' = ChangeRunning
  PROVE  Service!Next
<1>1. cur'[t] = m /\ \A u \in Threads : u # t => cur'[u] = cur[u]
  BY DEF CoreFacts, TypeOK
<1>2. m \in Message
  BY <1>1 DEF TypeOK
<1>3. m \notin Begun /\ Begun' = Begun \cup {m}
  BY <1>1 DEF Begun
<1>4. Service!Begin(m)
  BY <1>3 DEF Service!Begin, Attached, Detached, Begun, Given
<1> QED  BY <1>2, <1>4 DEF Service!Next

(* A call ends that has dropped its message. *)
LEMMA DropStep ==
  ASSUME CoreFacts, NEW t \in Threads, cur[t] # NoMessage,
         cur' = [cur EXCEPT ![t] = NoMessage],
         ChangeRunning \/ \A s \in Attached : ~Wants(s, cur[t]),
         Attached' = Attached, Detached' = Detached, Given' = Given,
         ChangeRunning' = ChangeRunning
  PROVE  Service!Next
<1>1. PICK m : m = cur[t]
  OBVIOUS
<1>2. m \in Message /\ \A u \in Threads : u # t => cur[u] # m
  BY <1>1, OwnMessage
<1>3. cur'[t] = NoMessage /\ \A u \in Threads : u # t => cur'[u] = cur[u]
  BY DEF CoreFacts, TypeOK
<1>4. m \in Begun /\ Begun' = Begun \ {m}
  BY <1>1, <1>2, <1>3 DEF Begun
<1>5. Service!Drop(m)
  BY <1>1, <1>4 DEF Service!Drop, Attached, Detached, Begun, Given
<1> QED  BY <1>2, <1>5 DEF Service!Next

(* What the invariants of the core say holds in every state. *)
LEMMA FactsHold == Spec => []CoreFacts
<1>1. TypeOK /\ LifeInv => Attached = Unclaimed
  <2> SUFFICES ASSUME TypeOK, LifeInv, NEW s \in Sinks, closes[s] = 0
               PROVE  InTable(s) <=> /\ s \notin fresh
                                     /\ \A p \in Procs : ~(Adding(p) /\ arg[p] = s)
    BY InstalledIs DEF TypeOK, Attached, Unclaimed
  <2>1. Live(s)
    BY DEF LifeInv
  <2>2. InTable(s) => s \notin fresh
    BY DEF LifeInv, OnePlace, InTable
  <2>3. InTable(s) => \A p \in Procs : ~(Adding(p) /\ arg[p] = s)
    BY DEF LifeInv, OnePlace
  <2> QED  BY <2>1, <2>2, <2>3 DEF Live
<1>2. CoreInv /\ LifeInv /\ CutoffInv /\ OrderInv /\ DeliveryInv => CoreFacts
  BY <1>1 DEF CoreFacts, CoreInv
<1>3. Spec => []CutoffInv
  BY CoreInvariant, InitCutoff, NextCutoff, PTL DEF Spec
<1> QED
  BY <1>2, <1>3, CoreInvariant, LifeInvariant, OrderInvariant, DeliveryInvariant, PTL

(* A step that only takes a call on: nothing is written, attached, closed, *)
(* begun or ended by it.                                                   *)
LEMMA StayStep ==
  ASSUME CoreFacts, CoreFacts', NEW p \in Procs,
         UNCHANGED <<s_callbacks, closes, out, cur>>,
         \A q \in Procs \ {p} : pc'[q] = pc[q],
         pc[p] \in Logging => pc'[p] \in Logging,
         pc'[p] \in Logging => pc[p] \in Logging \/ pc'[p] = "stderr"
  PROVE  Service!Next
<1>1. Attached' = Attached /\ Detached' = Detached /\ Begun' = Begun
  BY DEF Attached, Detached, Begun, Installed
<1>2. TypeOK' /\ LockInv' /\ OrderInv'
  BY DEF CoreFacts
<1>3. \A q \in Procs : /\ pc[q] \in Logging => pc'[q] \in Logging
                       /\ pc'[q] \in Logging =>
                            cur'[q] = cur[q] /\ (pc[q] \in Logging \/ pc'[q] = "stderr")
  OBVIOUS
<1>4. Given' = Given
  BY <1>2, <1>3, GivenSame
<1> QED  BY <1>1, <1>4, QuietStep

(* The steps that take callbacks out of the table: they were detached when *)
(* on_close was called.                                                    *)
LEMMA TakeOutStep ==
  ASSUME CoreFacts, CoreFacts', NEW p \in Procs, Erase(p) \/ ClearAll(p)
  PROVE  Service!Next
<1>1. /\ UNCHANGED <<fresh, closes, out, cur, arg>>
      /\ pc[p] \in {"erase", "close_all"} /\ pc'[p] = "reset"
      /\ \A q \in Procs \ {p} : pc'[q] = pc[q]
  BY DEF Erase, ClearAll, Go, table, delivery, locals, CoreFacts, TypeOK
<1>2. \A q \in Procs : Adding(q)' <=> Adding(q)
  BY <1>1 DEF Adding
<1>3. Unclaimed' = Unclaimed
  BY <1>1, <1>2 DEF Unclaimed
<1>4. Attached' = Attached /\ Detached' = Detached /\ Begun' = Begun
  BY <1>1, <1>3 DEF CoreFacts, Detached, Begun
<1>5. TypeOK' /\ LockInv' /\ OrderInv'
  BY DEF CoreFacts
<1>6. \A q \in Procs : /\ pc[q] \in Logging => pc'[q] \in Logging
                       /\ pc'[q] \in Logging =>
                            cur'[q] = cur[q] /\ (pc[q] \in Logging \/ pc'[q] = "stderr")
  BY <1>1 DEF Logging
<1>7. Given' = Given
  BY <1>1, <1>5, <1>6, GivenSame
<1> QED  BY <1>4, <1>7, QuietStep

(* add_callback puts its callback into the table. *)
LEMMA AttachStep ==
  ASSUME CoreFacts, CoreFacts', NEW p \in Procs, Push(p)
  PROVE  Service!Next
<1>1. PICK s : s = arg[p]
  OBVIOUS
<1>2. /\ UNCHANGED <<fresh, closes, out, cur, arg>>
      /\ pc[p] = "push" /\ pc'[p] = "reset"
      /\ \A q \in Procs \ {p} : pc'[q] = pc[q]
  BY DEF Push, Go, table, delivery, locals, CoreFacts, TypeOK
<1>3. s \in Sinks /\ Adding(p) /\ p \in Threads
  BY <1>1, <1>2 DEF CoreFacts, LocalInv, Adding
<1>4. closes[s] = 0 /\ s \notin fresh
  BY <1>1, <1>3 DEF CoreFacts, LifeInv, OnePlace, Live
<1>5. /\ ~Adding(p)'
      /\ \A q \in Procs \ {p} : (Adding(q)' <=> Adding(q)) /\ (Adding(q) => arg[q] # s)
  <2>1. ~Adding(p)' /\ \A q \in Procs \ {p} : Adding(q)' <=> Adding(q)
    BY <1>2 DEF Adding
  <2>2. \A q \in Procs \ {p} : Adding(q) => arg[q] # s
    BY <1>1, <1>3 DEF CoreFacts, LifeInv, OnePlace
  <2> QED  BY <2>1, <2>2
<1>6. Unclaimed' = Unclaimed \cup {s} /\ s \notin Unclaimed
  <2>1. ASSUME NEW r \in Sinks PROVE r \in Unclaimed' <=> r \in Unclaimed \/ r = s
    <3>1. r = s => r \in Unclaimed'
      BY <1>2, <1>4, <1>5 DEF Unclaimed
    <3>2. r # s => ~(Adding(p) /\ arg[p] = r)
      BY <1>1
    <3>3. r # s => (r \in Unclaimed' <=> r \in Unclaimed)
      BY <1>2, <1>5, <3>2 DEF Unclaimed
    <3> QED  BY <3>1, <3>3
  <2>2. s \notin Unclaimed
    BY <1>1, <1>3 DEF Unclaimed
  <2>3. Unclaimed \subseteq Sinks /\ Unclaimed' \subseteq Sinks
    BY DEF Unclaimed
  <2> QED  BY <1>3, <2>1, <2>2, <2>3
<1>7. /\ Attached' = Attached \cup {s} /\ s \notin Attached \cup Detached
      /\ Detached' = Detached /\ Begun' = Begun
  BY <1>2, <1>4, <1>6 DEF CoreFacts, Detached, Begun
<1>8. ChangeRunning' = TRUE
  BY <1>2, <1>3 DEF ChangeRunning, Changing
<1>9. TypeOK' /\ LockInv' /\ OrderInv'
  BY DEF CoreFacts
<1>10. \A q \in Procs : /\ pc[q] \in Logging => pc'[q] \in Logging
                        /\ pc'[q] \in Logging =>
                             cur'[q] = cur[q] /\ (pc[q] \in Logging \/ pc'[q] = "stderr")
  BY <1>2 DEF Logging
<1>11. Given' = Given
  BY <1>2, <1>9, <1>10, GivenSame
<1>12. Service!Attach(s)
  BY <1>7, <1>8, <1>11 DEF Service!Attach, Attached, Detached, Begun, Given
<1> QED  BY <1>3, <1>12 DEF Service!Next

(* on_close of one callback is called, by remove_callback or by            *)
(* remove_all_callbacks: from then on it receives nothing.                 *)
LEMMA DetachStep ==
  ASSUME CoreFacts, CoreFacts', NEW p \in Procs, NEW s \in Sinks,
         s \in Installed, closes[s] = 0, closes' = [closes EXCEPT ![s] = @ + 1],
         UNCHANGED <<s_callbacks, out, cur>>,
         pc[p] \notin Logging \cup Changing, pc'[p] \notin Logging \cup Changing,
         \A q \in Procs \ {p} : pc'[q] = pc[q]
  PROVE  Service!Next
<1>1. closes'[s] = 1 /\ \A r \in Sinks \ {s} : closes'[r] = closes[r]
  BY DEF CoreFacts, TypeOK
<1>2. Installed \subseteq Sinks /\ Installed' = Installed
  BY InstalledIs DEF CoreFacts, TypeOK, Installed
<1>3. /\ s \in Attached /\ Attached' = Attached \ {s}
      /\ Detached' = Detached \cup {s} /\ Begun' = Begun
  BY <1>1, <1>2 DEF Attached, Detached, Begun
<1>4. ChangeRunning' = ChangeRunning
  BY DEF ChangeRunning
<1>5. TypeOK' /\ LockInv' /\ OrderInv'
  BY DEF CoreFacts
<1>6. \A q \in Procs : /\ pc[q] \in Logging => pc'[q] \in Logging
                       /\ pc'[q] \in Logging =>
                            cur'[q] = cur[q] /\ (pc[q] \in Logging \/ pc'[q] = "stderr")
  OBVIOUS
<1>7. Given' = Given
  BY <1>5, <1>6, GivenSame
<1>8. Service!Detach(s)
  BY <1>3, <1>4, <1>7 DEF Service!Detach, Attached, Detached, Begun, Given
<1> QED  BY <1>8 DEF Service!Next

(* The first callback of an id, and the next of all, are still attached when *)
(* on_close is called for them.                                              *)
LEMMA CloseStep ==
  ASSUME CoreFacts, CoreFacts', NEW p \in Procs, FindAndClose(p) \/ CloseNext(p)
  PROVE  Service!Next
<1>0. /\ s_callbacks \in Seq(Sinks) /\ DOMAIN s_callbacks = 1..Len(s_callbacks)
      /\ idx[p] \in Nat \ {0}
  BY DEF CoreFacts, TypeOK
<1>1. PICK k : /\ k \in 1..Len(s_callbacks)
               /\ closes' = [closes EXCEPT ![s_callbacks[k]] = @ + 1]
               /\ pc[p] = "find" \/ (pc[p] = "close_all" /\ k = idx[p])
  <2>1. CASE FindAndClose(p)
    <3>1. PICK k \in DOMAIN s_callbacks : closes' = [closes EXCEPT ![s_callbacks[k]] = @ + 1]
      BY <2>1 DEF FindAndClose
    <3>2. pc[p] = "find"
      BY <2>1 DEF FindAndClose
    <3> QED  BY <1>0, <3>1, <3>2
  <2>2. CASE CloseNext(p)
    <3>1. /\ idx[p] \in 1..Len(s_callbacks) /\ pc[p] = "close_all"
          /\ closes' = [closes EXCEPT ![s_callbacks[idx[p]]] = @ + 1]
      BY <1>0, <2>2 DEF CloseNext, InLoop, Here
    <3> QED  BY <3>1
  <2> QED  BY <2>1, <2>2
<1>2. PICK s \in Sinks : s = s_callbacks[k] /\ s \in Installed /\ InTable(s)
  <2>1. s_callbacks[k] \in Sinks /\ InTable(s_callbacks[k])
    BY <1>0, <1>1 DEF InTable
  <2>2. s_callbacks[k] \in Installed
    BY <1>0, <2>1, InstalledIs
  <2> QED  BY <2>1, <2>2
<1>3. /\ UNCHANGED <<s_callbacks, out, cur>>
      /\ pc[p] \notin Logging \cup Changing /\ pc'[p] \notin Logging \cup Changing
      /\ \A q \in Procs \ {p} : pc'[q] = pc[q]
  BY DEF FindAndClose, CloseNext, Go, delivery, CoreFacts, TypeOK, Logging, Changing
<1>4. ~Closing(s)
  <2>1. owner = p /\ \A q \in Procs : pc[q] \in Holding => q = p
    BY <1>1 DEF CoreFacts, LockInv, Holding, Working
  <2>2. CASE pc[p] = "find"
    BY <2>1, <2>2, NoneClosing DEF CoreFacts
  <2>3. CASE pc[p] = "close_all" /\ k = idx[p]
    <3>1. \A j \in 1..Len(s_callbacks) : s_callbacks[j] = s => j = k
      BY <1>1, <1>2 DEF CoreFacts, LifeInv, OnePlace
    <3>2. \A q \in Procs : pc[q] \in {"erase", "close_all"} => q = p
      BY <2>1 DEF Holding, Working
    <3>3. ~\E q \in Procs : pc[q] = "erase" /\ s_callbacks[idx[q]] = s
      BY <2>3, <3>2
    <3>4. ~\E q \in Procs : \E j \in 1..Len(s_callbacks) :
             pc[q] = "close_all" /\ j < idx[q] /\ s_callbacks[j] = s
      BY <1>0, <2>3, <3>1, <3>2
    <3> QED  BY <3>3, <3>4 DEF Closing
  <2> QED  BY <1>1, <2>2, <2>3
<1>5. closes[s] = 0
  BY <1>2, <1>4 DEF CoreFacts, LifeInv, Live
<1> QED  BY <1>1, <1>2, <1>3, <1>5, DetachStep

(* LOG_F has a message: the program calls it, or remove_callback does. *)
LEMMA LogStep ==
  ASSUME CoreFacts, CoreFacts', NEW t \in Procs, t \in Threads,
         Log(t) \/ FindNothing(t)
  PROVE  Service!Next
<1>1. PICK m : m = cur'[t]
  OBVIOUS
<1>2. /\ cur' = [cur EXCEPT ![t] = m] /\ m.by = t
      /\ pc[t] \in {"idle", "find"} /\ pc'[t] = "cutoff"
      /\ \A q \in Procs \ {t} : pc'[q] = pc[q]
      /\ UNCHANGED <<s_callbacks, closes, out>>
  BY <1>1 DEF Log, Call, FindNothing, Go, table, delivery, CoreFacts, TypeOK
<1>3. cur[t] = NoMessage /\ \A u \in Threads : cur[u] # NoMessage => cur[u].by = u
  BY <1>2 DEF CoreFacts, DeliveryInv, OrderInv, Named, ToLog, Filtering, Logging
<1>4. m # NoMessage /\ \A u \in Threads : cur[u] # m
  BY <1>2, <1>3 DEF NoMessage
<1>5. Attached' = Attached /\ Detached' = Detached /\ ChangeRunning' = ChangeRunning
  BY <1>2 DEF Attached, Detached, Installed, ChangeRunning, Changing
<1>6. TypeOK' /\ LockInv' /\ OrderInv'
  BY DEF CoreFacts
<1>7. \A q \in Procs : /\ pc[q] \in Logging => pc'[q] \in Logging
                       /\ pc'[q] \in Logging =>
                            cur'[q] = cur[q] /\ (pc[q] \in Logging \/ pc'[q] = "stderr")
  BY <1>2 DEF Logging, CoreFacts, TypeOK
<1>8. Given' = Given
  BY <1>2, <1>6, <1>7, GivenSame
<1> QED  BY <1>2, <1>3, <1>4, <1>5, <1>6, <1>8, BeginStep

(* The cutoff lets the message pass, or drops it: only when no attached    *)
(* callback wants it, unless a change of the callbacks is under way.       *)
LEMMA CutoffReadStep ==
  ASSUME CoreFacts, CoreFacts', NEW p \in Procs, ReadCutoff(p) \/ RereadCutoff(p)
  PROVE  Service!Next
<1>1. /\ pc[p] \in Filtering /\ \A q \in Procs \ {p} : pc'[q] = pc[q]
      /\ UNCHANGED <<s_callbacks, closes, out, s_max_out_verbosity>>
      /\ pc'[p] \in {"log", "reread", "unlock", "idle"}
      /\ \/ cur' = cur
         \/ /\ cur' = [cur EXCEPT ![p] = NoMessage]
            /\ cur[p].verbosity > s_max_out_verbosity
  <2>1. cur[p] \in Message /\ s_max_out_verbosity \in Int /\ g_stderr_verbosity \in Int
    BY DEF CoreFacts, TypeOK, LocalInv, ReadCutoff, RereadCutoff, Filtering
  <2>2. cur[p].verbosity \in Int
    BY <2>1, VerbosityType
  <2>3. /\ pc[p] \in Filtering /\ UNCHANGED <<s_callbacks, closes, out, s_max_out_verbosity>>
        /\ \A q \in Procs \ {p} : pc'[q] = pc[q]
        /\ pc'[p] \in {"log", "reread", "unlock", "idle"}
    BY DEF CoreFacts, TypeOK, ReadCutoff, RereadCutoff, Filtered, AfterLog, Go,
           Filtering, table, delivery, config
  <2>4. ASSUME cur' # cur
        PROVE  cur' = [cur EXCEPT ![p] = NoMessage] /\ cur[p].verbosity > s_max_out_verbosity
    <3>1. CASE ReadCutoff(p)
      <4>1. /\ g_stderr_verbosity > s_max_out_verbosity
            /\ ~(cur[p].verbosity <= g_stderr_verbosity)
            /\ cur' = [cur EXCEPT ![p] = NoMessage]
        BY <2>4, <3>1 DEF ReadCutoff, Filtered
      <4> QED  BY <2>1, <2>2, <4>1
    <3>2. CASE RereadCutoff(p)
      <4>1. /\ ~(cur[p].verbosity <= s_max_out_verbosity)
            /\ cur' = [cur EXCEPT ![p] = NoMessage]
        BY <2>4, <3>2 DEF RereadCutoff, Filtered
      <4> QED  BY <2>1, <2>2, <4>1
    <3> QED  BY <3>1, <3>2
  <2> QED  BY <2>3, <2>4
<1>2. CASE cur' = cur
  BY <1>1, <1>2, StayStep DEF Logging, Filtering
<1>3. CASE /\ cur' = [cur EXCEPT ![p] = NoMessage]
           /\ cur[p].verbosity > s_max_out_verbosity
  <2>1. p \in Threads /\ cur[p] \in Message /\ cur[p] # NoMessage
    <3>1. p \in Threads /\ cur[p] \in Message
      BY <1>1 DEF CoreFacts, LocalInv, Filtering
    <3>2. cur[p].by # NoOne
      BY <3>1 DEF Message
    <3> QED  BY <3>1, <3>2 DEF NoMessage
  <2>2. ASSUME ~ChangeRunning, NEW s \in Attached PROVE ~Wants(s, cur[p])
    <3>1. \A q \in Procs : pc[q] \notin Changing
      BY <2>2 DEF ChangeRunning, CoreFacts, LocalInv, Changing
    <3>2. IsCutoff(s_max_out_verbosity, Len(s_callbacks))
      BY <3>1 DEF CoreFacts, CutoffInv
    <3>3. s \in Sinks /\ InTable(s)
      BY InstalledIs DEF CoreFacts, TypeOK, Attached
    <3>4. VerbosityOf[s] <= s_max_out_verbosity
      BY <3>2, <3>3 DEF IsCutoff, InTable
    <3>5. cur[p].verbosity \in Int /\ s_max_out_verbosity \in Int /\ VerbosityOf[s] \in Int
      <4>1. cur[p].verbosity \in Int
        BY <2>1, VerbosityType
      <4> QED  BY <3>3, <4>1 DEF CoreFacts, TypeOK
    <3>6. ~(cur[p].verbosity <= VerbosityOf[s])
      BY <1>3, <3>4, <3>5
    <3>7. s # Stderr
      BY <3>3
    <3> QED  BY <3>6, <3>7 DEF Wants
  <2>3. Attached' = Attached /\ Detached' = Detached /\ ChangeRunning' = ChangeRunning
    BY <1>1 DEF Attached, Detached, Installed, ChangeRunning, Changing, Filtering
  <2>4. TypeOK' /\ LockInv' /\ OrderInv'
    BY DEF CoreFacts
  <2>5. \A q \in Procs : /\ pc[q] \in Logging => pc'[q] \in Logging
                         /\ pc'[q] \in Logging =>
                              cur'[q] = cur[q] /\ (pc[q] \in Logging \/ pc'[q] = "stderr")
    BY <1>1, <1>3 DEF Logging, Filtering, CoreFacts, TypeOK
  <2>6. Given' = Given
    BY <1>1, <2>4, <2>5, GivenSame
  <2> QED  BY <1>3, <2>1, <2>2, <2>3, <2>6, DropStep
<1> QED  BY <1>1, <1>2, <1>3

(* log_message lets go of the mutex: its message is now in exactly the     *)
(* outputs that are attached and want it.                                  *)
LEMMA DeliverStep ==
  ASSUME CoreFacts, CoreFacts', NEW p \in Procs, EndLog(p)
  PROVE  Service!Next
<1>0. PICK m : m = cur[p]
  OBVIOUS
<1>1. /\ pc[p] = "sinks" /\ pc[p] \in Logging /\ pc'[p] \in {"idle", "unlock"}
      /\ idx[p] > Len(s_callbacks) /\ idx[p] \in Nat /\ s_callbacks \in Seq(Sinks)
      /\ cur' = [cur EXCEPT ![p] = NoMessage]
      /\ UNCHANGED <<s_callbacks, closes, out>>
      /\ \A q \in Procs \ {p} : pc'[q] = pc[q] \/ (q = FlushThread /\ pc[q] = "unborn" /\ pc'[q] = "idle")
  BY DEF EndLog, InLoop, SpawnFlushThread, CoreFacts, TypeOK, table, delivery, Logging
<1>2. owner = p /\ p \in Threads /\ m \in Message /\ p # NoOne
  BY <1>0, <1>1 DEF CoreFacts, LockInv, LocalInv, Holding, Logging
<1>3. m # NoMessage
  <2>1. m.by # NoOne
    BY <1>2 DEF Message
  <2> QED  BY <2>1 DEF NoMessage
<1>4. \A q \in Procs \ {p} : pc[q] \notin Logging
  BY <1>2 DEF CoreFacts, LockInv, Holding
<1>5. ASSUME NEW o \in Outputs PROVE Got(o, m) <=> Service!Receives(o, m)
  <2>1. Reached(p, o) <=> o = Stderr \/ InTable(o)
    BY <1>1 DEF Reached, InTable
  <2>2. o \in Sinks => (InTable(o) <=> o \in Attached)
    <3>1. o \in Sinks => ~Closing(o)
      BY <1>1, <1>2, NoneClosing DEF CoreFacts
    <3>2. o \in Sinks /\ InTable(o) => closes[o] = 0
      BY <3>1 DEF CoreFacts, LifeInv, Live
    <3> QED  BY <1>1, <3>2, InstalledIs DEF Attached
  <2>3. ~InTable(Stderr) /\ Stderr \notin Attached
    BY <1>1, InstalledIs DEF InTable, Attached
  <2>4. Got(o, m) <=> Wants(o, m) /\ Reached(p, o)
    BY <1>0, <1>1 DEF CoreFacts, DeliveryInv
  <2> QED  BY <2>1, <2>2, <2>3, <2>4 DEF Service!Receives, Attached
<1>6. ASSUME NEW o \in Outputs
      PROVE  /\ Got(o, m) => out[o] = Append(Delivered(o), m)
             /\ ~Got(o, m) => out[o] = Delivered(o)
  <2>1. out[o] \in Seq(Message)
    BY DEF CoreFacts, TypeOK
  <2>2. CASE Got(o, m)
    <3>1. out[o] # <<>> /\ Last(out[o]) = m
      <4>1. PICK i \in 1..Len(out[o]) : out[o][i] = m
        BY <2>2 DEF Got
      <4>2. OnlyLast(o, m)
        BY <1>0, <1>1, <2>2 DEF CoreFacts, OrderInv
      <4>3. i = Len(out[o])
        BY <4>1, <4>2 DEF OnlyLast
      <4> QED  BY <2>1, <4>1, <4>3 DEF Last
    <3>2. Delivered(o) = Front(out[o])
      BY <1>0, <1>1, <1>2, <3>1 DEF Delivered
    <3> QED  BY <2>1, <2>2, <3>1, <3>2, FrontLast
  <2>3. CASE ~Got(o, m)
    <3>1. out[o] # <<>> => Len(out[o]) \in 1..Len(out[o])
      BY <2>1
    <3>2. out[o] # <<>> => Last(out[o]) # m
      BY <2>3, <3>1 DEF Got, Last
    <3> QED  BY <1>0, <1>2, <2>3, <3>2 DEF Delivered
  <2> QED  BY <2>2, <2>3
<1>7. ASSUME NEW o \in Outputs PROVE Delivered(o)' = out[o]
  <2>1. \A q \in Procs : pc'[q] \notin Logging
    BY <1>1, <1>4 DEF Logging
  <2>2. owner' \in Procs \cup {NoOne}
    BY DEF CoreFacts, TypeOK
  <2> QED  BY <1>1, <2>1, <2>2 DEF Delivered
<1>8. Given' = [o \in Outputs |-> IF Service!Receives(o, m)
                                 THEN Append(Given[o], m) ELSE Given[o]]
  BY <1>5, <1>6, <1>7 DEF Given
<1>9. m \in Begun /\ Begun' = Begun \ {m}
  <2>1. \A u \in Threads : u # p => cur[u] # m
    BY <1>0, <1>2, <1>3, OwnMessage
  <2>2. cur'[p] = NoMessage /\ \A u \in Threads : u # p => cur'[u] = cur[u]
    BY <1>1 DEF CoreFacts, TypeOK
  <2> QED  BY <1>0, <1>2, <1>3, <2>1, <2>2 DEF Begun
<1>10. Attached' = Attached /\ Detached' = Detached /\ ChangeRunning' = ChangeRunning
  <2>1. \A u \in Threads : pc'[u] \in Changing <=> pc[u] \in Changing
    BY <1>1 DEF Changing
  <2> QED  BY <1>1, <2>1 DEF Attached, Detached, Installed, ChangeRunning
<1>11. Service!Deliver(m)
  BY <1>8, <1>9, <1>10 DEF Service!Deliver, Service!Outputs, Attached, Detached, Begun, Given
<1> QED  BY <1>2, <1>11 DEF Service!Next

(* Every step of the core is a step of LogService or none. *)
LEMMA NextService ==
  CoreFacts /\ CoreFacts' /\ [Next]_vars => [Service!Next]_(Service!svars)
<1> SUFFICES ASSUME CoreFacts, CoreFacts', [Next]_vars
             PROVE  [Service!Next]_(Service!svars)
  OBVIOUS
<1> USE DEF Waiting, Filtering, Logging, Changing, Working,
            mutex, table, config, delivery, locals
<1>0. TypeOK /\ LocalInv /\ DeliveryInv
  BY DEF CoreFacts
<1>1. ASSUME NEW t \in Threads, Log(t) PROVE Service!Next
  BY <1>1, LogStep
<1>2. ASSUME NEW t \in Threads,
             AddCallback(t) \/ RemoveCallback(t) \/ RemoveAllCallbacks(t) \/ Flush(t)
      PROVE  Service!Next
  <2>1. /\ UNCHANGED <<s_callbacks, closes, out, cur>>
        /\ \A q \in Procs \ {t} : pc'[q] = pc[q]
        /\ pc[t] = "idle" /\ pc'[t] \in Waiting
    BY <1>0, <1>2 DEF TypeOK, AddCallback, RemoveCallback, RemoveAllCallbacks, Flush, Call, Go
  <2> QED  BY <2>1, StayStep
<1>3. ASSUME NEW p \in Procs, ReadCutoff(p) \/ RereadCutoff(p) PROVE Service!Next
  BY <1>3, CutoffReadStep
<1>4. ASSUME NEW p \in Procs, Acquire(p) PROVE Service!Next
  <2>1. /\ UNCHANGED <<s_callbacks, closes, out, cur>>
        /\ \A q \in Procs \ {p} : pc'[q] = pc[q]
        /\ pc[p] \in Waiting /\ pc'[p] = Entry[pc[p]]
    BY <1>0, <1>4 DEF TypeOK, Acquire, Go
  <2>2. pc[p] \notin Logging /\ (pc'[p] \in Logging => pc'[p] = "stderr")
    BY <2>1 DEF Entry
  <2> QED  BY <2>1, <2>2, StayStep
<1>5. ASSUME NEW p \in Procs, WriteStderr(p) \/ CallSink(p) PROVE Service!Next
  <2>1. UNCHANGED <<s_callbacks, closes, cur>>
    BY <1>5 DEF WriteStderr, CallSink
  <2>2. Attached' = Attached /\ Detached' = Detached /\ Begun' = Begun
    BY <2>1 DEF Attached, Detached, Begun, Installed
  <2> QED  BY <1>5, <2>2, GivenWrite, QuietStep
<1>6. ASSUME NEW p \in Procs, FlushStderr(p) \/ FlushSink(p) PROVE Service!Next
  <2>1. /\ UNCHANGED <<s_callbacks, closes, out, cur>>
        /\ \A q \in Procs \ {p} : pc'[q] = pc[q]
        /\ pc[p] \in Logging /\ pc'[p] \in Logging
    BY <1>0, <1>6 DEF TypeOK, FlushStderr, FlushSink, Go
  <2> QED  BY <2>1, StayStep
<1>7. ASSUME NEW p \in Procs, EndLog(p) PROVE Service!Next
  BY <1>7, DeliverStep
<1>8. ASSUME NEW p \in Procs, Push(p) PROVE Service!Next
  BY <1>8, AttachStep
<1>9. ASSUME NEW p \in Procs, FindAndClose(p) \/ CloseNext(p) PROVE Service!Next
  BY <1>9, CloseStep
<1>10. ASSUME NEW p \in Procs, FindNothing(p) PROVE Service!Next
  <2>1. p \in Threads
    BY <1>0, <1>10 DEF LocalInv, FindNothing
  <2> QED  BY <1>10, <2>1, LogStep
<1>11. ASSUME NEW p \in Procs, Erase(p) \/ ClearAll(p) PROVE Service!Next
  BY <1>11, TakeOutStep
<1>12. ASSUME NEW p \in Procs, ResetCutoff(p) \/ RaiseCutoff(p) \/ Return(p) PROVE Service!Next
  <2>1. /\ UNCHANGED <<s_callbacks, closes, out, cur>>
        /\ \A q \in Procs \ {p} : pc'[q] = pc[q]
        /\ pc[p] \notin Logging /\ pc'[p] \notin Logging
    BY <1>0, <1>12 DEF TypeOK, ResetCutoff, RaiseCutoff, Return, Go
  <2> QED  BY <2>1, StayStep
<1>13. ASSUME NEW p \in Procs, FlushStderrFirst(p) \/ FlushNext(p) \/ FlushDone(p)
       PROVE  Service!Next
  <2>1. /\ UNCHANGED <<s_callbacks, closes, out, cur>>
        /\ \A q \in Procs \ {p} : pc'[q] = pc[q]
        /\ pc[p] \notin Logging /\ pc'[p] \notin Logging
    BY <1>0, <1>13 DEF TypeOK, FlushStderrFirst, FlushNext, FlushDone, Go
  <2> QED  BY <2>1, StayStep
<1>14. ASSUME Poll \/ SetFlushInterval PROVE Service!Next
  <2>1. /\ UNCHANGED <<s_callbacks, closes, out, cur>>
        /\ \A q \in Procs \ {FlushThread} : pc'[q] = pc[q]
        /\ pc[FlushThread] \notin Logging /\ pc'[FlushThread] \notin Logging
    BY <1>0, <1>14 DEF TypeOK, LocalInv, Poll, SetFlushInterval, Go
  <2> QED  BY <2>1, StayStep
<1>15. CASE UNCHANGED vars
  BY <1>15 DEF Service!svars, vars, Installed, ChangeRunning, Delivered
<1> QED
  BY <1>1, <1>2, <1>3, <1>4, <1>5, <1>6, <1>7, <1>8, <1>9, <1>10, <1>11, <1>12, <1>13,
     <1>14, <1>15 DEF Next, Begin, Step, Finished

(* The core starts as LogService does. *)
LEMMA InitService == Init => Service!Init
<1> SUFFICES ASSUME Init PROVE Service!Init
  OBVIOUS
<1>1. /\ owner = NoOne /\ s_callbacks = <<>>
      /\ \A o \in Outputs : out[o] = <<>>
      /\ \A s \in Sinks : closes[s] = 0
      /\ \A t \in Threads : pc[t] = "idle" /\ cur[t] = NoMessage
  BY DEF Init
<1>2. Installed = {}
  BY <1>1, InstalledIs DEF InTable
<1>3. ~ChangeRunning
  BY <1>1 DEF ChangeRunning, Changing
<1>4. \A o \in Outputs : Delivered(o) = <<>>
  BY <1>1 DEF Delivered
<1> QED  BY <1>1, <1>2, <1>3, <1>4 DEF Service!Init, Service!Outputs

(* Every behaviour of the core is one of LogService: although a message     *)
(* reaches its outputs one at a time and the cutoff is read without the     *)
(* mutex, each message is delivered at once to exactly the outputs attached *)
(* at that moment that want it, or is dropped when no callback wants it or  *)
(* while the callbacks are changing; and a callback that is closed stays so. *)
THEOREM ServiceImplemented == DSpec => AtomicDelivery
<1>1. DInit => Init
  BY DEF DInit
<1>2. [DNext]_dvars => [Next]_vars
  BY DEF DNext, dvars
<1>3. DSpec => Spec
  BY <1>1, <1>2, PTL DEF DSpec, Spec
<1>4. Spec => AtomicDelivery
  BY FactsHold, InitService, NextService, PTL DEF Spec, AtomicDelivery, Service!Spec
<1> QED  BY <1>3, <1>4

-----------------------------------------------------------------------------
(***************************************************************************)
(* What the caller of LOG_F may rely on: a message whose call no change of *)
(* the callbacks disturbs is in every output it was owed to, for any       *)
(* number of threads, callbacks and messages.                              *)
(***************************************************************************)

(* While a call is undisturbed its message is owed to attached outputs that  *)
(* want it, and what it read of s_max_out_verbosity is still so.             *)
OwedInv ==
  \A t \in Threads : cur[t] # NoMessage /\ ~disturbed[t] =>
    /\ ~ChangeRunning
    /\ \A o \in owed[t] : o \in Attached \cup {Stderr} /\ Wants(o, cur[t])
    /\ pc[t] = "reread" => g_stderr_verbosity <= s_max_out_verbosity

(* At the start nothing is being logged. *)
LEMMA InitOwed == DInit => OwedInv
BY DEF DInit, Init, OwedInv

(* The message of a thread changes when its call begins or ends. *)
LEMMA CurChanges ==
  ASSUME CoreFacts, [Next]_vars, NEW t \in Threads
  PROVE  \/ cur'[t] = cur[t]
         \/ cur[t] = NoMessage
         \/ cur'[t] = NoMessage /\ (ReadCutoff(t) \/ RereadCutoff(t) \/ EndLog(t))
<1> USE DEF table, config, delivery, locals
<1>0. TypeOK
  BY DEF CoreFacts
<1>1. ASSUME NEW u \in Threads, Log(u) PROVE cur'[t] = cur[t] \/ cur[t] = NoMessage
  <2>1. cur[u] = NoMessage
    BY <1>1 DEF CoreFacts, DeliveryInv, Log, Call, ToLog, Filtering, Logging
  <2>2. u # t => cur'[t] = cur[t]
    BY <1>0, <1>1 DEF Log, TypeOK
  <2> QED  BY <2>1, <2>2
<1>2. ASSUME NEW p \in Procs, FindNothing(p) PROVE cur'[t] = cur[t] \/ cur[t] = NoMessage
  <2>1. cur[p] = NoMessage
    BY <1>2 DEF CoreFacts, DeliveryInv, FindNothing, ToLog, Filtering, Logging
  <2>2. p # t => cur'[t] = cur[t]
    BY <1>0, <1>2 DEF FindNothing, TypeOK
  <2> QED  BY <2>1, <2>2
<1>3. ASSUME NEW p \in Procs, ReadCutoff(p) \/ RereadCutoff(p) \/ EndLog(p)
      PROVE  cur'[t] = cur[t] \/ (p = t /\ cur'[t] = NoMessage)
  BY <1>0, <1>3 DEF ReadCutoff, RereadCutoff, EndLog, Filtered, TypeOK
<1>4. ASSUME NEW u \in Threads,
             AddCallback(u) \/ RemoveCallback(u) \/ RemoveAllCallbacks(u) \/ Flush(u)
      PROVE  cur'[t] = cur[t]
  BY <1>4 DEF AddCallback, RemoveCallback, RemoveAllCallbacks, Flush
<1>5. ASSUME NEW p \in Procs,
             Acquire(p) \/ WriteStderr(p) \/ FlushStderr(p) \/ CallSink(p) \/ FlushSink(p)
      PROVE  cur'[t] = cur[t]
  BY <1>5 DEF Acquire, WriteStderr, FlushStderr, CallSink, FlushSink
<1>6. ASSUME NEW p \in Procs,
             Push(p) \/ FindAndClose(p) \/ Erase(p) \/ CloseNext(p) \/ ClearAll(p)
      PROVE  cur'[t] = cur[t]
  BY <1>6 DEF Push, FindAndClose, Erase, CloseNext, ClearAll
<1>7. ASSUME NEW p \in Procs,
             ResetCutoff(p) \/ RaiseCutoff(p) \/ Return(p) \/ FlushStderrFirst(p)
             \/ FlushNext(p) \/ FlushDone(p)
      PROVE  cur'[t] = cur[t]
  BY <1>7 DEF ResetCutoff, RaiseCutoff, Return, FlushStderrFirst, FlushNext, FlushDone
<1>8. Poll \/ SetFlushInterval \/ UNCHANGED vars => cur'[t] = cur[t]
  BY DEF Poll, SetFlushInterval, vars
<1> QED
  BY <1>1, <1>2, <1>3, <1>4, <1>5, <1>6, <1>7, <1>8 DEF Next, Begin, Step, Finished

(* How a thread comes to read the cutoff a second time: what it read first  *)
(* holds until a change of the callbacks runs.                              *)
LEMMA SecondRead ==
  ASSUME CoreFacts, [Next]_vars, NEW t \in Threads, pc'[t] = "reread",
         ~ChangeRunning
  PROVE  /\ s_max_out_verbosity' = s_max_out_verbosity
         /\ cur'[t] = cur[t] /\ cur[t] # NoMessage
         /\ \/ pc[t] = "reread"
            \/ g_stderr_verbosity <= s_max_out_verbosity
<1> USE DEF table, config, delivery, locals
<1>0. TypeOK /\ LocalInv
  BY DEF CoreFacts
<1>1. s_max_out_verbosity' = s_max_out_verbosity
  <2>1. \A p \in Procs : ~ResetCutoff(p) /\ ~RaiseCutoff(p)
    BY <1>0 DEF ChangeRunning, LocalInv, Changing, ResetCutoff, RaiseCutoff
  <2>2. ASSUME NEW u \in Threads, Begin(u) PROVE UNCHANGED s_max_out_verbosity
    BY <2>2 DEF Begin, Log, AddCallback, RemoveCallback, RemoveAllCallbacks, Flush, Call
  <2>3. ASSUME NEW p \in Procs,
               ReadCutoff(p) \/ RereadCutoff(p) \/ Acquire(p) \/ WriteStderr(p)
               \/ FlushStderr(p) \/ CallSink(p) \/ FlushSink(p) \/ EndLog(p)
        PROVE  UNCHANGED s_max_out_verbosity
    BY <2>3 DEF ReadCutoff, RereadCutoff, Acquire, WriteStderr, FlushStderr, CallSink,
                FlushSink, EndLog
  <2>4. ASSUME NEW p \in Procs,
               Push(p) \/ FindAndClose(p) \/ FindNothing(p) \/ Erase(p) \/ CloseNext(p)
               \/ ClearAll(p) \/ Return(p)
        PROVE  UNCHANGED s_max_out_verbosity
    BY <2>4 DEF Push, FindAndClose, FindNothing, Erase, CloseNext, ClearAll, Return
  <2>5. ASSUME NEW p \in Procs, FlushStderrFirst(p) \/ FlushNext(p) \/ FlushDone(p)
        PROVE  UNCHANGED s_max_out_verbosity
    BY <2>5 DEF FlushStderrFirst, FlushNext, FlushDone
  <2>6. Poll \/ SetFlushInterval \/ UNCHANGED vars => UNCHANGED s_max_out_verbosity
    BY DEF Poll, SetFlushInterval, vars
  <2> QED  BY <2>1, <2>2, <2>3, <2>4, <2>5, <2>6 DEF Next, Step, Finished
<1>2. pc[t] = "reread" \/ ReadCutoff(t)
  <2>1. ASSUME NEW u \in Threads, Begin(u) PROVE pc'[t] = pc[t]
    BY <1>0, <2>1 DEF Begin, Log, AddCallback, RemoveCallback, RemoveAllCallbacks, Flush,
                      Call, Go, TypeOK
  <2>2. ASSUME NEW p \in Procs, ReadCutoff(p) \/ RereadCutoff(p), p # t PROVE pc'[t] = pc[t]
    BY <1>0, <2>2 DEF ReadCutoff, RereadCutoff, Filtered, Go, TypeOK
  <2>3. ~RereadCutoff(t)
    BY <1>0 DEF RereadCutoff, Filtered, AfterLog, Go, TypeOK
  <2>4. ASSUME NEW p \in Procs, Acquire(p) PROVE pc'[t] = pc[t]
    BY <1>0, <2>4 DEF Acquire, Entry, Waiting, Go, TypeOK
  <2>5. ASSUME NEW p \in Procs,
               WriteStderr(p) \/ FlushStderr(p) \/ CallSink(p) \/ FlushSink(p) \/ EndLog(p)
        PROVE  pc'[t] = pc[t]
    BY <1>0, <2>5 DEF WriteStderr, FlushStderr, CallSink, FlushSink, EndLog, Go, TypeOK
  <2>6. ASSUME NEW p \in Procs,
               Push(p) \/ FindAndClose(p) \/ FindNothing(p) \/ Erase(p) \/ CloseNext(p)
               \/ ClearAll(p)
        PROVE  pc'[t] = pc[t]
    BY <1>0, <2>6 DEF Push, FindAndClose, FindNothing, Erase, CloseNext, ClearAll, Go, TypeOK
  <2>7. ASSUME NEW p \in Procs,
               ResetCutoff(p) \/ RaiseCutoff(p) \/ Return(p)
               \/ FlushStderrFirst(p) \/ FlushNext(p) \/ FlushDone(p)
        PROVE  pc'[t] = pc[t]
    BY <1>0, <2>7 DEF ResetCutoff, RaiseCutoff, Return, FlushStderrFirst, FlushNext,
                      FlushDone, Go, TypeOK
  <2>8. Poll \/ SetFlushInterval \/ UNCHANGED vars => pc'[t] = pc[t]
    BY <1>0 DEF Poll, SetFlushInterval, vars, Go, TypeOK
  <2> QED
    BY <2>1, <2>2, <2>3, <2>4, <2>5, <2>6, <2>7, <2>8 DEF Next, Step, Finished
<1>3. CASE ReadCutoff(t)
  <2>1. /\ ~(g_stderr_verbosity > s_max_out_verbosity) /\ cur' = cur /\ pc[t] = "cutoff"
    BY <1>0, <1>3 DEF ReadCutoff, Filtered, AfterLog, Go, TypeOK
  <2>2. g_stderr_verbosity <= s_max_out_verbosity
    BY <1>0, <2>1 DEF TypeOK
  <2>3. cur[t] # NoMessage
    <3>1. cur[t].by # NoOne
      BY <1>0, <2>1 DEF LocalInv, Filtering, Message
    <3> QED  BY <3>1 DEF NoMessage
  <2> QED  BY <1>1, <2>1, <2>2, <2>3
<1>4. CASE pc[t] = "reread"
  <2>1. cur[t].by # NoOne
    BY <1>0, <1>4 DEF LocalInv, Filtering, Message
  <2>2. cur[t] # NoMessage
    BY <2>1 DEF NoMessage
  <2>3. cur'[t] # NoMessage
    <3>1. cur'[t] = NoMessage => RereadCutoff(t)
      BY <1>4, <2>2, CurChanges DEF ReadCutoff, EndLog
    <3>2. ~RereadCutoff(t)
      BY <1>0 DEF RereadCutoff, Filtered, AfterLog, Go, TypeOK
    <3> QED  BY <3>1, <3>2
  <2> QED  BY <1>1, <1>4, <2>2, <2>3, CurChanges
<1> QED  BY <1>2, <1>3, <1>4

(* An attached callback stays attached until its on_close is called, and a *)
(* step that gives a thread its message attaches and detaches nothing.     *)
LEMMA StaysAttached ==
  ASSUME CoreFacts, CoreFacts', [Next]_vars
  PROVE  /\ \A s \in Attached : closes'[s] = 0 => s \in Attached'
         /\ ~(Begun' \subseteq Begun) => Attached' = Attached
<1>1. [Service!Next]_(Service!svars)
  BY NextService
<1>2. ASSUME NEW m, Service!Begin(m) \/ Service!Deliver(m) \/ Service!Drop(m)
      PROVE  Attached' = Attached
  BY <1>2 DEF Service!Begin, Service!Deliver, Service!Drop, Attached
<1>3. ASSUME NEW r \in Sinks, Service!Attach(r) \/ Service!Detach(r)
      PROVE  /\ Begun' = Begun
             /\ \A s \in Attached : closes'[s] = 0 => s \in Attached'
  <2>1. CASE Service!Attach(r)
    BY <2>1 DEF Service!Attach, Attached, Begun
  <2>2. CASE Service!Detach(r)
    <3>1. Attached' = Attached \ {r} /\ r \in Detached' /\ Begun' = Begun
      BY <2>2 DEF Service!Detach, Attached, Detached, Begun
    <3>2. closes'[r] # 0
      BY <3>1 DEF Detached
    <3> QED  BY <3>1, <3>2
  <2> QED  BY <1>3, <2>1, <2>2
<1>4. Service!Change \/ UNCHANGED Service!svars => Attached' = Attached
  BY DEF Service!Change, Service!svars, Attached
<1> QED  BY <1>1, <1>2, <1>3, <1>4 DEF Service!Next

(* What the history variables record of a step. *)
LEMMA Recorded ==
  ASSUME Observe, NEW t \in Threads
  PROVE  /\ ~disturbed'[t] => /\ ~ChangeRunning /\ ~ChangeRunning'
                              /\ (Starts(t) \/ ~disturbed[t])
         /\ owed'[t] = IF Starts(t) THEN {o \in Open : Wants(o, cur'[t])}
                       ELSE {o \in owed[t] : o = Stderr \/ closes'[o] = 0}
<1>1. ~disturbed'[t] => /\ ~ChangeRunning /\ ~ChangeRunning'
                        /\ (Starts(t) \/ ~disturbed[t])
  BY Zenon DEF Observe
<1>2. owed'[t] = IF Starts(t) THEN {o \in Open : Wants(o, cur'[t])}
                 ELSE {o \in owed[t] : o = Stderr \/ closes'[o] = 0}
  BY Zenon DEF Observe
<1> QED  BY <1>1, <1>2

(* What is owed stays within reach. *)
LEMMA NextOwed == CoreFacts /\ CoreFacts' /\ OwedInv /\ [DNext]_dvars => OwedInv'
<1> SUFFICES ASSUME CoreFacts, CoreFacts', OwedInv, [DNext]_dvars PROVE OwedInv'
  OBVIOUS
<1>1. CASE UNCHANGED dvars
  BY <1>1 DEF dvars, vars, OwedInv, ChangeRunning, Attached, Installed, table, config, locals
<1>2. CASE DNext
  <2>0. Observe /\ [Next]_vars
    BY <1>2 DEF DNext
  <2>1. SUFFICES ASSUME NEW t \in Threads, cur'[t] # NoMessage, ~disturbed'[t]
        PROVE  /\ ~ChangeRunning'
               /\ \A o \in owed'[t] : o \in Attached' \cup {Stderr} /\ Wants(o, cur'[t])
               /\ pc'[t] = "reread" => g_stderr_verbosity <= s_max_out_verbosity'
    BY DEF OwedInv, Wants
  <2>2. ~ChangeRunning /\ ~ChangeRunning' /\ (Starts(t) \/ ~disturbed[t])
    BY <2>0, <2>1, Recorded, Zenon
  <2>3. CASE Starts(t)
    <3>1. cur[t] = NoMessage /\ owed'[t] = {o \in Open : Wants(o, cur'[t])}
      BY <2>0, <2>3, Recorded DEF Starts
    <3>2. Open \subseteq Attached \cup {Stderr}
      BY DEF Open, Added, Attached
    <3>3. cur'[t] \in Begun' /\ cur'[t] \notin Begun
      <4>1. cur'[t].by = t /\ \A u \in Threads : cur[u] # NoMessage => cur[u].by = u
        BY <2>1 DEF CoreFacts, DeliveryInv, OrderInv, Named
      <4> QED  BY <2>1, <3>1, <4>1 DEF Begun
    <3>4. Attached' = Attached
      BY <2>0, <3>3, StaysAttached
    <3>5. pc'[t] # "reread"
      BY <2>0, <2>2, <3>1, SecondRead
    <3> QED  BY <2>2, <3>1, <3>2, <3>4, <3>5
  <2>4. CASE ~Starts(t)
    <3>1. cur'[t] = cur[t] /\ cur[t] # NoMessage /\ ~disturbed[t]
      BY <2>0, <2>1, <2>2, <2>4, CurChanges DEF Starts
    <3>2. owed'[t] = {o \in owed[t] : o = Stderr \/ closes'[o] = 0}
      BY <2>0, <2>4, Recorded
    <3>3. /\ \A o \in owed[t] : o \in Attached \cup {Stderr} /\ Wants(o, cur[t])
          /\ pc[t] = "reread" => g_stderr_verbosity <= s_max_out_verbosity
      BY <3>1 DEF OwedInv
    <3>4. \A s \in Attached : closes'[s] = 0 => s \in Attached'
      BY <2>0, StaysAttached
    <3>5. pc'[t] = "reread" => g_stderr_verbosity <= s_max_out_verbosity'
      BY <2>0, <2>2, <3>3, SecondRead
    <3>6. \A o \in owed'[t] : o \in Attached' \cup {Stderr} /\ Wants(o, cur'[t])
      BY <3>1, <3>2, <3>3, <3>4
    <3> QED  BY <2>2, <3>5, <3>6
  <2> QED  BY <2>3, <2>4
<1> QED  BY <1>1, <1>2

(* A call that no change of the callbacks disturbed ends with its message in *)
(* every output it was owed to.                                              *)
LEMMA EndsDelivered ==
  ASSUME CoreFacts, OwedInv, [Next]_vars, NEW t \in Threads, Ends(t), ~disturbed[t],
         NEW o \in owed[t]
  PROVE  Received(o, cur[t])
<1> USE DEF table, config, delivery, locals
<1>0. TypeOK /\ LockInv /\ LocalInv /\ LifeInv /\ DeliveryInv
  BY DEF CoreFacts
<1>1. PICK m : m = cur[t]
  OBVIOUS
<1>2. /\ ~ChangeRunning /\ m # NoMessage /\ cur'[t] = NoMessage
      /\ o \in Attached \cup {Stderr} /\ Wants(o, m)
      /\ pc[t] = "reread" => g_stderr_verbosity <= s_max_out_verbosity
  BY <1>1 DEF Ends, OwedInv
<1>3. m \in Message
  BY <1>0, <1>1, <1>2 DEF TypeOK
<1>4. o \in Attached => o \in Sinks /\ InTable(o) /\ o # Stderr
  BY <1>0, InstalledIs DEF TypeOK, Attached
<1>5. /\ m.verbosity \in Int /\ s_max_out_verbosity \in Int
      /\ \A s \in Sinks : VerbosityOf[s] \in Int
  BY <1>0, <1>3, VerbosityType DEF TypeOK
<1>6. m.verbosity <= (IF o = Stderr THEN g_stderr_verbosity ELSE s_max_out_verbosity)
  <2>1. \A p \in Procs : pc[p] \notin Changing
    BY <1>0, <1>2 DEF ChangeRunning, LocalInv, Changing
  <2>2. IsCutoff(s_max_out_verbosity, Len(s_callbacks))
    BY <2>1 DEF CoreFacts, CutoffInv
  <2>3. CASE o = Stderr
    BY <1>2, <2>3 DEF Wants
  <2>4. CASE o \in Attached
    <3>1. m.verbosity <= VerbosityOf[o] /\ VerbosityOf[o] <= s_max_out_verbosity
      BY <1>2, <1>4, <2>2, <2>4 DEF Wants, IsCutoff, InTable
    <3> QED  BY <1>4, <1>5, <2>4, <3>1
  <2> QED  BY <1>2, <2>3, <2>4
<1>7. ~ReadCutoff(t)
  <2> SUFFICES ASSUME ReadCutoff(t) PROVE FALSE
    OBVIOUS
  <2>1. g_stderr_verbosity > s_max_out_verbosity /\ ~(m.verbosity <= g_stderr_verbosity)
    BY <1>1, <1>2 DEF ReadCutoff, Filtered
  <2> QED  BY <1>5, <1>6, <2>1
<1>8. ~RereadCutoff(t)
  <2> SUFFICES ASSUME RereadCutoff(t) PROVE FALSE
    OBVIOUS
  <2>1. pc[t] = "reread" /\ ~(m.verbosity <= s_max_out_verbosity)
    BY <1>1, <1>2 DEF RereadCutoff, Filtered
  <2> QED  BY <1>2, <1>5, <1>6, <2>1
<1>9. EndLog(t)
  BY <1>1, <1>2, <1>7, <1>8, CurChanges
<1>10. Reached(t, o)
  <2>1. /\ pc[t] = "sinks" /\ s_callbacks \in Seq(Sinks)
        /\ idx[t] > Len(s_callbacks) /\ idx[t] \in Nat
    BY <1>0, <1>9 DEF EndLog, InLoop, TypeOK
  <2> QED  BY <1>2, <1>4, <2>1 DEF Reached, InTable
<1>11. Got(o, m) /\ out[o] \in Seq(Message)
  BY <1>0, <1>1, <1>2, <1>4, <1>9, <1>10 DEF DeliveryInv, EndLog, Logging, TypeOK
<1> QED  BY <1>1, <1>11 DEF Got, Received, Range

(* When LOG_F returns, the message is in every output that wanted it when   *)
(* the call began and that is still installed, unless a callback was added  *)
(* or removed meanwhile.                                                    *)
THEOREM DeliveredIfUndisturbedCorrect == DSpec => DeliveredIfUndisturbed
<1>1. DSpec => Spec
  <2>1. DInit => Init
    BY DEF DInit
  <2>2. [DNext]_dvars => [Next]_vars
    BY DEF DNext, dvars
  <2> QED  BY <2>1, <2>2, PTL DEF DSpec, Spec
<1>2. DSpec => []OwedInv
  BY <1>1, FactsHold, InitOwed, NextOwed, PTL DEF DSpec
<1>3. CoreFacts /\ OwedInv /\ [DNext]_dvars =>
        [\A t \in Threads : Ends(t) /\ ~disturbed[t] =>
           \A o \in owed[t] : Received(o, cur[t])]_dvars
  <2>1. [DNext]_dvars => [Next]_vars
    BY DEF DNext, dvars
  <2> QED  BY <2>1, EndsDelivered
<1> QED  BY <1>1, <1>2, <1>3, FactsHold, PTL DEF DSpec, DeliveredIfUndisturbed

=============================================================================
