---------------------------- MODULE LogFileProofs ---------------------------
(***************************************************************************)
(* add_file publishes its callback and then prints the header with the     *)
(* FILE* it has: that the header is whole and durable all the same, and    *)
(* that no stream is lost, for any number of threads, files and messages.  *)
(***************************************************************************)
EXTENDS LogFile, SequenceTheorems, TLAPS

Texts  == Range(Lines) \cup {"gap", "message"}
Entry  == [text : Texts, by : Threads]
MaybePath == Paths \cup {Nothing}
Stream == {f \in [path : MaybePath, mode : Modes, printed : Seq(Entry), flushed : Nat,
                  open : BOOLEAN, by : Threads, ready : BOOLEAN] :
             f.flushed <= Len(f.printed)}
Early  == {"idle", "directories", "open"}
Late   == {"publish", "header", "flush", "announce"}
Call   == [at : Early \cup Late, path : MaybePath, mode : Modes,
           stream : Nat \cup {Nothing}, line : Nat]

LTypeOK ==
  /\ streams \in Seq(Stream) /\ s_callbacks \in Seq(Nat)
  /\ adding \in [Threads -> Call] /\ messages \in Nat

(***************************************************************************)
(* A stream that is not ready belongs to the add_file of its thread, which *)
(* has the FILE* from fopen on and the callback from add_callback on.      *)
(***************************************************************************)
NoFile(a)  == a.stream = Nothing /\ a.line = 1
HasFile(t, a) ==
  /\ a.stream \in 1..Len(streams)
  /\ File(a.stream).by = t /\ File(a.stream).mode = a.mode
  /\ ~File(a.stream).ready /\ File(a.stream).open
  /\ a.at = "publish" <=> a.stream \notin Range(s_callbacks)
  /\ a.at = "publish" => a.line = 1
  /\ a.at = "header" => a.line \in 1..Len(Header(a.mode))
  /\ a.at \in {"flush", "announce"} => a.line = Len(Header(a.mode)) + 1
Adders == \A t \in Threads : IF adding[t].at \in Early THEN NoFile(adding[t])
                                                       ELSE HasFile(t, adding[t])
Unready(s) == ~File(s).ready => adding[File(s).by].stream = s
Once == \A j, k \in 1..Len(s_callbacks) :
          /\ s_callbacks[j] \in 1..Len(streams)
          /\ s_callbacks[j] = s_callbacks[k] => j = k
Kept(s) == IF File(s).open
           THEN s \in Range(s_callbacks) \/ BeingAdded(s)
           ELSE s \notin Range(s_callbacks) /\ File(s).flushed = Len(File(s).printed)

StreamInv == Adders /\ Once /\ \A s \in 1..Len(streams) : Unready(s) /\ Kept(s)

(* What of the header is in a file, and which messages are not before it. *)
Done(f)    == IF f.ready THEN Len(Header(f.mode)) ELSE adding[f.by].line - 1
Durable(f) == \A n \in HeaderEntries(f) : n <= f.flushed
Own(f, e)  == e = [text |-> "message", by |-> f.by]
After(f)   == \A n \in 1..Len(f.printed) :
                Own(f, f.printed[n]) => \A k \in HeaderEntries(f) : k < n
Silent(f)  == \A n \in 1..Len(f.printed) : ~Own(f, f.printed[n])
HeaderOf(f) ==
  /\ Begun(f, Done(f))
  /\ f.ready \/ adding[f.by].at = "announce" => Durable(f)
  /\ IF f.ready THEN After(f) ELSE Silent(f)

HeaderInv == \A s \in 1..Len(streams) : HeaderOf(File(s))

FileInv == LTypeOK /\ StreamInv /\ HeaderInv

(***************************************************************************)
(* What a step adds to a file: nothing, or messages of the threads in T at *)
(* the end, and more of it may be durable.                                 *)
(***************************************************************************)
Adds(T, f, g) ==
  /\ g \in Stream /\ g.mode = f.mode /\ g.by = f.by
  /\ f.flushed <= g.flushed
  /\ Len(f.printed) <= Len(g.printed)
  /\ \A n \in 1..Len(f.printed) : g.printed[n] = f.printed[n]
  /\ \A n \in Len(f.printed) + 1..Len(g.printed) :
       g.printed[n] \in [text : {"message"}, by : T]

Logged(T, fs, gs) ==
  /\ gs \in Seq(Stream) /\ Len(gs) = Len(fs)
  /\ \A s \in 1..Len(fs) :
       /\ Adds(T, fs[s], gs[s])
       /\ gs[s].ready = fs[s].ready /\ gs[s].open = fs[s].open
       /\ s \notin Range(s_callbacks) => gs[s] = fs[s]

(* fprintf. *)
LEMMA PrintedIs ==
  ASSUME NEW f \in Stream, NEW e \in Entry
  PROVE  /\ Printed(f, e) \in Stream
         /\ Printed(f, e).printed = Append(f.printed, e)
         /\ Printed(f, e).flushed = f.flushed
         /\ \A field \in {"path", "mode", "open", "by", "ready"} :
              Printed(f, e)[field] = f[field]
<1>1. Append(f.printed, e) \in Seq(Entry) /\ Len(Append(f.printed, e)) = Len(f.printed) + 1
  BY DEF Stream
<1> QED  BY <1>1 DEF Printed, Stream

(* fflush. *)
LEMMA FlushedIs ==
  ASSUME NEW f \in Stream
  PROVE  /\ Flushed(f) \in Stream
         /\ Flushed(f).printed = f.printed
         /\ Flushed(f).flushed = Len(f.printed)
         /\ \A field \in {"path", "mode", "open", "by", "ready"} :
              Flushed(f)[field] = f[field]
<1>1. Len(f.printed) \in Nat
  BY DEF Stream
<1> QED  BY <1>1 DEF Flushed, Stream

(* fclose. *)
LEMMA ClosedIs ==
  ASSUME NEW f \in Stream
  PROVE  /\ Closed(f) \in Stream
         /\ Closed(f).printed = f.printed
         /\ Closed(f).flushed = Len(f.printed)
         /\ ~Closed(f).open
         /\ \A field \in {"path", "mode", "by", "ready"} :
              Closed(f)[field] = f[field]
<1>1. Flushed(f) \in Stream /\ Closed(f) = [Flushed(f) EXCEPT !.open = FALSE]
  BY FlushedIs DEF Closed
<1>2. /\ Closed(f) \in Stream /\ ~Closed(f).open
      /\ \A field \in {"path", "mode", "by", "ready", "printed", "flushed"} :
           Closed(f)[field] = Flushed(f)[field]
  <2> DEFINE g == Flushed(f)
  <2>1. g \in Stream /\ Closed(f) = [g EXCEPT !.open = FALSE]
    BY <1>1
  <2> HIDE DEF g
  <2>2. /\ Closed(f) \in Stream /\ ~Closed(f).open
        /\ \A field \in {"path", "mode", "by", "ready", "printed", "flushed"} :
             Closed(f)[field] = g[field]
    BY <2>1 DEF Stream
  <2> QED  BY <2>2 DEF g
<1> QED  BY <1>2, FlushedIs

(* fflush and fclose print nothing. *)
LEMMA AddsNothing ==
  ASSUME NEW f \in Stream, NEW T \in SUBSET Threads
  PROVE  Adds(T, f, f) /\ Adds(T, f, Flushed(f)) /\ Adds(T, f, Closed(f))
<1>1. f.flushed \in Nat /\ f.flushed <= Len(f.printed) /\ Len(f.printed) \in Nat
  BY DEF Stream
<1>2. Adds(T, f, f)
  BY <1>1 DEF Adds
<1>3. Adds(T, f, Flushed(f))
  BY <1>1, FlushedIs DEF Adds
<1>4. Adds(T, f, Closed(f))
  BY <1>1, ClosedIs DEF Adds
<1> QED  BY <1>2, <1>3, <1>4

(* Messages after messages. *)
LEMMA AddsMore ==
  ASSUME NEW f \in Stream, NEW g \in Stream, NEW h \in Stream, NEW T \in SUBSET Threads,
         Adds(T, f, g), Adds(T, g, h)
  PROVE  Adds(T, f, h)
<1>1. /\ f.flushed \in Nat /\ g.flushed \in Nat /\ h.flushed \in Nat
      /\ Len(f.printed) \in Nat /\ Len(g.printed) \in Nat /\ Len(h.printed) \in Nat
  BY DEF Stream
<1>2. /\ f.flushed <= h.flushed /\ Len(f.printed) <= Len(h.printed)
      /\ h.mode = f.mode /\ h.by = f.by
  BY <1>1 DEF Adds
<1>3. ASSUME NEW n \in 1..Len(f.printed) PROVE h.printed[n] = f.printed[n]
  BY <1>1 DEF Adds
<1>4. ASSUME NEW n \in Len(f.printed) + 1..Len(h.printed)
      PROVE  h.printed[n] \in [text : {"message"}, by : T]
  <2>1. CASE n <= Len(g.printed)
    <3>1. n \in 1..Len(g.printed) /\ n \in Len(f.printed) + 1..Len(g.printed)
      BY <1>1, <2>1
    <3> QED  BY <3>1 DEF Adds
  <2>2. CASE n > Len(g.printed)
    <3>1. n \in Len(g.printed) + 1..Len(h.printed)
      BY <1>1, <2>2
    <3> QED  BY <3>1 DEF Adds
  <2> QED  BY <1>1, <2>1, <2>2
<1> QED  BY <1>2, <1>3, <1>4 DEF Adds

(* file_log for one message. *)
LEMMA FileLogAdds ==
  ASSUME NEW f \in Stream, NEW t \in Threads
  PROVE  /\ Adds({t}, f, FileLog(t, f)) /\ FileLog(t, f) \in Stream
         /\ FileLog(t, f).open = f.open /\ FileLog(t, f).ready = f.ready
<1> DEFINE e == [text |-> "message", by |-> t]
           g == Printed(f, e)
<1>1. e \in Entry
  BY DEF Entry, Texts
<1>2. /\ g \in Stream /\ g.printed = Append(f.printed, e) /\ g.flushed = f.flushed
      /\ g.mode = f.mode /\ g.by = f.by /\ g.open = f.open /\ g.ready = f.ready
  BY <1>1, PrintedIs
<1>3. f.flushed \in Nat /\ f.printed \in Seq(Entry) /\ Len(f.printed) \in Nat
  BY DEF Stream
<1>4. /\ Len(g.printed) = Len(f.printed) + 1 /\ g.printed[Len(f.printed) + 1] = e
      /\ \A n \in 1..Len(f.printed) : g.printed[n] = f.printed[n]
  <2> HIDE DEF e
  <2> QED  BY <1>1, <1>2, <1>3
<1>5. e \in [text : {"message"}, by : {t}]
  OBVIOUS
<1>6. Adds({t}, f, g)
  <2> HIDE DEF e, g
  <2>1. \A n \in Len(f.printed) + 1..Len(g.printed) : g.printed[n] = e
    BY <1>3, <1>4
  <2> QED  BY <1>2, <1>3, <1>4, <1>5, <2>1 DEF Adds
<1>7. CASE Buffered
  BY <1>2, <1>6, <1>7 DEF FileLog
<1>8. CASE ~Buffered
  <2>1. FileLog(t, f) = Flushed(g)
    BY <1>8 DEF FileLog
  <2>2. Adds({t}, g, Flushed(g)) /\ Flushed(g) \in Stream
        /\ Flushed(g).open = g.open /\ Flushed(g).ready = g.ready
    <3> HIDE DEF g
    <3> QED  BY <1>2, AddsNothing, FlushedIs
  <2>3. Adds({t}, f, Flushed(g))
    <3> HIDE DEF g
    <3> QED  BY <1>2, <1>6, <2>2, AddsMore
  <2> QED  BY <1>2, <2>1, <2>2, <2>3
<1> QED  BY <1>7, <1>8

(* A message in every callback's file. *)
LEMMA LogOfLogs ==
  ASSUME NEW fs \in Seq(Stream), NEW t \in Threads
  PROVE  Logged({t}, fs, LogOf(t, fs))
<1> DEFINE gs == LogOf(t, fs)
<1>1. DOMAIN fs = 1..Len(fs) /\ Len(fs) \in Nat /\ \A s \in 1..Len(fs) : fs[s] \in Stream
  OBVIOUS
<1>2. gs = [s \in 1..Len(fs) |->
              IF s \in Range(s_callbacks) THEN FileLog(t, fs[s]) ELSE fs[s]]
  BY <1>1 DEF LogOf
<1>3. ASSUME NEW s \in 1..Len(fs)
      PROVE  /\ gs[s] \in Stream /\ Adds({t}, fs[s], gs[s])
             /\ gs[s].ready = fs[s].ready /\ gs[s].open = fs[s].open
             /\ s \notin Range(s_callbacks) => gs[s] = fs[s]
  <2>1. fs[s] \in Stream /\ gs[s] = IF s \in Range(s_callbacks) THEN FileLog(t, fs[s]) ELSE fs[s]
    BY <1>1, <1>2
  <2> HIDE DEF gs
  <2> QED  BY <2>1, FileLogAdds, AddsNothing
<1>4. gs \in Seq(Stream) /\ Len(gs) = Len(fs)
  <2>1. gs \in [1..Len(fs) -> Stream]
    BY <1>2, <1>3
  <2> HIDE DEF gs
  <2> QED  BY <1>1, <2>1
<1> QED  BY <1>3, <1>4 DEF Logged

(* Two of them. *)
LEMMA LoggedTwice ==
  ASSUME NEW fs \in Seq(Stream), NEW gs, NEW hs, NEW t \in Threads,
         Logged({t}, fs, gs), Logged({t}, gs, hs)
  PROVE  Logged({t}, fs, hs)
<1>1. /\ gs \in Seq(Stream) /\ hs \in Seq(Stream)
      /\ Len(gs) = Len(fs) /\ Len(hs) = Len(fs)
  BY DEF Logged
<1>2. ASSUME NEW s \in 1..Len(fs)
      PROVE  /\ Adds({t}, fs[s], hs[s])
             /\ hs[s].ready = fs[s].ready /\ hs[s].open = fs[s].open
             /\ s \notin Range(s_callbacks) => hs[s] = fs[s]
  <2>1. fs[s] \in Stream /\ gs[s] \in Stream /\ hs[s] \in Stream
    BY <1>1
  <2>2. Adds({t}, fs[s], gs[s]) /\ Adds({t}, gs[s], hs[s])
    BY <1>1 DEF Logged
  <2>3. Adds({t}, fs[s], hs[s])
    BY <2>1, <2>2, AddsMore
  <2> QED  BY <1>1, <2>3 DEF Logged
<1> QED  BY <1>1, <1>2 DEF Logged

(* Messages at the end of a file leave the header in it as it is. *)
LEMMA AddsKeeps ==
  ASSUME NEW f \in Stream, NEW g, NEW T \in SUBSET Threads, Adds(T, f, g)
  PROVE  /\ HeaderEntries(g) = HeaderEntries(f)
         /\ \A k \in Nat : Begun(f, k) => Begun(g, k)
         /\ Durable(f) => Durable(g)
         /\ After(f) => After(g)
         /\ f.by \notin T /\ Silent(f) => Silent(g)
<1>1. /\ f.flushed \in Nat /\ f.printed \in Seq(Entry) /\ Len(f.printed) \in Nat
      /\ g \in Stream /\ g.mode = f.mode /\ g.by = f.by
      /\ g.flushed \in Nat /\ g.printed \in Seq(Entry) /\ Len(g.printed) \in Nat
      /\ f.flushed <= g.flushed /\ Len(f.printed) <= Len(g.printed)
  BY DEF Stream, Adds
<1>2. /\ \A n \in 1..Len(f.printed) : g.printed[n] = f.printed[n]
      /\ \A n \in Len(f.printed) + 1..Len(g.printed) :
           g.printed[n].text = "message" /\ g.printed[n].by \in T
  BY DEF Adds
<1>3. HeaderEntries(g) = HeaderEntries(f)
  <2>1. ASSUME NEW n \in HeaderEntries(g) PROVE n \in HeaderEntries(f)
    <3>1. n \in 1..Len(g.printed) /\ g.printed[n].text # "message"
      BY <1>1 DEF HeaderEntries
    <3>2. n \in 1..Len(f.printed)
      BY <1>1, <1>2, <3>1
    <3> QED  BY <1>1, <1>2, <3>1, <3>2 DEF HeaderEntries
  <2>2. ASSUME NEW n \in HeaderEntries(f) PROVE n \in HeaderEntries(g)
    <3>1. n \in 1..Len(f.printed) /\ f.printed[n].text # "message"
      BY <1>1 DEF HeaderEntries
    <3> QED  BY <1>1, <1>2, <3>1 DEF HeaderEntries
  <2> QED  BY <2>1, <2>2
<1>4. HeaderEntries(f) \subseteq 1..Len(f.printed)
  BY <1>1 DEF HeaderEntries
<1>5. ASSUME NEW k \in Nat, Begun(f, k) PROVE Begun(g, k)
  <2>1. PICK place \in [1..k -> HeaderEntries(f)] :
          /\ Range(place) = HeaderEntries(f)
          /\ \A i, j \in 1..k : i < j => place[i] < place[j]
          /\ \A i \in 1..k : f.printed[place[i]].text = Header(f.mode)[i]
    BY <1>5 DEF Begun
  <2>2. \A i \in 1..k : g.printed[place[i]].text = Header(g.mode)[i]
    BY <1>1, <1>2, <1>4, <2>1
  <2> QED  BY <1>3, <2>1, <2>2 DEF Begun
<1>6. ASSUME Durable(f) PROVE Durable(g)
  BY <1>1, <1>3, <1>4, <1>6 DEF Durable
<1>7. ASSUME After(f) PROVE After(g)
  <2> SUFFICES ASSUME NEW n \in 1..Len(g.printed), Own(g, g.printed[n]),
                      NEW k \in HeaderEntries(f)
               PROVE  k < n
    BY <1>3 DEF After
  <2>1. CASE n <= Len(f.printed)
    <3>1. n \in 1..Len(f.printed) /\ Own(f, f.printed[n])
      BY <1>1, <1>2, <2>1 DEF Own
    <3> QED  BY <1>7, <3>1 DEF After
  <2>2. CASE n > Len(f.printed)
    BY <1>1, <1>4, <2>2
  <2> QED  BY <1>1, <2>1, <2>2
<1>8. ASSUME f.by \notin T, Silent(f) PROVE Silent(g)
  <2> SUFFICES ASSUME NEW n \in 1..Len(g.printed), Own(g, g.printed[n]) PROVE FALSE
    BY DEF Silent
  <2>1. CASE n <= Len(f.printed)
    <3>1. n \in 1..Len(f.printed) /\ Own(f, f.printed[n])
      BY <1>1, <1>2, <2>1 DEF Own
    <3> QED  BY <1>8, <3>1 DEF Silent
  <2>2. CASE n > Len(f.printed)
    <3>1. n \in Len(f.printed) + 1..Len(g.printed) /\ g.printed[n].by = f.by
      BY <1>1, <2>2 DEF Own
    <3> QED  BY <1>2, <1>8, <3>1
  <2> QED  BY <1>1, <2>1, <2>2
<1> QED  BY <1>3, <1>5, <1>6, <1>7, <1>8

(* Erasing from a list ... *)
LEMMA RemoveAtType ==
  ASSUME NEW S, NEW seq \in Seq(S), NEW k \in 1..Len(seq)
  PROVE  /\ RemoveAt(seq, k) \in Seq(S)
         /\ Len(RemoveAt(seq, k)) = Len(seq) - 1
         /\ \A j \in 1..(Len(seq) - 1) :
              RemoveAt(seq, k)[j] = IF j < k THEN seq[j] ELSE seq[j + 1]
<1> DEFINE front == SubSeq(seq, 1, k - 1)
           back  == SubSeq(seq, k + 1, Len(seq))
<1>1. /\ front \in Seq(S) /\ Len(front) = k - 1
      /\ \A j \in 1..(k - 1) : front[j] = seq[j]
  OBVIOUS
<1>2. /\ back \in Seq(S) /\ Len(back) = Len(seq) - k
      /\ \A j \in 1..(Len(seq) - k) : back[j] = seq[k + j]
  OBVIOUS
<1>3. RemoveAt(seq, k) = front \o back
  BY DEF RemoveAt
<1> HIDE DEF front, back
<1>4. /\ front \o back \in Seq(S)
      /\ Len(front \o back) = Len(front) + Len(back)
      /\ \A j \in 1..(Len(front) + Len(back)) :
           (front \o back)[j] = IF j <= Len(front) THEN front[j]
                                ELSE back[j - Len(front)]
  <2>1. front \in Seq(S) /\ back \in Seq(S)
    BY <1>1, <1>2
  <2> QED  BY ONLY <2>1, ConcatProperties
<1>5. /\ Len(seq) \in Nat /\ k \in Int
      /\ Len(front) + Len(back) = Len(seq) - 1
  BY <1>1, <1>2
<1>6. ASSUME NEW j \in 1..(Len(seq) - 1)
      PROVE  RemoveAt(seq, k)[j] = IF j < k THEN seq[j] ELSE seq[j + 1]
  <2>1. (front \o back)[j] = IF j <= k - 1 THEN front[j] ELSE back[j - (k - 1)]
    BY <1>1, <1>4, <1>5
  <2>2. CASE j < k
    BY <1>1, <1>3, <1>5, <2>1, <2>2
  <2>3. CASE ~(j < k)
    <3>1. j - (k - 1) \in 1..(Len(seq) - k)
      BY <1>5, <2>3
    <3>2. k + (j - (k - 1)) = j + 1
      BY <1>5
    <3> QED  BY <1>2, <1>3, <1>5, <2>1, <2>3, <3>1, <3>2
  <2> QED  BY <2>2, <2>3
<1> QED  BY <1>3, <1>4, <1>5, <1>6

(* ... without repetitions. *)
LEMMA RemoveAtOnce ==
  ASSUME NEW q \in Seq(Nat), NEW k \in 1..Len(q),
         \A i, j \in 1..Len(q) : q[i] = q[j] => i = j
  PROVE  /\ RemoveAt(q, k) \in Seq(Nat)
         /\ Range(RemoveAt(q, k)) = Range(q) \ {q[k]}
         /\ \A i, j \in 1..Len(RemoveAt(q, k)) : RemoveAt(q, k)[i] = RemoveAt(q, k)[j] => i = j
<1>1. /\ DOMAIN q = 1..Len(q) /\ Len(q) \in Nat /\ \A i \in 1..Len(q) : q[i] \in Nat
      /\ k \in Nat
  OBVIOUS
<1>2. PICK r : r = RemoveAt(q, k)
  OBVIOUS
<1>3. /\ r \in Seq(Nat) /\ Len(r) = Len(q) - 1 /\ DOMAIN r = 1..Len(r)
      /\ \A i \in 1..Len(r) : r[i] = IF i < k THEN q[i] ELSE q[i + 1]
  <2>1. /\ r \in Seq(Nat) /\ Len(r) = Len(q) - 1
        /\ \A i \in 1..(Len(q) - 1) : r[i] = IF i < k THEN q[i] ELSE q[i + 1]
    BY <1>2, RemoveAtType
  <2> QED  BY <2>1
<1>4. PICK From : From = [i \in 1..Len(r) |-> IF i < k THEN i ELSE i + 1]
  OBVIOUS
<1>5. \A i \in 1..Len(r) :
        /\ From[i] \in 1..Len(q) /\ From[i] # k /\ r[i] = q[From[i]]
        /\ i < k => From[i] = i
        /\ i >= k => From[i] = i + 1
  BY <1>1, <1>3, <1>4, SMTT(40)
<1>6. Range(r) = Range(q) \ {q[k]}
  <2>1. \A i \in 1..Len(r) : r[i] \in Range(q) /\ r[i] # q[k]
    <3>1. \A i \in 1..Len(r) : q[From[i]] \in Range(q)
      BY <1>1, <1>5 DEF Range
    <3> QED  BY <1>5, <3>1
  <2>2. ASSUME NEW j \in 1..Len(q), j # k PROVE \E i \in 1..Len(r) : r[i] = q[j]
    <3>1. CASE j < k
      <4>1. j \in 1..Len(r)
        BY <1>1, <1>3, <3>1
      <4> QED  BY <1>3, <3>1, <4>1
    <3>2. CASE j > k
      <4>1. j - 1 \in 1..Len(r) /\ ~(j - 1 < k) /\ (j - 1) + 1 = j
        BY <1>1, <1>3, <3>2
      <4>2. r[j - 1] = q[j]
        BY <1>3, <4>1
      <4> QED  BY <4>1, <4>2
    <3> QED  BY <1>1, <2>2, <3>1, <3>2
  <2>3. \A x \in Range(r) : x \in Range(q) /\ x # q[k]
    BY <1>3, <2>1, SMTT(40) DEF Range
  <2>4. \A x \in Range(q) \ {q[k]} : x \in Range(r)
    <3> SUFFICES ASSUME NEW j \in 1..Len(q), q[j] # q[k] PROVE q[j] \in Range(r)
      BY <1>1 DEF Range
    <3>1. PICK i \in 1..Len(r) : r[i] = q[j]
      BY <2>2
    <3> QED  BY <1>3, <3>1 DEF Range
  <2> QED  BY <2>3, <2>4
<1>7. ASSUME NEW i \in 1..Len(r), NEW j \in 1..Len(r), r[i] = r[j] PROVE i = j
  <2>1. q[From[i]] = q[From[j]] /\ From[i] \in 1..Len(q) /\ From[j] \in 1..Len(q)
    BY <1>5, <1>7
  <2>2. From[i] = From[j]
    BY <2>1
  <2>3. /\ (i < k /\ From[i] = i) \/ (i >= k /\ From[i] = i + 1)
        /\ (j < k /\ From[j] = j) \/ (j >= k /\ From[j] = j + 1)
        /\ i \in Int /\ j \in Int /\ k \in Int
    <3>1. i \in Int /\ j \in Int /\ k \in Int
      BY <1>1, <1>3
    <3>2. (i < k \/ i >= k) /\ (j < k \/ j >= k)
      BY <3>1
    <3>3. /\ i < k => From[i] = i
          /\ i >= k => From[i] = i + 1
          /\ j < k => From[j] = j
          /\ j >= k => From[j] = j + 1
      BY <1>5
    <3> QED  BY <3>1, <3>2, <3>3
  <2> QED  BY <2>2, <2>3
<1> QED  BY <1>2, <1>3, <1>6, <1>7

-----------------------------------------------------------------------------
USE LogFileAssumption

(* A header has a line, and none of it is a message. *)
LEMMA HeaderType ==
  ASSUME NEW m \in Modes
  PROVE  /\ Header(m) \in Seq(Texts) /\ Len(Header(m)) \in Nat \ {0}
         /\ \A i \in 1..Len(Header(m)) : Header(m)[i] # "message"
<1> DEFINE front == IF m = "a" THEN <<"gap">> ELSE <<>>
<1>1. Len(Lines) \in Nat \ {0} /\ Lines \in Seq(Texts) /\ DOMAIN Lines = 1..Len(Lines)
  BY DEF Texts
<1>2. \A i \in 1..Len(Lines) : Lines[i] # "message"
  BY <1>1 DEF Range
<1>3. front \in Seq(Texts) /\ \A i \in 1..Len(front) : front[i] # "message"
  <2>1. CASE m = "a"
    <3>1. front = <<"gap">> /\ "gap" \in Texts
      BY <2>1 DEF Texts
    <3> HIDE DEF front
    <3> QED  BY <3>1
  <2>2. CASE m # "a"
    <3>1. front = <<>>
      BY <2>2
    <3> HIDE DEF front
    <3> QED  BY <3>1
  <2> QED  BY <2>1, <2>2
<1>4. Header(m) = front \o Lines
  BY DEF Header
<1> HIDE DEF front
<1> QED  BY <1>1, <1>2, <1>3, <1>4

(* A call before its fopen has no stream, and one after it has. *)
LEMMA CallIs ==
  ASSUME LTypeOK, Adders, NEW t \in Threads
  PROVE  /\ adding[t] \in Call
         /\ adding[t].at \in Early => adding[t].stream = Nothing /\ adding[t].line = 1
         /\ adding[t].at \in Late => HasFile(t, adding[t])
         /\ \A s \in Nat : adding[t].stream = s => adding[t].at \in Late
  BY DEF LTypeOK, Adders, NoFile, Call, Early, Late

(* Only the add_file of its own thread is at a stream that is not ready. *)
LEMMA UnreadyIs ==
  ASSUME LTypeOK, StreamInv, NEW s \in 1..Len(streams)
  PROVE  /\ File(s) \in Stream /\ File(s).by \in Threads
         /\ ~File(s).ready => /\ adding[File(s).by].stream = s
                              /\ adding[File(s).by].at \in Late
         /\ \A t \in Threads : adding[t].stream = s => ~File(s).ready /\ File(s).by = t
<1>1. File(s) \in Stream
  BY DEF LTypeOK, File
<1>2. File(s).by \in Threads
  BY <1>1 DEF Stream
<1>3. ~File(s).ready => adding[File(s).by].stream = s
  BY DEF StreamInv, Unready
<1>4. s \in Nat
  BY DEF LTypeOK
<1>5. ~File(s).ready => adding[File(s).by].at \in Late
  BY <1>2, <1>3, <1>4, CallIs DEF StreamInv
<1>6. ASSUME NEW t \in Threads, adding[t].stream = s PROVE ~File(s).ready /\ File(s).by = t
  BY <1>4, <1>6, CallIs DEF StreamInv, HasFile
<1> QED  BY <1>1, <1>2, <1>3, <1>5, <1>6

(* A file's header stays as it is while its own thread prints nothing. *)
LEMMA HeaderKept ==
  ASSUME FileInv, NEW s \in 1..Len(streams), NEW T \in SUBSET Threads,
         Adds(T, streams[s], streams'[s]), streams'[s].ready = streams[s].ready,
         ~File(s).ready =>
           /\ File(s).by \notin T /\ adding'[File(s).by].line = adding[File(s).by].line
           /\ adding'[File(s).by].at = "announce" => adding[File(s).by].at = "announce"
  PROVE  HeaderOf(File(s))'
<1> DEFINE f == streams[s]
           g == streams'[s]
           u == f.by
<1>1. /\ f \in Stream /\ u \in Threads /\ HeaderOf(f)
      /\ ~f.ready => adding[u].at \in Late
  BY UnreadyIs DEF FileInv, HeaderInv, File
<1>2. g.by = u /\ g.mode = f.mode /\ g.ready = f.ready
  BY DEF Adds
<1>3. /\ \A k \in Nat : Begun(f, k) => Begun(g, k)
      /\ Durable(f) => Durable(g)
      /\ After(f) => After(g)
      /\ u \notin T /\ Silent(f) => Silent(g)
  <2> HIDE DEF f, g
  <2> QED  BY <1>1, AddsKeeps DEF f, g
<1>4. Len(Header(f.mode)) \in Nat /\ (~f.ready => adding[u].line - 1 \in Nat)
  <2>1. f.mode \in Modes
    BY <1>1 DEF Stream
  <2>2. ~f.ready => adding[u] \in Call /\ HasFile(u, adding[u])
    BY <1>1, CallIs DEF FileInv, StreamInv
  <2>3. ~f.ready => adding[u].line \in Nat \ {0}
    <3>1. \A m \in Modes : Len(Header(m)) \in Nat
      BY HeaderType
    <3>2. adding[u] \in Call => adding[u].mode \in Modes /\ adding[u].at \in Early \cup Late
      BY DEF Call
    <3> QED  BY <1>1, <2>2, <3>1, <3>2 DEF HasFile, Late
  <2> QED  BY <2>1, <2>3, HeaderType
<1>5. CASE f.ready
  <2>1. Begun(g, Len(Header(g.mode))) /\ Durable(g) /\ After(g)
    BY <1>1, <1>2, <1>3, <1>4, <1>5 DEF HeaderOf, Done
  <2> QED  BY <1>2, <1>5, <2>1 DEF HeaderOf, Done, File
<1>6. CASE ~f.ready
  <2>1. /\ u \notin T /\ adding'[u].line = adding[u].line
        /\ adding'[u].at = "announce" => adding[u].at = "announce"
    BY <1>6 DEF File
  <2>2. /\ Begun(g, adding[u].line - 1) /\ Silent(g)
        /\ adding'[u].at = "announce" => Durable(g)
    BY <1>1, <1>3, <1>4, <1>6, <2>1 DEF HeaderOf, Done
  <2> QED  BY <1>2, <1>6, <2>1, <2>2 DEF HeaderOf, Done, File
<1> QED  BY <1>5, <1>6

(* Or while nobody prints to it. *)
LEMMA HeaderStays ==
  ASSUME FileInv, NEW s \in 1..Len(streams), Adds({}, streams[s], streams'[s]),
         streams'[s].ready = streams[s].ready,
         ~File(s).ready =>
           /\ adding'[File(s).by].line = adding[File(s).by].line
           /\ adding'[File(s).by].at = "announce" => adding[File(s).by].at = "announce"
  PROVE  HeaderOf(File(s))'
<1>1. PICK T \in SUBSET Threads : T = {}
  OBVIOUS
<1>2. Adds(T, streams[s], streams'[s]) /\ File(s).by \notin T
  BY <1>1
<1> QED  BY <1>2, HeaderKept

(* Steps of which a file gets messages at most, and no call gets further    *)
(* than its fopen.                                                          *)
LEMMA Quiet ==
  ASSUME FileInv, NEW T \in SUBSET Threads, Logged(T, streams, streams'),
         \A u \in T : adding[u].at \in Early,
         s_callbacks' = s_callbacks, messages' \in Nat,
         adding' \in [Threads -> Call],
         \A u \in Threads : \/ adding'[u] = adding[u]
                            \/ /\ adding[u].at \in Early /\ adding'[u].at \in Early
                               /\ NoFile(adding'[u])
  PROVE  FileInv'
<1>1. /\ streams' \in Seq(Stream) /\ Len(streams') = Len(streams)
      /\ \A s \in 1..Len(streams) :
           /\ Adds(T, streams[s], streams'[s])
           /\ streams'[s].ready = streams[s].ready /\ streams'[s].open = streams[s].open
           /\ s \notin Range(s_callbacks) => streams'[s] = streams[s]
  BY DEF Logged
<1>2. LTypeOK'
  BY <1>1 DEF LTypeOK, FileInv
<1>3. \A s \in 1..Len(streams) : /\ File(s)'.by = File(s).by /\ File(s)'.mode = File(s).mode
                                 /\ File(s)'.ready = File(s).ready /\ File(s)'.open = File(s).open
                                 /\ s \notin Range(s_callbacks) => File(s)' = File(s)
  BY <1>1 DEF File, Adds
<1>4. Adders'
  <2> SUFFICES ASSUME NEW u \in Threads
               PROVE  (IF adding[u].at \in Early THEN NoFile(adding[u])
                                                 ELSE HasFile(u, adding[u]))'
    BY DEF Adders
  <2>1. CASE adding'[u] = adding[u] /\ adding[u].at \in Early
    BY <2>1 DEF FileInv, StreamInv, Adders
  <2>2. CASE adding'[u] = adding[u] /\ adding[u].at \notin Early
    <3>1. HasFile(u, adding[u])
      BY <2>2 DEF FileInv, StreamInv, Adders
    <3>2. adding[u].stream \in 1..Len(streams)
      BY <3>1 DEF HasFile
    <3> QED  BY <1>1, <1>3, <2>2, <3>1, <3>2 DEF HasFile
  <2> QED  BY <2>1, <2>2
<1>5. Once'
  BY <1>1 DEF Once, FileInv, StreamInv
<1>6. \A u \in Threads : adding'[u].stream = adding[u].stream
  BY CallIs DEF FileInv, StreamInv, NoFile
<1>7. ASSUME NEW s \in 1..Len(streams) PROVE Unready(s)' /\ Kept(s)'
  <2>1. Unready(s) /\ Kept(s) /\ File(s).by \in Threads
    BY UnreadyIs DEF FileInv, StreamInv
  <2>2. BeingAdded(s) <=> BeingAdded(s)'
    BY <1>6 DEF BeingAdded
  <2>3. Unready(s)'
    BY <1>3, <1>6, <2>1 DEF Unready
  <2>4. Kept(s)'
    BY <1>3, <2>1, <2>2 DEF Kept
  <2> QED  BY <2>3, <2>4
<1>8. HeaderInv'
  <2> SUFFICES ASSUME NEW s \in 1..Len(streams) PROVE HeaderOf(File(s))'
    BY <1>1 DEF HeaderInv
  <2>1. ASSUME ~File(s).ready
        PROVE  File(s).by \notin T /\ adding'[File(s).by] = adding[File(s).by]
    <3>1. File(s).by \in Threads /\ adding[File(s).by].at \in Late
      BY <2>1, UnreadyIs DEF FileInv
    <3> QED  BY <3>1 DEF Early, Late
  <2> QED  BY <1>1, <2>1, HeaderKept
<1> QED  BY <1>1, <1>2, <1>4, <1>5, <1>7, <1>8 DEF FileInv, StreamInv

(* The steps that are of that kind: no message to anyone ... *)
LEMMA LogsNothing ==
  ASSUME LTypeOK
  PROVE  Logged({}, streams, streams)
<1>1. \A s \in 1..Len(streams) : streams[s] \in Stream
  BY DEF LTypeOK
<1>2. \A s \in 1..Len(streams) : Adds({}, streams[s], streams[s])
  BY <1>1, AddsNothing
<1> QED  BY <1>2 DEF Logged, LTypeOK

(* ... or to all. *)
LEMMA NextQuiet ==
  ASSUME FileInv, NEW t \in Threads,
         Log(t) \/ AddFile(t) \/ CreateDirectories(t) \/ FopenFails(t)
  PROVE  FileInv'
<1>1. /\ streams \in Seq(Stream) /\ adding \in [Threads -> Call] /\ messages \in Nat
      /\ DOMAIN streams = 1..Len(streams) /\ Len(streams) \in Nat
      /\ \A s \in 1..Len(streams) : streams[s] \in Stream
  BY DEF FileInv, LTypeOK
<1>2. Logged({t}, streams, LogOf(t, streams))
  BY <1>1, LogOfLogs
<1>3. Logged({}, streams, streams)
  BY LogsNothing DEF FileInv
<1>4. Idle \in Call /\ NoFile(Idle) /\ Idle.at = "idle" /\ "idle" \in Early
  BY DEF Idle, Call, NoFile, Early, Modes, MaybePath
<1>5. adding[t].at \in Early => NoFile(adding[t])
  BY CallIs DEF FileInv, StreamInv, NoFile
<1>6. CASE Log(t)
  <2>1. /\ Logged({t}, streams, streams') /\ s_callbacks' = s_callbacks /\ adding' = adding
        /\ messages' \in Nat /\ \A u \in {t} : adding[u].at \in Early
    BY <1>1, <1>2, <1>6 DEF Log, Count, At, Early
  <2> QED  BY <1>1, <2>1, Quiet
<1>7. CASE AddFile(t)
  <2>1. /\ streams' = streams /\ s_callbacks' = s_callbacks /\ messages' = messages
        /\ adding[t].at = "idle"
    BY <1>7 DEF AddFile, At
  <2>2. PICK p \in Paths, m \in Modes :
          adding' = [adding EXCEPT ![t] = [Idle EXCEPT !.at = "directories",
                                                       !.path = p, !.mode = m]]
    BY <1>7 DEF AddFile
  <2> DEFINE a == [Idle EXCEPT !.at = "directories", !.path = p, !.mode = m]
  <2>3. a \in Call /\ NoFile(a) /\ a.at \in Early
    BY DEF Idle, Call, NoFile, Early, MaybePath
  <2>4. adding' = [adding EXCEPT ![t] = a]
    BY <2>2
  <2> HIDE DEF a
  <2>5. /\ adding' \in [Threads -> Call]
        /\ \A u \in Threads : adding'[u] = IF u = t THEN a ELSE adding[u]
    BY <1>1, <2>3, <2>4
  <2> QED  BY <1>1, <1>3, <2>1, <2>3, <2>5, Quiet DEF Early
<1>8. CASE CreateDirectories(t)
  <2>1. /\ s_callbacks' = s_callbacks /\ adding[t].at = "directories"
        /\ adding' = [adding EXCEPT ![t].at = "open"]
    BY <1>8 DEF CreateDirectories, At, Go
  <2>2. messages' \in Nat /\ Logged({t}, streams, streams')
    <3>1. Logged({t}, LogOf(t, streams), LogOf(t, LogOf(t, streams)))
      <4>1. LogOf(t, streams) \in Seq(Stream)
        BY <1>2 DEF Logged
      <4> QED  BY <4>1, LogOfLogs
    <3>2. Logged({t}, streams, LogOf(t, LogOf(t, streams)))
      BY <1>1, <1>2, <3>1, LoggedTwice
    <3>3. Logged({t}, streams, streams)
      <4>1. \A s \in 1..Len(streams) : Adds({t}, streams[s], streams[s])
        BY <1>1, AddsNothing
      <4> QED  BY <1>1, <4>1 DEF Logged
    <3> QED  BY <1>1, <1>8, <3>2, <3>3 DEF CreateDirectories, Count
  <2>3. /\ adding' \in [Threads -> Call]
        /\ \A u \in Threads \ {t} : adding'[u] = adding[u]
        /\ adding'[t].at = "open"
        /\ adding'[t].stream = adding[t].stream /\ adding'[t].line = adding[t].line
    BY <1>1, <2>1 DEF Call, Early
  <2>4. adding[t].at \in Early /\ adding'[t].at \in Early /\ NoFile(adding'[t])
    BY <1>5, <2>1, <2>3 DEF Early, NoFile
  <2> QED  BY <2>1, <2>2, <2>3, <2>4, Quiet
<1>9. CASE FopenFails(t)
  <2>1. /\ streams' = LogOf(t, streams) /\ s_callbacks' = s_callbacks /\ messages' \in Nat
        /\ adding' = [adding EXCEPT ![t] = Idle] /\ adding[t].at \in Early
    BY <1>1, <1>9 DEF FopenFails, Count, At, Early
  <2>2. /\ adding' \in [Threads -> Call]
        /\ \A u \in Threads : adding'[u] = IF u = t THEN Idle ELSE adding[u]
    BY <1>1, <1>4, <2>1
  <2> QED  BY <1>2, <1>4, <2>1, <2>2, Quiet
<1> QED  BY <1>6, <1>7, <1>8, <1>9

(* flush(). *)
LEMMA FlushKeeps ==
  ASSUME FileInv, FlushAll
  PROVE  FileInv'
<1>0. /\ streams \in Seq(Stream) /\ adding \in [Threads -> Call] /\ messages \in Nat
      /\ DOMAIN streams = 1..Len(streams) /\ Len(streams) \in Nat
      /\ \A s \in 1..Len(streams) : streams[s] \in Stream
  BY DEF FileInv, LTypeOK
<1>1. /\ s_callbacks' = s_callbacks /\ messages' = messages /\ adding' = adding
      /\ streams' = [s \in 1..Len(streams) |->
                       IF s \in Range(s_callbacks) THEN Flushed(streams[s]) ELSE streams[s]]
  BY <1>0 DEF FlushAll, File
<1>2. ASSUME NEW s \in 1..Len(streams)
      PROVE  /\ streams'[s] \in Stream /\ Adds({}, streams[s], streams'[s])
             /\ streams'[s].ready = streams[s].ready /\ streams'[s].open = streams[s].open
             /\ s \notin Range(s_callbacks) => streams'[s] = streams[s]
  <2>1. streams'[s] = IF s \in Range(s_callbacks) THEN Flushed(streams[s]) ELSE streams[s]
    BY <1>1
  <2> QED  BY <1>0, <2>1, AddsNothing, FlushedIs
<1>3. streams' \in Seq(Stream) /\ Len(streams') = Len(streams)
  <2>1. DOMAIN streams' = 1..Len(streams) /\ streams' \in [1..Len(streams) -> Stream]
    BY <1>1, <1>2
  <2> QED  BY <1>0, <2>1
<1>4. Logged({}, streams, streams')
  BY <1>2, <1>3 DEF Logged
<1>5. PICK T \in SUBSET Threads : T = {}
  OBVIOUS
<1>6. Logged(T, streams, streams') /\ \A u \in T : adding[u].at \in Early
  BY <1>4, <1>5
<1> QED  BY <1>0, <1>1, <1>6, Quiet

(* A step of t leaves the other calls where they were ... *)
LEMMA OthersStay ==
  ASSUME FileInv, NEW t \in Threads, Len(streams') \in Nat, Len(streams) <= Len(streams'),
         \A u \in Threads \ {t} : adding'[u] = adding[u],
         \A s \in 1..Len(streams) : adding[t].stream # s /\ ~File(s).ready =>
           /\ streams'[s].by = streams[s].by /\ streams'[s].mode = streams[s].mode
           /\ streams'[s].ready = streams[s].ready /\ streams'[s].open = streams[s].open
           /\ s \in Range(s_callbacks') <=> s \in Range(s_callbacks)
  PROVE  \A u \in Threads \ {t} :
           (IF adding[u].at \in Early THEN NoFile(adding[u]) ELSE HasFile(u, adding[u]))'
<1> SUFFICES ASSUME NEW u \in Threads \ {t}
             PROVE  (IF adding[u].at \in Early THEN NoFile(adding[u])
                                               ELSE HasFile(u, adding[u]))'
  OBVIOUS
<1>1. CASE adding[u].at \in Early
  BY <1>1 DEF FileInv, StreamInv, Adders, NoFile
<1>2. CASE adding[u].at \notin Early
  <2> DEFINE s == adding[u].stream
  <2>1. HasFile(u, adding[u])
    BY <1>2 DEF FileInv, StreamInv, Adders
  <2>2. s \in 1..Len(streams) /\ File(s).by = u /\ ~File(s).ready
    BY <2>1 DEF HasFile
  <2>3. adding[t].stream # s
    BY <2>2, UnreadyIs DEF FileInv
  <2>4. /\ streams'[s].by = streams[s].by /\ streams'[s].mode = streams[s].mode
        /\ streams'[s].ready = streams[s].ready /\ streams'[s].open = streams[s].open
        /\ s \in Range(s_callbacks') <=> s \in Range(s_callbacks)
    BY <2>2, <2>3
  <2>5. s \in 1..Len(streams')
    BY <2>2 DEF FileInv, LTypeOK
  <2>6. PICK a : a = adding[u]
    OBVIOUS
  <2>7. a = adding'[u] /\ HasFile(u, a) /\ a.at \notin Early /\ a.stream = s
    BY <1>2, <2>1, <2>6
  <2> HIDE DEF s
  <2>8. HasFile(u, adding[u])'
    BY <2>4, <2>5, <2>7 DEF HasFile, File
  <2> QED  BY <2>7, <2>8
<1> QED  BY <1>1, <1>2

(* ... and the other streams theirs. *)
LEMMA OthersUnready ==
  ASSUME FileInv, NEW t \in Threads, NEW s \in 1..Len(streams), adding[t].stream # s,
         \A u \in Threads \ {t} : adding'[u] = adding[u],
         streams'[s].by = streams[s].by, streams'[s].ready = streams[s].ready
  PROVE  Unready(s)' /\ (~File(s).ready => File(s).by \in Threads \ {t})
  BY UnreadyIs DEF FileInv, Unready, File

(* A new stream is empty, and belongs to the add_file that opened it. *)
LEMMA NextFopen ==
  ASSUME FileInv, NEW t \in Threads, Fopen(t)
  PROVE  FileInv'
<1>0. PICK n : n = Len(streams) + 1
  OBVIOUS
<1> DEFINE f == [path |-> adding[t].path, mode |-> adding[t].mode, printed |-> <<>>,
                 flushed |-> 0, open |-> TRUE, by |-> t, ready |-> FALSE]
<1>1. /\ streams \in Seq(Stream) /\ adding \in [Threads -> Call] /\ messages \in Nat
      /\ Len(streams) \in Nat /\ s_callbacks \in Seq(Nat)
  BY DEF FileInv, LTypeOK
<1>2. /\ streams' = Append(streams, f) /\ s_callbacks' = s_callbacks /\ messages' = messages
      /\ adding' = [adding EXCEPT ![t].at = "publish", ![t].stream = Len(streams')]
      /\ adding[t].at = "open"
  BY DEF Fopen, At
<1>3. adding[t] \in Call /\ NoFile(adding[t])
  BY <1>2, CallIs DEF FileInv, StreamInv, NoFile, Early
<1>4. f \in Stream
  BY <1>3 DEF Stream, Call, MaybePath
<1> HIDE DEF f
<1>5. /\ streams' \in Seq(Stream) /\ Len(streams') = n /\ streams'[n] = f
      /\ \A s \in 1..Len(streams) : streams'[s] = streams[s]
  BY <1>0, <1>1, <1>2, <1>4
<1>6. /\ adding' \in [Threads -> Call]
      /\ \A u \in Threads \ {t} : adding'[u] = adding[u]
      /\ adding'[t].at = "publish" /\ adding'[t].stream = n
      /\ adding'[t].mode = adding[t].mode /\ adding'[t].line = adding[t].line
  <2>1. Len(streams') = n /\ n \in Nat
    BY <1>0, <1>1, <1>5
  <2>2. adding' = [adding EXCEPT ![t] = [adding[t] EXCEPT !.at = "publish", !.stream = n]]
    BY <1>1, <1>2, <2>1
  <2>3. [adding[t] EXCEPT !.at = "publish", !.stream = n] \in Call
    BY <1>3, <2>1 DEF Call, Late
  <2> QED  BY <1>1, <1>3, <2>2, <2>3 DEF Call
<1>7. /\ f.by = t /\ f.mode = adding[t].mode /\ f.open /\ ~f.ready
      /\ f.printed = <<>>
  BY DEF f
<1>8. n \notin Range(s_callbacks)
  <2>1. \A k \in 1..Len(s_callbacks) : s_callbacks[k] \in 1..Len(streams)
    BY DEF FileInv, StreamInv, Once
  <2>2. DOMAIN s_callbacks = 1..Len(s_callbacks)
    BY <1>1
  <2> QED  BY <1>0, <1>1, <2>1, <2>2 DEF Range
<1>9. HasFile(t, adding[t])'
  <2> DEFINE a == adding'[t]
  <2>1. /\ a.stream = n /\ a.at = "publish" /\ a.mode = adding[t].mode /\ a.line = 1
    BY <1>3, <1>6 DEF NoFile
  <2>2. n \in 1..Len(streams')
    BY <1>0, <1>1, <1>5
  <2> QED  BY <1>2, <1>5, <1>7, <1>8, <2>1, <2>2 DEF HasFile, File
<1>10. Adders'
  <2>1. \A u \in Threads \ {t} :
          (IF adding[u].at \in Early THEN NoFile(adding[u]) ELSE HasFile(u, adding[u]))'
    <3>1. Len(streams') \in Nat /\ Len(streams) <= Len(streams')
      BY <1>0, <1>1, <1>5
    <3> QED  BY <1>2, <1>5, <1>6, <3>1, OthersStay
  <2>2. (IF adding[t].at \in Early THEN NoFile(adding[t]) ELSE HasFile(t, adding[t]))'
    BY <1>6, <1>9 DEF Early
  <2> QED  BY <2>1, <2>2 DEF Adders
<1>11. Once'
  BY <1>0, <1>1, <1>2, <1>5, SMTT(40) DEF Once, FileInv, StreamInv
<1>12. ASSUME NEW s \in 1..Len(streams) PROVE Unready(s)' /\ Kept(s)' /\ HeaderOf(File(s))'
  <2>1. adding[t].stream # s /\ streams'[s] = streams[s] /\ streams[s] \in Stream
    BY <1>0, <1>1, <1>3, <1>5 DEF NoFile
  <2>2. Unready(s)' /\ (~File(s).ready => File(s).by \in Threads \ {t})
    BY <1>6, <2>1, OthersUnready
  <2>3. BeingAdded(s) => BeingAdded(s)'
    BY <1>6, <2>1 DEF BeingAdded
  <2>4. Kept(s)'
    BY <1>2, <2>1, <2>3 DEF Kept, File, FileInv, StreamInv
  <2>5. Adds({}, streams[s], streams'[s])
    BY <2>1, AddsNothing
  <2>6. HeaderOf(File(s))'
    <3>1. streams'[s].ready = streams[s].ready
      BY <2>1
    <3>2. ~File(s).ready => adding'[File(s).by] = adding[File(s).by]
      BY <1>6, <2>2
    <3> QED  BY <2>5, <3>1, <3>2, HeaderStays
  <2> QED  BY <2>2, <2>4, <2>6
<1>13. Unready(n)' /\ Kept(n)'
  <2>1. BeingAdded(n)'
    BY <1>6 DEF BeingAdded
  <2>2. File(n)' = f
    BY <1>5 DEF File
  <2> QED  BY <1>6, <1>7, <2>1, <2>2 DEF Unready, Kept
<1>14. HeaderOf(File(n))'
  <2>1. HeaderEntries(f) = {}
    BY <1>7 DEF HeaderEntries
  <2>2. Begun(f, 0)
    <3> DEFINE place == [i \in 1..0 |-> 0]
    <3>1. place \in [1..0 -> HeaderEntries(f)] /\ Range(place) = HeaderEntries(f)
      <4>1. 1..0 = {}
        OBVIOUS
      <4> QED  BY <2>1, <4>1 DEF Range
    <3> HIDE DEF place
    <3>2. \A i \in 1..0 : FALSE
      OBVIOUS
    <3> QED  BY <3>1, <3>2 DEF Begun
  <2>3. Silent(f)
    BY <1>7 DEF Silent
  <2>4. adding'[t].line - 1 = 0
    BY <1>3, <1>6 DEF NoFile
  <2>5. File(n)' = f
    BY <1>5 DEF File
  <2> QED  BY <1>6, <1>7, <2>2, <2>3, <2>4, <2>5 DEF HeaderOf, Done
<1>15. LTypeOK'
  BY <1>0, <1>1, <1>2, <1>5, <1>6 DEF LTypeOK
<1>16. \A s \in 1..n : s \in 1..Len(streams) \/ s = n
  BY <1>0, <1>1
<1>17. Len(streams') = n
  BY <1>5
<1> QED  BY <1>10, <1>11, <1>12, <1>13, <1>14, <1>15, <1>16, <1>17
         DEF FileInv, StreamInv, HeaderInv

(* The callback is published. *)
LEMMA NextAddCallback ==
  ASSUME FileInv, NEW t \in Threads, AddCallback(t)
  PROVE  FileInv'
<1> DEFINE n == adding[t].stream
<1>1. /\ streams \in Seq(Stream) /\ adding \in [Threads -> Call] /\ messages \in Nat
      /\ Len(streams) \in Nat /\ s_callbacks \in Seq(Nat) /\ Len(s_callbacks) \in Nat
  BY DEF FileInv, LTypeOK
<1>2. /\ s_callbacks' = Append(s_callbacks, n) /\ streams' = streams /\ messages' = messages
      /\ adding' = [adding EXCEPT ![t].at = "header"] /\ adding[t].at = "publish"
  BY DEF AddCallback, At, Go
<1>3. adding[t] \in Call /\ HasFile(t, adding[t])
  BY <1>2, CallIs DEF FileInv, StreamInv, Late
<1>4. /\ adding' \in [Threads -> Call]
      /\ \A u \in Threads \ {t} : adding'[u] = adding[u]
      /\ adding'[t].at = "header" /\ adding'[t].stream = n
      /\ adding'[t].mode = adding[t].mode /\ adding'[t].line = adding[t].line
  BY <1>1, <1>2 DEF Call, Late
<1>5. /\ n \in 1..Len(streams) /\ n \notin Range(s_callbacks) /\ File(n).by = t
      /\ adding[t].line = 1
  BY <1>2, <1>3 DEF HasFile
<1>6. /\ s_callbacks' \in Seq(Nat) /\ Range(s_callbacks') = Range(s_callbacks) \cup {n}
      /\ Len(s_callbacks') = Len(s_callbacks) + 1 /\ s_callbacks'[Len(s_callbacks) + 1] = n
      /\ \A k \in 1..Len(s_callbacks) : s_callbacks'[k] = s_callbacks[k]
  <2>1. n \in Nat
    BY <1>1, <1>5
  <2> HIDE DEF n
  <2>2. /\ s_callbacks' \in Seq(Nat)
        /\ Len(s_callbacks') = Len(s_callbacks) + 1 /\ s_callbacks'[Len(s_callbacks) + 1] = n
        /\ \A k \in 1..Len(s_callbacks) : s_callbacks'[k] = s_callbacks[k]
    BY <1>1, <1>2, <2>1
  <2>3. Range(s_callbacks') = Range(s_callbacks) \cup {n}
    <3>1. DOMAIN s_callbacks' = 1..Len(s_callbacks) + 1 /\ DOMAIN s_callbacks = 1..Len(s_callbacks)
      BY <1>1, <2>2
    <3>2. \A k \in 1..Len(s_callbacks) + 1 : k \in 1..Len(s_callbacks) \/ k = Len(s_callbacks) + 1
      BY <1>1
    <3>3. 1..Len(s_callbacks) \subseteq 1..Len(s_callbacks) + 1 /\ Len(s_callbacks) + 1 \in 1..Len(s_callbacks) + 1
      BY <1>1
    <3> QED  BY <2>2, <3>1, <3>2, <3>3 DEF Range
  <2> QED  BY <2>2, <2>3
<1>7. HasFile(t, adding[t])'
  <2>1. adding'[t].line \in 1..Len(Header(adding'[t].mode))
    <3>1. adding[t].mode \in Modes
      BY <1>3 DEF Call
    <3>2. Len(Header(adding[t].mode)) \in Nat \ {0}
      BY <3>1, HeaderType
    <3> QED  BY <1>4, <1>5, <3>2
  <2> QED  BY <1>2, <1>3, <1>4, <1>5, <1>6, <2>1 DEF HasFile, File
<1>8. Adders'
  <2>1. \A u \in Threads \ {t} :
          (IF adding[u].at \in Early THEN NoFile(adding[u]) ELSE HasFile(u, adding[u]))'
    BY <1>1, <1>2, <1>4, <1>6, OthersStay, SMTT(40)
  <2>2. (IF adding[t].at \in Early THEN NoFile(adding[t]) ELSE HasFile(t, adding[t]))'
    BY <1>4, <1>7 DEF Early
  <2> QED  BY <2>1, <2>2 DEF Adders
<1>9. Once'
  <2> SUFFICES ASSUME NEW j \in 1..Len(s_callbacks) + 1, NEW k \in 1..Len(s_callbacks) + 1
               PROVE  /\ s_callbacks'[j] \in 1..Len(streams)
                      /\ s_callbacks'[j] = s_callbacks'[k] => j = k
    BY <1>2, <1>6 DEF Once
  <2>1. \A i \in 1..Len(s_callbacks) : s_callbacks[i] # n
    BY <1>1, <1>5 DEF Range
  <2>2. Once
    BY DEF FileInv, StreamInv
  <2>3. /\ j \in 1..Len(s_callbacks) \/ j = Len(s_callbacks) + 1
        /\ k \in 1..Len(s_callbacks) \/ k = Len(s_callbacks) + 1
    BY <1>1
  <2> QED  BY <1>5, <1>6, <2>1, <2>2, <2>3 DEF Once
<1>10. ASSUME NEW s \in 1..Len(streams) PROVE Unready(s)' /\ Kept(s)' /\ HeaderOf(File(s))'
  <2>1. streams[s] \in Stream /\ Unready(s) /\ Kept(s) /\ File(s)' = File(s)
    BY <1>1, <1>2 DEF FileInv, StreamInv, File
  <2>2. \A u \in Threads : adding'[u].stream = adding[u].stream /\ adding'[u].line = adding[u].line
    BY <1>4
  <2>3. File(s).by \in Threads
    BY <2>1 DEF Stream, File
  <2>4. Unready(s)'
    BY <2>1, <2>2, <2>3 DEF Unready
  <2>5. Kept(s)'
    <3>1. BeingAdded(s)' <=> BeingAdded(s)
      BY <2>2 DEF BeingAdded
    <3>2. s = n => File(s).open
      BY <1>3 DEF HasFile
    <3> QED  BY <1>6, <2>1, <3>1, <3>2 DEF Kept
  <2>6. Adds({}, streams[s], streams'[s])
    BY <1>2, <2>1, AddsNothing
  <2>7. \A u \in Threads : adding'[u].at = "announce" => adding[u].at = "announce"
    BY <1>4
  <2>8. HeaderOf(File(s))'
    <3>1. streams'[s].ready = streams[s].ready
      BY <1>2
    <3>2. /\ adding'[File(s).by].line = adding[File(s).by].line
          /\ adding'[File(s).by].at = "announce" => adding[File(s).by].at = "announce"
      BY <2>2, <2>3, <2>7
    <3> QED  BY <2>6, <3>1, <3>2, HeaderStays
  <2> QED  BY <2>4, <2>5, <2>8
<1> QED  BY <1>1, <1>2, <1>4, <1>6, <1>8, <1>9, <1>10 DEF FileInv, StreamInv, HeaderInv, LTypeOK

(***************************************************************************)
(* A step of t that changes the stream it adds and no other, and not the   *)
(* callbacks: stdio on the FILE* that add_file still has.                  *)
(***************************************************************************)
LEMMA OnOwnStream ==
  ASSUME FileInv, NEW t \in Threads, NEW n, n = adding[t].stream, adding[t].at \in Late,
         NEW g \in Stream, streams' = [streams EXCEPT ![n] = g],
         g.by = t, g.mode = File(n).mode, ~g.ready, g.open,
         s_callbacks' = s_callbacks, messages' = messages,
         adding' \in [Threads -> Call], \A u \in Threads \ {t} : adding'[u] = adding[u],
         adding'[t].at \in Late, adding'[t].stream = n, adding[t].at # "publish",
         HasFile(t, adding[t])', HeaderOf(g)'
  PROVE  FileInv'
<1>1. /\ streams \in Seq(Stream) /\ adding \in [Threads -> Call] /\ messages \in Nat
      /\ Len(streams) \in Nat /\ s_callbacks \in Seq(Nat)
  BY DEF FileInv, LTypeOK
<1>2. HasFile(t, adding[t]) /\ n \in 1..Len(streams)
  BY CallIs DEF FileInv, StreamInv, HasFile
<1>3. /\ streams' \in Seq(Stream) /\ Len(streams') = Len(streams) /\ streams'[n] = g
      /\ \A s \in 1..Len(streams) \ {n} : streams'[s] = streams[s]
  BY <1>1, <1>2
<1>4. Adders'
  <2>1. \A u \in Threads \ {t} :
          (IF adding[u].at \in Early THEN NoFile(adding[u]) ELSE HasFile(u, adding[u]))'
    <3>1. Len(streams') \in Nat /\ Len(streams) <= Len(streams')
      BY <1>1, <1>3
    <3>2. \A s \in 1..Len(streams) : adding[t].stream # s => streams'[s] = streams[s]
      BY <1>3
    <3> QED  BY <3>1, <3>2, OthersStay
  <2>2. (IF adding[t].at \in Early THEN NoFile(adding[t]) ELSE HasFile(t, adding[t]))'
    BY DEF Early, Late
  <2> QED  BY <2>1, <2>2 DEF Adders
<1>5. Once'
  BY <1>3 DEF Once, FileInv, StreamInv
<1>6. ASSUME NEW s \in 1..Len(streams) PROVE Unready(s)' /\ Kept(s)' /\ HeaderOf(File(s))'
  <2>1. CASE s = n
    <3>1. File(s)' = g
      BY <1>3, <2>1 DEF File
    <3>2. BeingAdded(s)'
      BY <2>1 DEF BeingAdded
    <3> QED  BY <2>1, <3>1, <3>2 DEF Unready, Kept
  <2>2. CASE s # n
    <3>1. streams'[s] = streams[s] /\ streams[s] \in Stream /\ File(s)' = File(s)
      BY <1>1, <1>3, <2>2 DEF File
    <3>2. Unready(s)' /\ (~File(s).ready => File(s).by \in Threads \ {t})
      BY <2>2, <3>1, OthersUnready
    <3>3. BeingAdded(s) => BeingAdded(s)'
      BY <2>2 DEF BeingAdded
    <3>4. Kept(s)'
      BY <3>1, <3>3 DEF Kept, FileInv, StreamInv
    <3>5. Adds({}, streams[s], streams'[s])
      BY <3>1, AddsNothing
    <3>6. ~File(s).ready => adding'[File(s).by] = adding[File(s).by]
      BY <3>2
    <3>7. HeaderOf(File(s))'
      BY <3>1, <3>5, <3>6, HeaderStays
    <3> QED  BY <3>2, <3>4, <3>7
  <2> QED  BY <2>1, <2>2
<1> QED  BY <1>1, <1>3, <1>4, <1>5, <1>6 DEF FileInv, StreamInv, HeaderInv, LTypeOK

(* Header k of a file is printed after the first k - 1. *)
LEMMA BegunMore ==
  ASSUME NEW f \in Stream, NEW k \in Nat \ {0}, k <= Len(Header(f.mode)), Begun(f, k - 1),
         NEW t \in Threads, NEW g \in Stream, g.mode = f.mode,
         g.printed = Append(f.printed, [text |-> Header(f.mode)[k], by |-> t])
  PROVE  Begun(g, k)
<1> DEFINE n == Len(f.printed) + 1
<1>1. /\ f.printed \in Seq(Entry) /\ Len(f.printed) \in Nat /\ f.mode \in Modes
      /\ DOMAIN f.printed = 1..Len(f.printed)
  BY DEF Stream
<1>2. k \in 1..Len(Header(f.mode)) /\ Header(f.mode)[k] \in Texts /\ Header(f.mode)[k] # "message"
  <2>1. Header(f.mode) \in Seq(Texts) /\ Len(Header(f.mode)) \in Nat
    BY <1>1, HeaderType
  <2>2. k \in 1..Len(Header(f.mode))
    BY <2>1
  <2>3. Header(f.mode)[k] \in Texts
    BY <2>1, <2>2
  <2>4. Header(f.mode)[k] # "message"
    BY <1>1, <2>2, HeaderType
  <2> QED  BY <2>2, <2>3, <2>4
<1>3. [text |-> Header(f.mode)[k], by |-> t] \in Entry
  BY <1>2 DEF Entry
<1>4. PICK e \in Entry : e = [text |-> Header(f.mode)[k], by |-> t]
  BY <1>3
<1>5. /\ DOMAIN g.printed = 1..n /\ g.printed[n] = e /\ n \in Nat
      /\ \A i \in 1..Len(f.printed) : g.printed[i] = f.printed[i]
  BY <1>1, <1>4
<1>6. e.text = Header(f.mode)[k] /\ e.text # "message"
  BY <1>2, <1>4
<1>7. HeaderEntries(f) \subseteq 1..Len(f.printed) /\ HeaderEntries(g) = HeaderEntries(f) \cup {n}
  <2>1. HeaderEntries(f) \subseteq 1..Len(f.printed)
    BY <1>1 DEF HeaderEntries
  <2>2. \A i \in 1..n : i \in 1..Len(f.printed) \/ i = n
    BY <1>1
  <2>3. 1..Len(f.printed) \subseteq 1..n /\ n \in 1..n
    BY <1>1
  <2> HIDE DEF n
  <2> QED  BY <1>1, <1>5, <1>6, <2>1, <2>2, <2>3 DEF HeaderEntries
<1>8. PICK place \in [1..(k - 1) -> HeaderEntries(f)] :
        /\ Range(place) = HeaderEntries(f)
        /\ \A i, j \in 1..(k - 1) : i < j => place[i] < place[j]
        /\ \A i \in 1..(k - 1) : f.printed[place[i]].text = Header(f.mode)[i]
  BY DEF Begun
<1> DEFINE more == [i \in 1..k |-> IF i = k THEN n ELSE place[i]]
<1>9. /\ \A i \in 1..k : i \in 1..(k - 1) \/ i = k
      /\ 1..(k - 1) \subseteq 1..k /\ k \in 1..k /\ k \notin 1..(k - 1)
  OBVIOUS
<1>10. /\ more[k] = n
       /\ \A i \in 1..(k - 1) : more[i] = place[i] /\ place[i] \in HeaderEntries(f)
  BY <1>8, <1>9
<1>11. more \in [1..k -> HeaderEntries(g)] /\ DOMAIN more = 1..k
  BY <1>7, <1>8, <1>9, <1>10
<1> HIDE DEF more
<1>12. Range(more) = HeaderEntries(g)
  <2>1. \A i \in HeaderEntries(f) : \E j \in 1..(k - 1) : place[j] = i
    BY <1>8 DEF Range
  <2>2. \A i \in HeaderEntries(f) : \E j \in 1..k : more[j] = i
    BY <1>9, <1>10, <2>1
  <2>3. \A i \in HeaderEntries(g) : \E j \in 1..k : more[j] = i
    BY <1>7, <1>9, <1>10, <2>2
  <2> QED  BY <1>11, <2>3 DEF Range
<1>13. ASSUME NEW i \in 1..k, NEW j \in 1..k, i < j PROVE more[i] < more[j]
  <2>1. i \in 1..(k - 1)
    BY <1>13
  <2>2. CASE j = k
    BY <1>1, <1>7, <1>10, <2>1, <2>2
  <2>3. CASE j # k
    <3>1. j \in 1..(k - 1)
      BY <2>3
    <3> QED  BY <1>8, <1>10, <1>13, <2>1, <3>1
  <2> QED  BY <2>2, <2>3
<1>14. ASSUME NEW i \in 1..k PROVE g.printed[more[i]].text = Header(g.mode)[i]
  <2>1. CASE i = k
    BY <1>5, <1>6, <1>10, <2>1
  <2>2. CASE i # k
    <3>1. i \in 1..(k - 1)
      BY <1>9, <2>2
    <3>2. more[i] = place[i] /\ place[i] \in 1..Len(f.printed)
      BY <1>7, <1>10, <3>1
    <3> QED  BY <1>5, <1>8, <3>1, <3>2
  <2> QED  BY <2>1, <2>2
<1> QED  BY <1>11, <1>12, <1>13, <1>14 DEF Begun

(* One line of the header, while other threads log. *)
LEMMA NextPrintHeader ==
  ASSUME FileInv, NEW t \in Threads, PrintHeader(t)
  PROVE  FileInv'
<1>0. PICK n, k : n = adding[t].stream /\ k = adding[t].line
  OBVIOUS
<1>1. /\ streams \in Seq(Stream) /\ adding \in [Threads -> Call] /\ adding[t].at = "header"
      /\ s_callbacks' = s_callbacks /\ messages' = messages
  BY DEF FileInv, LTypeOK, PrintHeader, At
<1>2. adding[t] \in Call /\ HasFile(t, adding[t])
  BY <1>1, CallIs DEF FileInv, StreamInv, Late
<1>3. /\ n \in 1..Len(streams) /\ streams[n].by = t /\ streams[n].mode = adding[t].mode
      /\ ~streams[n].ready /\ streams[n].open /\ n \in Range(s_callbacks)
      /\ k \in 1..Len(Header(adding[t].mode)) /\ streams[n] \in Stream /\ n \in Nat
  BY <1>0, <1>1, <1>2 DEF HasFile, File
<1>4. PICK f : f = streams[n]
  OBVIOUS
<1>5. f \in Stream /\ f.by = t /\ f.mode \in Modes /\ f.mode = adding[t].mode
  BY <1>3, <1>4 DEF Stream
<1>6. PICK e : e = [text |-> Header(f.mode)[k], by |-> t]
  OBVIOUS
<1>7. /\ Header(f.mode) \in Seq(Texts) /\ Len(Header(f.mode)) \in Nat \ {0}
      /\ Header(f.mode)[k] # "message"
  BY <1>3, <1>5, HeaderType
<1>8. e \in Entry /\ e.text # "message"
  <2>1. Header(f.mode)[k] \in Texts
    BY <1>3, <1>5, <1>7
  <2> QED  BY <1>6, <1>7, <2>1 DEF Entry
<1>9. PICK g : g = Printed(f, e)
  OBVIOUS
<1>10. /\ g \in Stream /\ g.printed = Append(f.printed, e) /\ g.flushed = f.flushed
       /\ g.mode = f.mode /\ g.by = t /\ g.open /\ ~g.ready
  BY <1>3, <1>4, <1>5, <1>8, <1>9, PrintedIs, SMTT(40)
<1>11. streams' = [streams EXCEPT ![n] = g]
  BY <1>0, <1>4, <1>5, <1>6, <1>9 DEF PrintHeader, Use
<1>12. PICK to : to = IF k = Len(Header(f.mode)) THEN "flush" ELSE "header"
  OBVIOUS
<1>13. adding' = [adding EXCEPT ![t] = [adding[t] EXCEPT !.line = k + 1, !.at = to]]
  BY <1>0, <1>1, <1>5, <1>12 DEF PrintHeader
<1>14. /\ adding' \in [Threads -> Call] /\ \A u \in Threads \ {t} : adding'[u] = adding[u]
       /\ adding'[t].at = to /\ adding'[t].line = k + 1 /\ adding'[t].stream = n
       /\ adding'[t].mode = f.mode
  <2>1. k + 1 \in Nat /\ to \in Early \cup Late
    BY <1>3, <1>12 DEF Late
  <2>2. [adding[t] EXCEPT !.line = k + 1, !.at = to] \in Call
    BY <1>2, <2>1 DEF Call
  <2> QED  BY <1>0, <1>1, <1>2, <1>5, <1>13, <2>2 DEF Call
<1>15. /\ to \in {"header", "flush"}
       /\ to = "header" => k + 1 \in 1..Len(Header(f.mode))
       /\ to = "flush" => k + 1 = Len(Header(f.mode)) + 1
  BY <1>3, <1>5, <1>7, <1>12
<1>16. HasFile(t, adding[t])'
  <2>1. Len(streams') = Len(streams) /\ File(n)' = g
    BY <1>1, <1>3, <1>11 DEF File
  <2> QED  BY <1>1, <1>3, <1>10, <1>14, <1>15, <2>1 DEF HasFile
<1>17. HeaderOf(f) /\ Done(f) = k - 1
  BY <1>0, <1>3, <1>4 DEF FileInv, HeaderInv, File, Done
<1>18. Begun(g, k)
  <2>1. Begun(f, k - 1) /\ k \in Nat \ {0} /\ k <= Len(Header(f.mode))
    BY <1>3, <1>5, <1>17 DEF HeaderOf
  <2>2. g.printed = Append(f.printed, [text |-> Header(f.mode)[k], by |-> t])
    BY <1>6, <1>10
  <2> QED  BY <1>5, <1>10, <2>1, <2>2, BegunMore
<1>19. Silent(g)
  <2>1. Silent(f) /\ f.printed \in Seq(Entry) /\ Len(f.printed) \in Nat
    BY <1>3, <1>4, <1>5, <1>17 DEF HeaderOf, Stream
  <2> SUFFICES ASSUME NEW i \in 1..Len(f.printed) + 1, Own(g, g.printed[i]) PROVE FALSE
    BY <1>8, <1>10, <2>1 DEF Silent
  <2>2. CASE i \in 1..Len(f.printed)
    <3>1. g.printed[i] = f.printed[i]
      BY <1>8, <1>10, <2>1, <2>2
    <3> QED  BY <1>5, <1>10, <2>1, <2>2, <3>1 DEF Silent, Own
  <2>3. CASE i = Len(f.printed) + 1
    <3>1. g.printed[i] = e
      BY <1>8, <1>10, <2>1, <2>3
    <3> QED  BY <1>8, <3>1 DEF Own
  <2> QED  BY <2>1, <2>2, <2>3
<1>20. HeaderOf(g)'
  <2>1. k \in Nat /\ adding'[t].line - 1 = k
    BY <1>3, <1>14
  <2>2. adding'[t].at # "announce"
    BY <1>14, <1>15
  <2> QED  BY <1>10, <1>18, <1>19, <2>1, <2>2 DEF HeaderOf, Done
<1>21. adding'[t].at \in Late /\ adding[t].at \in Late
  BY <1>1, <1>14, <1>15 DEF Late
<1>22. g.mode = File(n).mode
  BY <1>4, <1>10 DEF File
<1> QED  BY <1>0, <1>1, <1>10, <1>11, <1>14, <1>16, <1>20, <1>21, <1>22, OnOwnStream

(* The header is made durable. *)
LEMMA NextFlushHeader ==
  ASSUME FileInv, NEW t \in Threads, FlushHeader(t)
  PROVE  FileInv'
<1>0. PICK n : n = adding[t].stream
  OBVIOUS
<1>1. /\ streams \in Seq(Stream) /\ adding \in [Threads -> Call] /\ adding[t].at = "flush"
      /\ s_callbacks' = s_callbacks /\ messages' = messages
  BY DEF FileInv, LTypeOK, FlushHeader, At
<1>2. adding[t] \in Call /\ HasFile(t, adding[t])
  BY <1>1, CallIs DEF FileInv, StreamInv, Late
<1>3. /\ n \in 1..Len(streams) /\ streams[n].by = t /\ streams[n].mode = adding[t].mode
      /\ ~streams[n].ready /\ streams[n].open /\ n \in Range(s_callbacks)
      /\ adding[t].line = Len(Header(adding[t].mode)) + 1
      /\ streams[n] \in Stream /\ n \in Nat
  BY <1>0, <1>1, <1>2 DEF HasFile, File
<1>4. PICK f, g : f = streams[n] /\ g = Flushed(f)
  OBVIOUS
<1>5. /\ g \in Stream /\ g.printed = f.printed /\ g.flushed = Len(f.printed)
      /\ g.mode = f.mode /\ g.by = t /\ g.open /\ ~g.ready /\ f \in Stream /\ f.by = t
  BY <1>3, <1>4, FlushedIs
<1>6. streams' = [streams EXCEPT ![n] = g]
  BY <1>0, <1>4 DEF FlushHeader, Use
<1>7. adding' = [adding EXCEPT ![t] = [adding[t] EXCEPT !.at = "announce"]]
  BY <1>1 DEF FlushHeader, Go
<1>8. /\ adding' \in [Threads -> Call] /\ \A u \in Threads \ {t} : adding'[u] = adding[u]
      /\ adding'[t].at = "announce" /\ adding'[t].line = adding[t].line
      /\ adding'[t].stream = n /\ adding'[t].mode = adding[t].mode
  BY <1>0, <1>1, <1>2, <1>7 DEF Call, Late
<1>9. HasFile(t, adding[t])'
  <2>1. Len(streams') = Len(streams) /\ File(n)' = g
    BY <1>1, <1>3, <1>6 DEF File
  <2> QED  BY <1>1, <1>3, <1>4, <1>5, <1>8, <2>1 DEF HasFile
<1>10. HeaderOf(f) /\ Done(f) = adding[t].line - 1
  BY <1>3, <1>4 DEF FileInv, HeaderInv, File, Done
<1>11. Adds({}, f, g)
  BY <1>4, <1>5, AddsNothing
<1>12. Begun(g, adding[t].line - 1) /\ Silent(g)
  <2>1. Len(Header(f.mode)) \in Nat
    <3>1. f.mode \in Modes
      BY <1>5 DEF Stream
    <3> QED  BY <3>1, HeaderType
  <2>2. adding[t].line - 1 \in Nat
    BY <1>3, <1>4, <2>1
  <2>3. Begun(f, adding[t].line - 1) /\ Silent(f)
    BY <1>3, <1>4, <1>10 DEF HeaderOf
  <2>4. PICK T \in SUBSET Threads : T = {}
    OBVIOUS
  <2> QED  BY <1>5, <1>11, <2>2, <2>3, <2>4, AddsKeeps
<1>13. Durable(g)
  <2>1. HeaderEntries(g) \subseteq 1..Len(f.printed)
    BY <1>5 DEF HeaderEntries, Stream
  <2> QED  BY <1>5, <2>1 DEF Durable
<1>14. HeaderOf(g)'
  BY <1>5, <1>8, <1>12, <1>13 DEF HeaderOf, Done
<1>15. adding'[t].at \in Late /\ adding[t].at \in Late /\ g.mode = File(n).mode
  BY <1>1, <1>4, <1>5, <1>8 DEF Late, File
<1> QED  BY <1>0, <1>1, <1>5, <1>6, <1>8, <1>9, <1>14, <1>15, OnOwnStream

(* "Logging to ..." after the whole header, and add_file returns. *)
LEMMA NextAnnounce ==
  ASSUME FileInv, NEW t \in Threads, Announce(t)
  PROVE  FileInv'
<1>0. PICK n, fs : n = adding[t].stream /\ fs = LogOf(t, streams)
  OBVIOUS
<1>1. /\ streams \in Seq(Stream) /\ adding \in [Threads -> Call] /\ adding[t].at = "announce"
      /\ s_callbacks \in Seq(Nat) /\ messages \in Nat /\ Len(streams) \in Nat
      /\ s_callbacks' = s_callbacks /\ messages' = messages /\ adding' = [adding EXCEPT ![t] = Idle]
  BY DEF FileInv, LTypeOK, Announce, At
<1>2. HasFile(t, adding[t])
  BY <1>1, CallIs DEF FileInv, StreamInv, Late
<1>3. /\ n \in 1..Len(streams) /\ streams[n].by = t /\ streams[n].mode = adding[t].mode
      /\ ~streams[n].ready /\ streams[n].open /\ n \in Range(s_callbacks)
      /\ adding[t].line = Len(Header(adding[t].mode)) + 1
      /\ streams[n] \in Stream /\ n \in Nat
  BY <1>0, <1>1, <1>2 DEF HasFile, File
<1>4. Logged({t}, streams, fs)
  BY <1>0, <1>1, LogOfLogs
<1>5. /\ fs \in Seq(Stream) /\ Len(fs) = Len(streams)
      /\ \A s \in 1..Len(streams) :
           /\ Adds({t}, streams[s], fs[s]) /\ fs[s] \in Stream
           /\ fs[s].ready = streams[s].ready /\ fs[s].open = streams[s].open
           /\ fs[s].by = streams[s].by /\ fs[s].mode = streams[s].mode
           /\ s \notin Range(s_callbacks) => fs[s] = streams[s]
  BY <1>4 DEF Logged, Adds
<1>6. PICK f, h, g : f = streams[n] /\ h = fs[n] /\ g = [h EXCEPT !.ready = TRUE]
  OBVIOUS
<1>7. /\ f \in Stream /\ h \in Stream /\ Adds({t}, f, h) /\ f.by = t /\ h.by = t
      /\ h.mode = f.mode /\ h.open /\ f.mode = adding[t].mode /\ ~f.ready
  BY <1>3, <1>5, <1>6
<1>8. /\ g \in Stream /\ g.ready /\ g.open /\ g.by = h.by /\ g.mode = h.mode
      /\ g.printed = h.printed /\ g.flushed = h.flushed
  BY <1>6, <1>7 DEF Stream
<1>9. /\ streams' \in Seq(Stream) /\ Len(streams') = Len(streams) /\ streams'[n] = g
      /\ \A s \in 1..Len(streams) \ {n} : streams'[s] = fs[s]
  <2>1. streams' = [fs EXCEPT ![n] = g]
    BY <1>0, <1>6 DEF Announce
  <2> QED  BY <1>3, <1>5, <1>8, <2>1
<1>10. Idle \in Call /\ NoFile(Idle) /\ Idle.at \in Early /\ Idle.stream = Nothing
  BY DEF Idle, Call, NoFile, Early, Modes, MaybePath
<1>11. /\ adding' \in [Threads -> Call] /\ adding'[t] = Idle
       /\ \A u \in Threads \ {t} : adding'[u] = adding[u]
  BY <1>1, <1>10
<1>12. HeaderOf(g)'
  <2>1. HeaderOf(f) /\ Done(f) = Len(Header(f.mode)) /\ Len(Header(f.mode)) \in Nat
    <3>1. f.mode \in Modes
      BY <1>7 DEF Stream
    <3>2. Len(Header(f.mode)) \in Nat
      BY <3>1, HeaderType
    <3> QED  BY <1>3, <1>6, <1>7, <3>2 DEF FileInv, HeaderInv, File, Done
  <2>2. Begun(f, Len(Header(f.mode))) /\ Durable(f) /\ Silent(f)
    BY <1>1, <1>7, <2>1 DEF HeaderOf
  <2>3. /\ HeaderEntries(h) = HeaderEntries(f) /\ Begun(h, Len(Header(f.mode))) /\ Durable(h)
    BY <1>7, <2>1, <2>2, AddsKeeps
  <2>4. Adds({t}, h, g)
    BY <1>7, <1>8 DEF Adds, Stream
  <2>5. HeaderEntries(g) = HeaderEntries(f) /\ Begun(g, Len(Header(f.mode))) /\ Durable(g)
    BY <1>7, <2>1, <2>3, <2>4, AddsKeeps
  <2>6. After(g)
    <3> SUFFICES ASSUME NEW i \in 1..Len(g.printed), Own(g, g.printed[i]),
                        NEW k \in HeaderEntries(f)
                 PROVE  k < i
      BY <2>5 DEF After
    <3>1. /\ Len(f.printed) \in Nat /\ Len(g.printed) \in Nat /\ k \in 1..Len(f.printed)
          /\ \A j \in 1..Len(f.printed) : g.printed[j] = f.printed[j]
      BY <1>7, <1>8 DEF HeaderEntries, Stream, Adds
    <3>2. i \notin 1..Len(f.printed)
      BY <1>7, <1>8, <2>2, <3>1 DEF Silent, Own
    <3> QED  BY <3>1, <3>2
  <2> QED  BY <1>7, <1>8, <2>5, <2>6 DEF HeaderOf, Done
<1>13. Adders'
  <2>1. \A u \in Threads \ {t} :
          (IF adding[u].at \in Early THEN NoFile(adding[u]) ELSE HasFile(u, adding[u]))'
    <3>1. Len(streams') \in Nat /\ Len(streams) <= Len(streams')
      BY <1>1, <1>9
    <3>2. \A s \in 1..Len(streams) : adding[t].stream # s => streams'[s] = fs[s]
      BY <1>0, <1>9
    <3>3. \A s \in 1..Len(streams) : adding[t].stream # s =>
            /\ streams'[s].by = streams[s].by /\ streams'[s].mode = streams[s].mode
            /\ streams'[s].ready = streams[s].ready /\ streams'[s].open = streams[s].open
      BY <1>5, <3>2
    <3> QED  BY <1>1, <1>11, <3>1, <3>3, OthersStay
  <2>2. (IF adding[t].at \in Early THEN NoFile(adding[t]) ELSE HasFile(t, adding[t]))'
    BY <1>10, <1>11 DEF NoFile
  <2> QED  BY <2>1, <2>2 DEF Adders
<1>14. Once'
  BY <1>1, <1>9 DEF Once, FileInv, StreamInv
<1>15. ASSUME NEW s \in 1..Len(streams) PROVE Unready(s)' /\ Kept(s)' /\ HeaderOf(File(s))'
  <2>1. CASE s = n
    <3>1. File(s)' = g
      BY <1>9, <2>1 DEF File
    <3> QED  BY <1>1, <1>3, <1>8, <1>12, <2>1, <3>1 DEF Unready, Kept
  <2>2. CASE s # n
    <3>1. /\ streams'[s] = fs[s] /\ Adds({t}, streams[s], streams'[s])
          /\ streams'[s].by = streams[s].by /\ streams'[s].ready = streams[s].ready
          /\ streams'[s].open = streams[s].open
          /\ s \notin Range(s_callbacks) => streams'[s] = streams[s]
      BY <1>5, <1>9, <2>2
    <3>2. Unready(s)' /\ (~File(s).ready => File(s).by \in Threads \ {t})
      BY <1>0, <1>11, <2>2, <3>1, OthersUnready
    <3>3. BeingAdded(s) => BeingAdded(s)'
      BY <1>0, <1>11, <2>2 DEF BeingAdded
    <3>4. Kept(s)'
      BY <1>1, <3>1, <3>3 DEF Kept, File, FileInv, StreamInv
    <3>5. ~File(s).ready => File(s).by \notin {t} /\ adding'[File(s).by] = adding[File(s).by]
      BY <1>11, <3>2
    <3>6. HeaderOf(File(s))'
      <4>1. PICK T \in SUBSET Threads : T = {t}
        OBVIOUS
      <4> QED  BY <3>1, <3>5, <4>1, HeaderKept
    <3> QED  BY <3>2, <3>4, <3>6
  <2> QED  BY <2>1, <2>2
<1> QED  BY <1>1, <1>9, <1>11, <1>13, <1>14, <1>15 DEF FileInv, StreamInv, HeaderInv, LTypeOK

(* Streams that are closed, and no callbacks any more. *)
LEMMA Closes ==
  ASSUME FileInv, NEW R \in SUBSET Range(s_callbacks), \A s \in R : ~BeingAdded(s),
         streams' = [s \in DOMAIN streams |-> IF s \in R THEN Closed(streams[s]) ELSE streams[s]],
         s_callbacks' \in Seq(Nat), Range(s_callbacks') = Range(s_callbacks) \ R,
         \A j, k \in 1..Len(s_callbacks') : s_callbacks'[j] = s_callbacks'[k] => j = k,
         adding' = adding, messages' = messages
  PROVE  FileInv'
<1>1. /\ streams \in Seq(Stream) /\ adding \in [Threads -> Call] /\ messages \in Nat
      /\ DOMAIN streams = 1..Len(streams) /\ Len(streams) \in Nat
      /\ \A s \in 1..Len(streams) : streams[s] \in Stream
  BY DEF FileInv, LTypeOK
<1>2. ASSUME NEW s \in 1..Len(streams)
      PROVE  /\ streams'[s] \in Stream /\ Adds({}, streams[s], streams'[s])
             /\ streams'[s].ready = streams[s].ready
             /\ streams'[s].by = streams[s].by /\ streams'[s].mode = streams[s].mode
             /\ s \notin R => streams'[s] = streams[s]
             /\ s \in R => /\ ~streams'[s].open
                           /\ streams'[s].flushed = Len(streams'[s].printed)
  <2>1. streams'[s] = IF s \in R THEN Closed(streams[s]) ELSE streams[s]
    BY <1>1
  <2>2. PICK T \in SUBSET Threads : T = {}
    OBVIOUS
  <2>3. Adds({}, streams[s], streams[s]) /\ Adds({}, streams[s], Closed(streams[s]))
    BY <1>1, <2>2, AddsNothing
  <2>4. CASE s \in R
    <3>1. streams'[s] = Closed(streams[s]) /\ streams[s] \in Stream
      BY <1>1, <2>1, <2>4
    <3>2. /\ Closed(streams[s]) \in Stream /\ ~Closed(streams[s]).open
          /\ Closed(streams[s]).printed = streams[s].printed
          /\ Closed(streams[s]).flushed = Len(streams[s].printed)
          /\ Closed(streams[s]).ready = streams[s].ready
          /\ Closed(streams[s]).by = streams[s].by /\ Closed(streams[s]).mode = streams[s].mode
      BY <3>1, ClosedIs
    <3> QED  BY <2>3, <2>4, <3>1, <3>2
  <2>5. CASE s \notin R
    BY <1>1, <2>1, <2>3, <2>5
  <2> QED  BY <2>4, <2>5
<1>3. streams' \in Seq(Stream) /\ Len(streams') = Len(streams)
  <2>1. streams' \in [1..Len(streams) -> Stream]
    BY <1>1, <1>2
  <2> QED  BY <1>1, <2>1
<1>4. ASSUME NEW s \in R PROVE s \in 1..Len(streams) => File(s).ready
  BY <1>4, UnreadyIs DEF FileInv, BeingAdded
<1>5. Adders'
  <2> SUFFICES ASSUME NEW u \in Threads
               PROVE  (IF adding[u].at \in Early THEN NoFile(adding[u])
                                                 ELSE HasFile(u, adding[u]))'
    BY DEF Adders
  <2>1. CASE adding[u].at \in Early
    BY <2>1 DEF FileInv, StreamInv, Adders
  <2>2. CASE adding[u].at \notin Early
    <3>1. HasFile(u, adding[u])
      BY <2>2 DEF FileInv, StreamInv, Adders
    <3>2. PICK a, n : a = adding[u] /\ n = a.stream
      OBVIOUS
    <3>3. n \in 1..Len(streams) /\ ~File(n).ready
      BY <3>1, <3>2 DEF HasFile
    <3>4. n \notin R
      BY <1>4, <3>3
    <3>5. streams'[n] = streams[n] /\ (n \in Range(s_callbacks') <=> n \in Range(s_callbacks))
      BY <1>2, <3>3, <3>4
    <3>6. HasFile(u, a)' /\ a = adding'[u]
      BY <1>3, <3>1, <3>2, <3>3, <3>5 DEF HasFile, File
    <3> QED  BY <2>2, <3>2, <3>6
  <2> QED  BY <2>1, <2>2
<1>6. Once'
  <2>1. \A k \in 1..Len(s_callbacks') : s_callbacks'[k] \in Range(s_callbacks)
    <3>1. DOMAIN s_callbacks' = 1..Len(s_callbacks')
      OBVIOUS
    <3> QED  BY <3>1 DEF Range
  <2>2. Range(s_callbacks) \subseteq 1..Len(streams)
    <3>1. DOMAIN s_callbacks = 1..Len(s_callbacks)
      BY DEF FileInv, LTypeOK
    <3> QED  BY <3>1 DEF Range, FileInv, StreamInv, Once
  <2> QED  BY <1>3, <2>1, <2>2 DEF Once
<1>7. ASSUME NEW s \in 1..Len(streams) PROVE Unready(s)' /\ Kept(s)' /\ HeaderOf(File(s))'
  <2>1. Unready(s) /\ Kept(s) /\ File(s) = streams[s] /\ File(s)' = streams'[s]
    BY DEF FileInv, StreamInv, File
  <2>2. BeingAdded(s)' <=> BeingAdded(s)
    BY DEF BeingAdded
  <2>3. Unready(s)'
    BY <1>2, <2>1, ZenonT(60) DEF Unready
  <2>4. Kept(s)'
    <3>1. CASE s \in R
      BY <1>2, <2>1, <3>1 DEF Kept
    <3>2. CASE s \notin R
      <4>1. streams'[s] = streams[s] /\ (s \in Range(s_callbacks') <=> s \in Range(s_callbacks))
        BY <1>2, <3>2
      <4> QED  BY <2>1, <2>2, <4>1 DEF Kept
    <3> QED  BY <3>1, <3>2
  <2>5. HeaderOf(File(s))'
    BY <1>2, HeaderStays
  <2> QED  BY <2>3, <2>4, <2>5
<1> QED  BY <1>1, <1>3, <1>5, <1>6, <1>7 DEF FileInv, StreamInv, HeaderInv, LTypeOK

(* remove_callback and remove_all_callbacks. *)
LEMMA NextRemove ==
  ASSUME FileInv, NEW t \in Threads, RemoveCallback(t) \/ RemoveAllCallbacks(t)
  PROVE  FileInv'
<1>1. /\ streams \in Seq(Stream) /\ s_callbacks \in Seq(Nat)
      /\ DOMAIN s_callbacks = 1..Len(s_callbacks) /\ DOMAIN streams = 1..Len(streams)
      /\ adding' = adding /\ messages' = messages
  BY DEF FileInv, LTypeOK, RemoveCallback, RemoveAllCallbacks
<1>2. \A j, k \in 1..Len(s_callbacks) :
        s_callbacks[j] \in 1..Len(streams) /\ (s_callbacks[j] = s_callbacks[k] => j = k)
  BY DEF FileInv, StreamInv, Once
<1>3. CASE RemoveCallback(t)
  <2>1. PICK k \in 1..Len(s_callbacks) :
          /\ ~BeingAdded(s_callbacks[k])
          /\ streams' = [streams EXCEPT ![s_callbacks[k]] = Closed(@)]
          /\ s_callbacks' = RemoveAt(s_callbacks, k)
    BY <1>1, <1>3 DEF RemoveCallback
  <2>2. PICK R : R = {s_callbacks[k]}
    OBVIOUS
  <2>3. R \in SUBSET Range(s_callbacks) /\ \A s \in R : ~BeingAdded(s)
    BY <1>1, <2>1, <2>2 DEF Range
  <2>4. streams' = [s \in DOMAIN streams |-> IF s \in R THEN Closed(streams[s]) ELSE streams[s]]
    BY <1>1, <1>2, <2>1, <2>2
  <2>5. /\ s_callbacks' \in Seq(Nat) /\ Range(s_callbacks') = Range(s_callbacks) \ R
        /\ \A i, j \in 1..Len(s_callbacks') : s_callbacks'[i] = s_callbacks'[j] => i = j
    <3>1. \A i, j \in 1..Len(s_callbacks) : s_callbacks[i] = s_callbacks[j] => i = j
      BY <1>2
    <3> QED  BY <1>1, <2>1, <2>2, <3>1, RemoveAtOnce
  <2> QED  BY <1>1, <2>3, <2>4, <2>5, Closes
<1>4. CASE RemoveAllCallbacks(t)
  <2>1. PICK R : R = Range(s_callbacks)
    OBVIOUS
  <2>2. /\ \A s \in R : ~BeingAdded(s) /\ s_callbacks' = <<>>
        /\ streams' = [s \in DOMAIN streams |-> IF s \in R THEN Closed(streams[s]) ELSE streams[s]]
    BY <1>4, <2>1 DEF RemoveAllCallbacks, File
  <2>3. s_callbacks' = <<>>
    BY <1>4 DEF RemoveAllCallbacks
  <2>4. /\ s_callbacks' \in Seq(Nat) /\ Range(s_callbacks') = Range(s_callbacks) \ R
        /\ \A i, j \in 1..Len(s_callbacks') : s_callbacks'[i] = s_callbacks'[j] => i = j
    BY <2>1, <2>3 DEF Range
  <2> QED  BY <1>1, <2>1, <2>2, <2>4, Closes
<1> QED  BY <1>3, <1>4

-----------------------------------------------------------------------------
(* The inductive invariant: at the start there is no stream, and every step *)
(* keeps it.                                                                *)
THEOREM FileInvariant == Spec => []FileInv
<1>1. Init => FileInv
  <2> SUFFICES ASSUME Init PROVE FileInv
    OBVIOUS
  <2>1. /\ streams = <<>> /\ s_callbacks = <<>> /\ messages = 0
        /\ adding = [t \in Threads |-> Idle]
    BY DEF Init
  <2>2. Idle \in Call /\ NoFile(Idle) /\ Idle.at \in Early
    BY DEF Idle, Call, NoFile, Early, Modes, MaybePath
  <2>3. LTypeOK /\ Adders
    BY <2>1, <2>2 DEF LTypeOK, Adders
  <2>4. Once /\ \A s \in 1..Len(streams) : FALSE
    BY <2>1 DEF Once
  <2> QED  BY <2>3, <2>4 DEF FileInv, StreamInv, HeaderInv
<1>2. FileInv /\ [Next]_lvars => FileInv'
  <2> SUFFICES ASSUME FileInv, [Next]_lvars PROVE FileInv'
    OBVIOUS
  <2>1. ASSUME NEW t \in Threads,
               Log(t) \/ AddFile(t) \/ CreateDirectories(t) \/ FopenFails(t)
        PROVE  FileInv'
    BY <2>1, NextQuiet
  <2>2. ASSUME NEW t \in Threads,
               Fopen(t) \/ AddCallback(t) \/ PrintHeader(t) \/ FlushHeader(t) \/ Announce(t)
        PROVE  FileInv'
    BY <2>2, NextFopen, NextAddCallback, NextPrintHeader, NextFlushHeader, NextAnnounce
  <2>3. ASSUME NEW t \in Threads, RemoveCallback(t) \/ RemoveAllCallbacks(t) PROVE FileInv'
    BY <2>3, NextRemove
  <2>4. CASE FlushAll
    BY <2>4, FlushKeeps
  <2>5. CASE UNCHANGED lvars
    BY <2>5 DEF lvars, FileInv, LTypeOK, StreamInv, Adders, NoFile, HasFile, Unready, Once, Kept,
                BeingAdded, HeaderInv, HeaderOf, Done, File
  <2> QED  BY <2>1, <2>2, <2>3, <2>4, <2>5 DEF Next
<1> QED  BY <1>1, <1>2, PTL DEF Spec

(* When add_file has returned, its header is in the file as a whole, in     *)
(* order and durable, before all that its own thread logs.                  *)
THEOREM HeaderWholeCorrect == Spec => []HeaderWhole
<1>1. FileInv => HeaderWhole
  <2> SUFFICES ASSUME FileInv, NEW s \in Ready
               PROVE  LET f == File(s)
                      IN /\ Begun(f, Len(Header(f.mode)))
                         /\ \A n \in HeaderEntries(f) : n <= f.flushed
                         /\ \A n \in DOMAIN f.printed :
                              f.printed[n] = [text |-> "message", by |-> f.by]
                                => \A k \in HeaderEntries(f) : k < n
    BY DEF HeaderWhole
  <2>1. PICK f : f = File(s)
    OBVIOUS
  <2>2. s \in 1..Len(streams) /\ f \in Stream /\ f.ready
    BY <2>1 DEF Ready, FileInv, LTypeOK, File
  <2>3. HeaderOf(f)
    BY <2>1, <2>2 DEF FileInv, HeaderInv
  <2>4. Begun(f, Len(Header(f.mode))) /\ Durable(f) /\ After(f)
    BY <2>2, <2>3 DEF HeaderOf, Done
  <2>5. DOMAIN f.printed = 1..Len(f.printed)
    BY <2>2 DEF Stream
  <2> QED  BY <2>1, <2>4, <2>5 DEF Durable, After, Own
<1> QED  BY <1>1, FileInvariant, PTL

(* An open stream is a callback or its add_file runs; a closed one is none, *)
(* and all of it is on disk.                                                *)
THEOREM NoStreamLostCorrect == Spec => []NoStreamLost
<1>1. FileInv => NoStreamLost
  <2>1. FileInv => DOMAIN streams = 1..Len(streams)
    BY DEF FileInv, LTypeOK
  <2> QED  BY <2>1 DEF FileInv, StreamInv, Kept, NoStreamLost
<1> QED  BY <1>1, FileInvariant, PTL

=============================================================================
