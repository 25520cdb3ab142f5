---------------------------- MODULE FileAbsProofs ---------------------------
(***************************************************************************)
(* file_reopen logs into the file it is reopening, and into others that it *)
(* may have to reopen too: that this neither recurses nor touches a closed *)
(* stream, that no message is lost by it, and that no moved file stays     *)
(* unnoticed, for any number of files, moved at any moment.                *)
(***************************************************************************)
EXTENDS FileAbs, FiniteSetTheorems, TLAPS

File(n)  == Order[stack[n].k]
Places   == {"file_log", "mkdir", "mkdir_failed", "fopen", "stat", "print", "flush"}
Frame    == [msg : Nat, k : 1..Len(Order), at : Places]
Closing  == {"mkdir", "mkdir_failed", "fopen"}
ReopenAt == Closing \cup {"stat"}

FTypeOK ==
  /\ stack \in Seq(Frame) /\ calls \in Nat
  /\ closed \in [Files -> BOOLEAN]
  /\ is_reopening \in [Files -> BOOLEAN]

(***************************************************************************)
(* A call of log_message that waits for one above it, or is inside         *)
(* file_reopen, has marked its file, and no call above it does more with   *)
(* that file than find the mark.  So a stream is closed only while the one *)
(* call that closed it is still to open it again.                          *)
(***************************************************************************)
Marked == \A n \in 1..Len(stack) :
            stack[n].at \in ReopenAt \/ n < Len(stack) => is_reopening[File(n)]
Passed == \A n, m \in 1..Len(stack) :
            n < m /\ File(n) = File(m) => stack[m].at \in {"file_log", "flush"}
Reopened == \A f \in Files : closed[f] =>
              \E n \in 1..Len(stack) : File(n) = f /\ stack[n].at \in Closing
Unmarked == \A f \in Files : is_reopening[f] =>
              \E n \in 1..Len(stack) :
                File(n) = f /\ stack[n].at \in ReopenAt \cup {"print"}

ReopenInv == Marked /\ Passed /\ Reopened /\ Unmarked

(* The paths in s_callbacks belong to files, and there is one. *)
LEMMA OrderType ==
  1 \in 1..Len(Order) /\ \A k \in 1..Len(Order) : Order[k] \in Files
<1>1. Order \in Seq(Files) /\ {Order[k] : k \in DOMAIN Order} # {}
  BY FilesAssumption DEF Range
<1>2. DOMAIN Order = 1..Len(Order) /\ Len(Order) \in Nat
  BY <1>1
<1>3. PICK k \in 1..Len(Order) : TRUE
  BY <1>1, <1>2
<1> QED  BY <1>1, <1>2, <1>3

(* A sequence that is not empty is what is before its last element, and that. *)
LEMMA FrontIs ==
  ASSUME NEW S, NEW s \in Seq(S), s # <<>>
  PROVE  /\ Len(s) \in Nat \ {0}
         /\ Front(s) \in Seq(S) /\ Len(Front(s)) = Len(s) - 1
         /\ \A n \in 1..(Len(s) - 1) : Front(s)[n] = s[n]
         /\ Last(s) = s[Len(s)] /\ Last(s) \in S
<1>1. Len(s) \in Nat \ {0} /\ Last(s) = s[Len(s)]
  BY DEF Last
<1>2. Front(s) = SubSeq(s, 1, Len(s) - 1)
  BY DEF Front
<1>3. s[Len(s)] \in S
  BY <1>1
<1>4. ASSUME NEW k \in Nat, k < Len(s)
      PROVE  /\ SubSeq(s, 1, k) \in Seq(S) /\ Len(SubSeq(s, 1, k)) = k
             /\ \A n \in 1..k : SubSeq(s, 1, k)[n] = s[n]
  BY <1>4
<1>5. Len(s) - 1 \in Nat /\ Len(s) - 1 < Len(s)
  BY <1>1
<1>6. /\ SubSeq(s, 1, Len(s) - 1) \in Seq(S) /\ Len(SubSeq(s, 1, Len(s) - 1)) = Len(s) - 1
      /\ \A n \in 1..(Len(s) - 1) : SubSeq(s, 1, Len(s) - 1)[n] = s[n]
  BY ONLY <1>4, <1>5
<1> QED  BY <1>1, <1>2, <1>3, <1>6

(* Two elements are added. *)
LEMMA TwoMore ==
  ASSUME NEW S, NEW s \in Seq(S), NEW a \in S, NEW b \in S
  PROVE  /\ s \o <<a, b>> \in Seq(S) /\ Len(s \o <<a, b>>) = Len(s) + 2
         /\ \A n \in 1..Len(s) : (s \o <<a, b>>)[n] = s[n]
         /\ (s \o <<a, b>>)[Len(s) + 1] = a /\ (s \o <<a, b>>)[Len(s) + 2] = b
<1>1. <<a, b>> \in Seq(S) /\ Len(<<a, b>>) = 2
  OBVIOUS
<1> QED  BY <1>1

(* A call works for the file at its place in s_callbacks. *)
LEMMA FileType ==
  ASSUME FTypeOK, NEW n \in 1..Len(stack)
  PROVE  stack[n] \in Frame /\ File(n) \in Files
<1>1. stack[n] \in Frame
  BY DEF FTypeOK
<1> QED  BY <1>1, OrderType DEF Frame, File

(* The innermost call. *)
LEMMA TopIs ==
  ASSUME FTypeOK, Busy
  PROVE  /\ Len(stack) \in Nat \ {0} /\ Top = stack[Len(stack)] /\ Top \in Frame
         /\ Here = File(Len(stack)) /\ Here \in Files
<1>1. /\ Len(stack) \in Nat \ {0} /\ Top = stack[Len(stack)] /\ Top \in Frame
  BY FrontIs DEF FTypeOK, Busy, Top
<1> QED  BY <1>1, OrderType DEF Frame, File, Here

(* It goes on. *)
LEMMA GotoIs ==
  ASSUME FTypeOK, Busy, NEW l \in Places, Goto(l)
  PROVE  /\ stack' \in Seq(Frame) /\ Len(stack') = Len(stack)
         /\ \A n \in 1..(Len(stack) - 1) : stack'[n] = stack[n]
         /\ stack'[Len(stack)].k = Top.k /\ stack'[Len(stack)].at = l
         /\ stack'[Len(stack)].msg = Top.msg
<1>1. PICK top : top = [Top EXCEPT !.at = l]
  OBVIOUS
<1>2. top \in Frame /\ top.k = Top.k /\ top.at = l /\ top.msg = Top.msg
  BY TopIs, <1>1 DEF Frame
<1>3. stack' = Append(Front(stack), top)
  BY <1>1 DEF Goto
<1>4. /\ Len(stack) \in Nat \ {0}
      /\ Front(stack) \in Seq(Frame) /\ Len(Front(stack)) = Len(stack) - 1
      /\ \A n \in 1..(Len(stack) - 1) : Front(stack)[n] = stack[n]
  BY FrontIs DEF FTypeOK, Busy
<1> HIDE DEF Frame
<1> QED  BY <1>2, <1>3, <1>4

(* It goes on after a call of log_message that is made now. *)
LEMMA LogThenGoIs ==
  ASSUME FTypeOK, Busy, NEW l \in Places, LogThenGo(l)
  PROVE  /\ stack' \in Seq(Frame) /\ Len(stack') = Len(stack) + 1
         /\ \A n \in 1..(Len(stack) - 1) : stack'[n] = stack[n]
         /\ stack'[Len(stack)].k = Top.k /\ stack'[Len(stack)].at = l
         /\ stack'[Len(stack)].msg = Top.msg
         /\ stack'[Len(stack) + 1].at = "file_log" /\ stack'[Len(stack) + 1].msg = 0
<1>1. PICK top : top = [Top EXCEPT !.at = l]
  OBVIOUS
<1>2. top \in Frame /\ top.k = Top.k /\ top.at = l /\ top.msg = Top.msg
  BY TopIs, <1>1 DEF Frame
<1>3. PICK call : call = NewCall(0)
  OBVIOUS
<1>4. call \in Frame /\ call.at = "file_log" /\ call.msg = 0
  BY <1>3, OrderType DEF NewCall, Frame, Places
<1>5. stack' = Front(stack) \o <<top, call>>
  BY <1>1, <1>3 DEF LogThenGo
<1>6. /\ Len(stack) \in Nat \ {0}
      /\ Front(stack) \in Seq(Frame) /\ Len(Front(stack)) = Len(stack) - 1
      /\ \A n \in 1..(Len(stack) - 1) : Front(stack)[n] = stack[n]
  BY FrontIs DEF FTypeOK, Busy
<1>7. /\ stack' \in Seq(Frame) /\ Len(stack') = Len(Front(stack)) + 2
      /\ \A n \in 1..Len(Front(stack)) : stack'[n] = Front(stack)[n]
      /\ stack'[Len(Front(stack)) + 1] = top /\ stack'[Len(Front(stack)) + 2] = call
  <2>1. /\ Front(stack) \o <<top, call>> \in Seq(Frame)
        /\ Len(Front(stack) \o <<top, call>>) = Len(Front(stack)) + 2
        /\ \A n \in 1..Len(Front(stack)) :
             (Front(stack) \o <<top, call>>)[n] = Front(stack)[n]
        /\ (Front(stack) \o <<top, call>>)[Len(Front(stack)) + 1] = top
        /\ (Front(stack) \o <<top, call>>)[Len(Front(stack)) + 2] = call
    BY ONLY <1>2, <1>4, <1>6, TwoMore
  <2> QED  BY <1>5, <2>1
<1> QED  BY <1>2, <1>4, <1>6, <1>7, SMTT(40)

(* What a step of the innermost call, which is then at l, may do to the mark *)
(* and the stream of its file ...                                            *)
TopGoes(l) ==
  LET d == Len(stack)
      f == File(d)
  IN /\ d > 0 /\ Len(stack') \in {d, d + 1}
     /\ \A n \in 1..(d - 1) : stack'[n] = stack[n]
     /\ stack'[d].k = stack[d].k /\ stack'[d].at = l
     /\ Len(stack') = d + 1 => stack'[d + 1].at = "file_log"
     /\ l \in {"file_log", "flush"} \/ \A n \in 1..(d - 1) : File(n) # f
     /\ \A g \in Files \ {f} : is_reopening'[g] = is_reopening[g] /\ closed'[g] = closed[g]
     /\ l \in ReopenAt \/ Len(stack') = d + 1 => is_reopening'[f]
     /\ is_reopening[f] => is_reopening'[f] \/ \A n \in 1..(d - 1) : File(n) # f
     /\ is_reopening'[f] => \/ l \in ReopenAt \cup {"print"}
                            \/ is_reopening[f] /\ stack[d].at = "file_log"
     /\ closed'[f] => \/ l \in Closing
                      \/ closed[f] /\ stack[d].at \notin Closing

(* ... so that the invariant is kept. *)
LEMMA TopStep ==
  ASSUME FTypeOK, FTypeOK', ReopenInv, NEW l, TopGoes(l)
  PROVE  ReopenInv'
<1>0. PICK d, f : d = Len(stack) /\ f = File(d)
  OBVIOUS
<1>a. /\ d > 0 /\ Len(stack') \in {d, d + 1}
      /\ \A n \in 1..(d - 1) : stack'[n] = stack[n]
      /\ stack'[d].k = stack[d].k /\ stack'[d].at = l
      /\ Len(stack') = d + 1 => stack'[d + 1].at = "file_log"
  BY <1>0 DEF TopGoes
<1>b. /\ l \in {"file_log", "flush"} \/ \A n \in 1..(d - 1) : File(n) # f
      /\ \A g \in Files \ {f} : is_reopening'[g] = is_reopening[g] /\ closed'[g] = closed[g]
      /\ l \in ReopenAt \/ Len(stack') = d + 1 => is_reopening'[f]
      /\ is_reopening[f] => is_reopening'[f] \/ \A n \in 1..(d - 1) : File(n) # f
      /\ is_reopening'[f] => \/ l \in ReopenAt \cup {"print"}
                             \/ is_reopening[f] /\ stack[d].at = "file_log"
      /\ closed'[f] => \/ l \in Closing
                       \/ closed[f] /\ stack[d].at \notin Closing
  BY <1>0 DEF TopGoes
<1>1. /\ d \in Nat /\ Len(stack') \in Nat /\ f \in Files
      /\ \A n \in 1..(d - 1) : File(n)' = File(n) /\ n \in 1..Len(stack) /\ n \in 1..Len(stack')
      /\ File(d)' = f /\ d \in 1..Len(stack) /\ d \in 1..Len(stack')
      /\ \A n \in 1..Len(stack') : n \in 1..(d - 1) \/ n = d \/ (n = d + 1 /\ stack'[n].at = "file_log")
  BY <1>0, <1>a, FileType DEF FTypeOK, File
<1>2. \A n \in 1..(d - 1) : is_reopening[File(n)] /\ File(n) \in Files
  BY <1>0, <1>1, FileType DEF ReopenInv, Marked
<1>3. Marked'
  <2> SUFFICES ASSUME NEW n \in 1..Len(stack'), stack'[n].at \in ReopenAt \/ n < Len(stack')
               PROVE  is_reopening'[File(n)']
    BY DEF Marked
  <2>1. CASE n \in 1..(d - 1)
    BY <1>a, <1>b, <1>1, <1>2, <2>1
  <2>2. CASE n = d
    BY <1>0, <1>a, <1>b, <1>1, <2>2
  <2>3. CASE n = d + 1 /\ stack'[n].at = "file_log"
    BY <1>a, <1>b, <1>1, <2>3 DEF ReopenAt, Closing
  <2> QED  BY <1>1, <2>1, <2>2, <2>3
<1>4. Passed'
  <2> SUFFICES ASSUME NEW n \in 1..Len(stack'), NEW m \in 1..Len(stack'),
                      n < m, File(n)' = File(m)'
               PROVE  stack'[m].at \in {"file_log", "flush"}
    BY DEF Passed
  <2>1. CASE m \in 1..(d - 1)
    <3>1. n \in 1..(d - 1)
      BY <1>1, <2>1
    <3>2. /\ stack'[m] = stack[m] /\ File(n) = File(m)
          /\ n \in 1..Len(stack) /\ m \in 1..Len(stack)
      BY <1>a, <1>1, <2>1, <3>1
    <3> QED  BY <3>2 DEF ReopenInv, Passed
  <2>2. CASE m = d
    <3>1. n \in 1..(d - 1)
      BY <1>1, <2>2
    <3> QED  BY <1>a, <1>b, <1>1, <2>2, <3>1
  <2>3. CASE m = d + 1 /\ stack'[m].at = "file_log"
    BY <2>3
  <2> QED  BY <1>1, <2>1, <2>2, <2>3
<1>5. Reopened'
  <2> SUFFICES ASSUME NEW g \in Files, closed'[g]
               PROVE  \E n \in 1..Len(stack') : File(n)' = g /\ stack'[n].at \in Closing
    BY DEF Reopened
  <2>1. CASE g = f /\ l \in Closing
    BY <1>a, <1>1, <2>1
  <2>2. CASE g # f \/ l \notin Closing
    <3>1. closed[g] /\ (g = f => stack[d].at \notin Closing)
      BY <1>b, <2>2
    <3>2. PICK n \in 1..Len(stack) : File(n) = g /\ stack[n].at \in Closing
      BY <3>1 DEF ReopenInv, Reopened
    <3>3. n \in 1..(d - 1)
      BY <1>0, <1>1, <3>1, <3>2
    <3> QED  BY <1>a, <1>1, <3>2, <3>3
  <2> QED  BY <2>1, <2>2
<1>6. Unmarked'
  <2> SUFFICES ASSUME NEW g \in Files, is_reopening'[g]
               PROVE  \E n \in 1..Len(stack') :
                        File(n)' = g /\ stack'[n].at \in ReopenAt \cup {"print"}
    BY DEF Unmarked
  <2>1. CASE g = f /\ l \in ReopenAt \cup {"print"}
    BY <1>a, <1>1, <2>1
  <2>2. CASE g # f \/ l \notin ReopenAt \cup {"print"}
    <3>1. is_reopening[g] /\ (g = f => stack[d].at = "file_log")
      BY <1>b, <2>2
    <3>2. PICK n \in 1..Len(stack) : File(n) = g /\ stack[n].at \in ReopenAt \cup {"print"}
      BY <3>1 DEF ReopenInv, Unmarked
    <3>3. n \in 1..(d - 1)
      BY <1>0, <1>1, <3>1, <3>2 DEF ReopenAt, Closing
    <3> QED  BY <1>a, <1>1, <3>2, <3>3
  <2> QED  BY <2>1, <2>2
<1> QED  BY <1>3, <1>4, <1>5, <1>6 DEF ReopenInv

(* log_message goes on to the next callback, or returns. *)
LEMMA NextCall ==
  ASSUME FTypeOK, ReopenInv, FlushNow
  PROVE  FTypeOK' /\ ReopenInv'
<1> DEFINE d == Len(stack)
<1>1. /\ Busy /\ Top.at = "flush" /\ d \in Nat \ {0} /\ Top = stack[d] /\ Top \in Frame
      /\ UNCHANGED <<closed, is_reopening, calls>>
  BY TopIs DEF FlushNow, At, streams
<1>2. /\ Front(stack) \in Seq(Frame) /\ Len(Front(stack)) = d - 1
      /\ \A n \in 1..(d - 1) : Front(stack)[n] = stack[n]
  BY <1>1, FrontIs DEF FTypeOK, Busy
<1>3. /\ stack' \in Seq(Frame) /\ Len(stack') \in {d - 1, d}
      /\ \A n \in 1..(d - 1) : stack'[n] = stack[n]
      /\ Len(stack') = d => stack'[d].at = "file_log"
  <2>1. CASE MoreFiles
    <3>1. PICK next : next = [Top EXCEPT !.k = @ + 1, !.at = "file_log"]
      OBVIOUS
    <3>2. Len(Order) \in Nat
      BY FilesAssumption
    <3>3. next \in Frame /\ next.at = "file_log"
      <4>1. Top.msg \in Nat /\ Top.k \in 1..Len(Order) /\ Top.k < Len(Order)
        BY <1>1, <2>1 DEF Frame, MoreFiles
      <4>2. next = [msg |-> Top.msg, k |-> Top.k + 1, at |-> "file_log"]
        BY <1>1, <3>1 DEF Frame
      <4>3. Top.k + 1 \in 1..Len(Order)
        BY <3>2, <4>1
      <4> QED  BY <4>1, <4>2, <4>3 DEF Frame, Places
    <3>4. stack' = Append(Front(stack), next)
      BY <2>1, <3>1 DEF FlushNow
    <3> QED  BY <1>1, <1>2, <3>3, <3>4
  <2>2. CASE ~MoreFiles
    <3>1. stack' = Front(stack)
      BY <2>2 DEF FlushNow
    <3> QED  BY <1>1, <1>2, <3>1
  <2> QED  BY <2>1, <2>2
<1>4. FTypeOK'
  BY <1>1, <1>3 DEF FTypeOK
<1>5. /\ \A n \in 1..(d - 1) : /\ n \in 1..Len(stack) /\ n \in 1..Len(stack')
                               /\ File(n)' = File(n) /\ stack'[n] = stack[n]
      /\ \A n \in 1..Len(stack') : n \in 1..(d - 1)
                                    \/ (n = Len(stack') /\ n = d /\ stack'[n].at = "file_log")
      /\ \A n \in 1..Len(stack) : stack[n].at # "flush" => n \in 1..(d - 1)
  <2>1. ASSUME NEW n \in 1..(d - 1)
        PROVE  /\ n \in 1..Len(stack) /\ n \in 1..Len(stack')
               /\ File(n)' = File(n) /\ stack'[n] = stack[n]
    BY <1>1, <1>3 DEF File
  <2>2. ASSUME NEW n \in 1..Len(stack')
        PROVE  n \in 1..(d - 1) \/ (n = Len(stack') /\ n = d /\ stack'[n].at = "file_log")
    BY <1>1, <1>3
  <2>3. ASSUME NEW n \in 1..Len(stack), stack[n].at # "flush" PROVE n \in 1..(d - 1)
    BY <1>1, <2>3
  <2> QED  BY <2>1, <2>2, <2>3
<1>6. Marked'
  <2> SUFFICES ASSUME NEW n \in 1..Len(stack'), stack'[n].at \in ReopenAt \/ n < Len(stack')
               PROVE  is_reopening'[File(n)']
    BY DEF Marked
  <2>1. n \in 1..(d - 1)
    BY <1>5 DEF ReopenAt, Closing
  <2>2. n \in 1..Len(stack) /\ n < Len(stack) /\ File(n)' = File(n)
    BY <1>1, <1>5, <2>1
  <2> QED  BY <1>1, <2>2 DEF ReopenInv, Marked
<1>7. Passed'
  <2> SUFFICES ASSUME NEW n \in 1..Len(stack'), NEW m \in 1..Len(stack'),
                      n < m, File(n)' = File(m)'
               PROVE  stack'[m].at \in {"file_log", "flush"}
    BY DEF Passed
  <2>1. CASE m \in 1..(d - 1)
    <3>1. n \in 1..(d - 1)
      BY <1>5, <2>1
    <3>2. /\ stack'[m] = stack[m] /\ File(n) = File(m)
          /\ n \in 1..Len(stack) /\ m \in 1..Len(stack)
      BY <1>5, <2>1, <3>1
    <3> QED  BY <3>2 DEF ReopenInv, Passed
  <2> QED  BY <1>5, <2>1
<1>8. Reopened'
  <2> SUFFICES ASSUME NEW f \in Files, closed[f]
               PROVE  \E n \in 1..Len(stack') : File(n)' = f /\ stack'[n].at \in Closing
    BY <1>1 DEF Reopened
  <2>1. PICK n \in 1..Len(stack) : File(n) = f /\ stack[n].at \in Closing
    BY DEF ReopenInv, Reopened
  <2>2. n \in 1..(d - 1)
    BY <1>5, <2>1 DEF Closing
  <2> QED  BY <1>5, <2>1, <2>2
<1>9. Unmarked'
  <2> SUFFICES ASSUME NEW f \in Files, is_reopening[f]
               PROVE  \E n \in 1..Len(stack') :
                        File(n)' = f /\ stack'[n].at \in ReopenAt \cup {"print"}
    BY <1>1 DEF Unmarked
  <2>1. PICK n \in 1..Len(stack) : File(n) = f /\ stack[n].at \in ReopenAt \cup {"print"}
    BY DEF ReopenInv, Unmarked
  <2>2. n \in 1..(d - 1)
    BY <1>5, <2>1 DEF ReopenAt, Closing
  <2> QED  BY <1>5, <2>1, <2>2
<1> QED  BY <1>4, <1>6, <1>7, <1>8, <1>9 DEF ReopenInv

(* What the invariant says of the innermost call: past the test of          *)
(* is_reopening no call below it is at the same file, and nothing it writes *)
(* to is closed.                                                            *)
LEMMA TopAlone ==
  ASSUME FTypeOK, ReopenInv, Busy, Top.at \notin {"file_log", "flush"}
  PROVE  /\ \A n \in 1..(Len(stack) - 1) : File(n) # Here
         /\ Top.at \in ReopenAt => is_reopening[Here]
         /\ Top.at = "print" => ~closed[Here]
<1>1. /\ Len(stack) \in Nat \ {0} /\ Top = stack[Len(stack)]
      /\ Here = File(Len(stack)) /\ Here \in Files
  BY TopIs
<1>2. ASSUME NEW n \in 1..(Len(stack) - 1) PROVE File(n) # Here
  <2>1. n \in 1..Len(stack) /\ Len(stack) \in 1..Len(stack) /\ n < Len(stack)
    BY <1>1
  <2> QED  BY <1>1, <2>1 DEF ReopenInv, Passed
<1>3. ASSUME Top.at \in ReopenAt PROVE is_reopening[Here]
  <2>1. Len(stack) \in 1..Len(stack)
    BY <1>1
  <2> QED  BY <1>1, <1>3, <2>1 DEF ReopenInv, Marked
<1>4. ASSUME Top.at = "print", closed[Here] PROVE FALSE
  <2>1. PICK n \in 1..Len(stack) : File(n) = Here /\ stack[n].at \in Closing
    BY <1>1, <1>4 DEF ReopenInv, Reopened
  <2>2. n \in 1..(Len(stack) - 1)
    BY <1>1, <1>4, <2>1 DEF Closing
  <2> QED  BY <1>2, <2>1, <2>2
<1> QED  BY <1>2, <1>3, <1>4

-----------------------------------------------------------------------------
(* Each action keeps the invariant.  LOG_F puts the first call on the stack. *)
LEMMA LogStep ==
  ASSUME FTypeOK, ReopenInv, Log
  PROVE  FTypeOK' /\ ReopenInv'
<1>1. stack = <<>> /\ calls' \in Nat /\ UNCHANGED <<closed, is_reopening>>
  BY DEF Log, Busy, streams, FTypeOK
<1>2. PICK call : call = NewCall(calls + 1)
  OBVIOUS
<1>3. call \in Frame /\ call.at = "file_log"
  BY <1>2, OrderType DEF NewCall, Frame, Places, FTypeOK
<1>4. stack' = <<call>>
  BY <1>2 DEF Log
<1>5. /\ stack' \in Seq(Frame) /\ Len(stack') = 1 /\ stack'[1].at = "file_log"
  BY <1>3, <1>4
<1>6. FTypeOK'
  BY <1>1, <1>5 DEF FTypeOK
<1>7. \A f \in Files : ~closed[f] /\ ~is_reopening[f]
  BY <1>1 DEF ReopenInv, Reopened, Unmarked
<1>8. Marked' /\ Passed' /\ Reopened' /\ Unmarked'
  BY <1>1, <1>5, <1>7 DEF Marked, Passed, Reopened, Unmarked, ReopenAt, Closing
<1> QED  BY <1>6, <1>8 DEF ReopenInv

(* file_log goes on with a file that is not marked, or leaves it alone. *)
LEMMA FileLogStep ==
  ASSUME FTypeOK, ReopenInv, FileLog
  PROVE  FTypeOK' /\ ReopenInv'
<1>1. /\ Busy /\ Top.at = "file_log" /\ UNCHANGED calls
      /\ Len(stack) \in Nat \ {0} /\ Top = stack[Len(stack)]
      /\ Here = File(Len(stack)) /\ Here \in Files
  BY TopIs DEF FileLog, At
<1>2. CASE Skips(Here)
  <2>1. Goto("flush") /\ UNCHANGED <<closed, is_reopening>>
    BY <1>2 DEF FileLog
  <2>2. /\ stack' \in Seq(Frame) /\ Len(stack') = Len(stack)
        /\ \A n \in 1..(Len(stack) - 1) : stack'[n] = stack[n]
        /\ stack'[Len(stack)].k = Top.k /\ stack'[Len(stack)].at = "flush"
    BY <1>1, <2>1, GotoIs DEF Places
  <2>3. FTypeOK'
    BY <1>1, <2>1, <2>2 DEF FTypeOK
  <2>4. TopGoes("flush")
    BY <1>1, <2>1, <2>2 DEF TopGoes, ReopenAt, Closing
  <2> QED  BY <2>3, <2>4, TopStep
<1>3. CASE ~Skips(Here)
  <2>1. ~is_reopening[Here]
    BY <1>3 DEF Skips
  <2>2. \A n \in 1..(Len(stack) - 1) : File(n) # Here
    BY <1>1, <2>1 DEF ReopenInv, Marked
  <2>3. CASE due[Here] /\ Changed(Here)
    <3>1. /\ LogThenGo("mkdir")
          /\ is_reopening' = [is_reopening EXCEPT ![Here] = TRUE]
          /\ closed' = [closed EXCEPT ![Here] = fp[Here] # None]
      BY <1>3, <2>3 DEF FileLog
    <3>2. /\ stack' \in Seq(Frame) /\ Len(stack') = Len(stack) + 1
          /\ \A n \in 1..(Len(stack) - 1) : stack'[n] = stack[n]
          /\ stack'[Len(stack)].k = Top.k /\ stack'[Len(stack)].at = "mkdir"
          /\ stack'[Len(stack) + 1].at = "file_log"
      BY <1>1, <3>1, LogThenGoIs DEF Places
    <3>3. /\ is_reopening' \in [Files -> BOOLEAN] /\ closed' \in [Files -> BOOLEAN]
          /\ is_reopening'[Here]
          /\ \A g \in Files \ {Here} : is_reopening'[g] = is_reopening[g] /\ closed'[g] = closed[g]
      BY <1>1, <3>1 DEF FTypeOK
    <3>4. FTypeOK'
      BY <1>1, <3>2, <3>3 DEF FTypeOK
    <3>5. TopGoes("mkdir")
      BY <1>1, <2>2, <3>2, <3>3 DEF TopGoes, ReopenAt, Closing
    <3> QED  BY <3>4, <3>5, TopStep
  <2>4. CASE ~(due[Here] /\ Changed(Here))
    <3>1. Goto("print") /\ UNCHANGED <<closed, is_reopening>>
      BY <1>3, <2>4 DEF FileLog
    <3>2. /\ stack' \in Seq(Frame) /\ Len(stack') = Len(stack)
          /\ \A n \in 1..(Len(stack) - 1) : stack'[n] = stack[n]
          /\ stack'[Len(stack)].k = Top.k /\ stack'[Len(stack)].at = "print"
      BY <1>1, <3>1, GotoIs DEF Places
    <3>3. FTypeOK'
      BY <1>1, <3>1, <3>2 DEF FTypeOK
    <3>4. /\ \A g \in Files \ {Here} : is_reopening'[g] = is_reopening[g] /\ closed'[g] = closed[g]
          /\ ~is_reopening[Here] /\ ~is_reopening'[Here]
          /\ closed'[Here] => closed[Here] /\ stack[Len(stack)].at \notin Closing
      BY <1>1, <2>1, <3>1 DEF Closing
    <3>5. TopGoes("print")
      BY <1>1, <2>2, <3>2, <3>4 DEF TopGoes, ReopenAt, Closing
    <3> QED  BY <3>3, <3>5, TopStep
  <2> QED  BY <2>3, <2>4
<1> QED  BY <1>2, <1>3

(* In file_reopen the mark is set and no call below is at the same file: it *)
(* goes on with the mark kept, and the stream closed only until fopen.      *)
LEMMA ReopenStep ==
  ASSUME FTypeOK, ReopenInv, Busy, Top.at \in ReopenAt,
         NEW l \in ReopenAt \cup {"print"}, Goto(l) \/ LogThenGo(l),
         UNCHANGED <<is_reopening, calls>>, closed' \in [Files -> BOOLEAN],
         \A g \in Files \ {Here} : closed'[g] = closed[g],
         closed'[Here] => l \in Closing \/ (closed[Here] /\ Top.at \notin Closing)
  PROVE  FTypeOK' /\ ReopenInv'
<1>1. /\ Len(stack) \in Nat \ {0} /\ Top = stack[Len(stack)]
      /\ Here = File(Len(stack)) /\ Here \in Files
  BY TopIs
<1>2. /\ \A n \in 1..(Len(stack) - 1) : File(n) # Here
      /\ is_reopening[Here]
  BY TopAlone DEF ReopenAt, Closing
<1>3. /\ stack' \in Seq(Frame) /\ Len(stack') \in {Len(stack), Len(stack) + 1}
      /\ \A n \in 1..(Len(stack) - 1) : stack'[n] = stack[n]
      /\ stack'[Len(stack)].k = stack[Len(stack)].k /\ stack'[Len(stack)].at = l
      /\ Len(stack') = Len(stack) + 1 => stack'[Len(stack) + 1].at = "file_log"
  <2>1. l \in Places
    BY DEF Places, ReopenAt, Closing
  <2>2. CASE Goto(l)
    BY <1>1, <2>1, <2>2, GotoIs
  <2>3. CASE LogThenGo(l)
    BY <1>1, <2>1, <2>3, LogThenGoIs
  <2> QED  BY <2>2, <2>3
<1>4. FTypeOK'
  BY <1>3 DEF FTypeOK
<1>5. /\ \A g \in Files \ {Here} : is_reopening'[g] = is_reopening[g] /\ closed'[g] = closed[g]
      /\ is_reopening'[Here]
      /\ closed'[Here] => \/ l \in Closing
                          \/ closed[Here] /\ stack[Len(stack)].at \notin Closing
  BY <1>1, <1>2
<1>6. TopGoes(l)
  BY <1>1, <1>2, <1>3, <1>5 DEF TopGoes
<1> QED  BY <1>4, <1>6, TopStep

(* create_directories, with its two error messages. *)
LEMMA MkdirStep ==
  ASSUME FTypeOK, ReopenInv, Mkdir
  PROVE  FTypeOK' /\ ReopenInv'
<1>1. /\ UNCHANGED <<is_reopening, closed, calls>>
      /\ Busy /\ Top.at \in ReopenAt /\ closed' \in [Files -> BOOLEAN]
  BY DEF Mkdir, At, ReopenAt, Closing, streams, FTypeOK
<1>2. \E l \in Closing : Goto(l) \/ LogThenGo(l)
  BY DEF Mkdir, Closing
<1> QED  BY <1>1, <1>2, ReopenStep DEF ReopenAt

(* fopen, after which no closed stream is left, whether it worked or not. *)
LEMMA FopenStep ==
  ASSUME FTypeOK, ReopenInv, FopenWorks \/ FopenFails
  PROVE  FTypeOK' /\ ReopenInv'
<1>1. /\ UNCHANGED <<is_reopening, calls>>
      /\ Busy /\ Top.at = "fopen" /\ Here \in Files
  BY TopIs DEF FopenWorks, FopenFails, At
<1>2. closed' = [closed EXCEPT ![Here] = FALSE]
  BY DEF FopenWorks, FopenFound, FopenMakes, FopenFails, OpenAs
<1>3. /\ closed' \in [Files -> BOOLEAN] /\ ~closed'[Here]
      /\ \A g \in Files \ {Here} : closed'[g] = closed[g]
  BY <1>1, <1>2 DEF FTypeOK
<1>4. Goto("stat") \/ LogThenGo("print")
  BY DEF FopenWorks, FopenFails
<1> QED  BY <1>1, <1>3, <1>4, ReopenStep DEF ReopenAt, Closing

(* The end of file_reopen. *)
LEMMA StatStep ==
  ASSUME FTypeOK, ReopenInv, Stat
  PROVE  FTypeOK' /\ ReopenInv'
<1>1. /\ UNCHANGED <<is_reopening, closed, calls>>
      /\ Busy /\ Top.at = "stat" /\ closed' \in [Files -> BOOLEAN] /\ Goto("print")
  BY DEF Stat, At, FTypeOK
<1> QED  BY <1>1, ReopenStep DEF ReopenAt, Closing

(* The fprintf after it, which unmarks the file. *)
LEMMA FprintfStep ==
  ASSUME FTypeOK, ReopenInv, Fprintf
  PROVE  FTypeOK' /\ ReopenInv' /\ (misused' => misused)
<1>1. /\ UNCHANGED <<closed, calls>> /\ Busy /\ Top.at = "print" /\ Goto("flush")
      /\ is_reopening' = [is_reopening EXCEPT ![Here] = FALSE]
      /\ Len(stack) \in Nat \ {0} /\ Top = stack[Len(stack)]
      /\ Here = File(Len(stack)) /\ Here \in Files
  BY TopIs DEF Fprintf, At, streams
<1>2. (\A n \in 1..(Len(stack) - 1) : File(n) # Here) /\ ~closed[Here]
  BY <1>1, TopAlone
<1>3. /\ stack' \in Seq(Frame) /\ Len(stack') = Len(stack)
      /\ \A n \in 1..(Len(stack) - 1) : stack'[n] = stack[n]
      /\ stack'[Len(stack)].k = Top.k /\ stack'[Len(stack)].at = "flush"
  BY <1>1, GotoIs DEF Places
<1>4. /\ is_reopening' \in [Files -> BOOLEAN] /\ ~is_reopening'[Here]
      /\ \A g \in Files \ {Here} : is_reopening'[g] = is_reopening[g] /\ closed'[g] = closed[g]
  BY <1>1 DEF FTypeOK
<1>5. FTypeOK'
  BY <1>1, <1>3, <1>4 DEF FTypeOK
<1>6. ReopenInv'
  <2>1. ~closed'[Here]
    BY <1>1, <1>2
  <2>2. TopGoes("flush")
    BY <1>1, <1>2, <1>3, <1>4, <2>1 DEF TopGoes, ReopenAt, Closing
  <2> QED  BY <1>5, <2>2, TopStep
<1>7. misused' => misused
  BY <1>2 DEF Fprintf, Touch
<1> QED  BY <1>5, <1>6, <1>7

(* And the steps that touch neither the calls nor what they do. *)
LEMMA ElsewhereStep ==
  ASSUME FTypeOK, ReopenInv, UNCHANGED <<stack, closed, is_reopening, calls>>
  PROVE  FTypeOK' /\ ReopenInv'
BY DEF FTypeOK, ReopenInv, Marked, Passed, Reopened, Unmarked, File

(* The invariant is inductive. *)
LEMMA NextReopen ==
  ASSUME FTypeOK, ReopenInv, [Next]_fvars
  PROVE  FTypeOK' /\ ReopenInv'
<1>1. CASE Log
  BY <1>1, LogStep
<1>2. CASE FileLog
  BY <1>2, FileLogStep
<1>3. CASE Mkdir
  BY <1>3, MkdirStep
<1>4. CASE FopenWorks \/ FopenFails
  BY <1>4, FopenStep
<1>5. CASE Stat
  BY <1>5, StatStep
<1>6. CASE Fprintf
  BY <1>6, FprintfStep
<1>7. CASE FlushNow
  BY <1>7, NextCall
<1>8. CASE FlushAll \/ Tick \/ (\E f \in Files : Rotate(f)) \/ UNCHANGED fvars
  <2>1. UNCHANGED <<stack, closed, is_reopening, calls>>
    BY <1>8 DEF FlushAll, Tick, Rotate, fvars, streams
  <2> QED  BY <2>1, ElsewhereStep
<1> QED  BY <1>1, <1>2, <1>3, <1>4, <1>5, <1>6, <1>7, <1>8 DEF Next

(* It holds to begin with: nothing is closed or marked. *)
LEMMA InitReopen == Init => FTypeOK /\ ReopenInv /\ ~misused
<1> SUFFICES ASSUME Init PROVE FTypeOK /\ ReopenInv /\ ~misused
  OBVIOUS
<1>1. /\ stack = <<>> /\ calls = 0 /\ ~misused
      /\ closed = [f \in Files |-> FALSE] /\ is_reopening = [f \in Files |-> FALSE]
  BY DEF Init
<1> QED  BY <1>1 DEF FTypeOK, ReopenInv, Marked, Passed, Reopened, Unmarked

(* The innermost call of file_reopen for a file is its only one, and it is  *)
(* this that the mark tells: whatever is moved, and whatever fails.         *)
THEOREM ReopenInvariant == Spec => [](FTypeOK /\ ReopenInv)
<1>1. Init => FTypeOK /\ ReopenInv
  BY InitReopen
<1>2. FTypeOK /\ ReopenInv /\ [Next]_fvars => (FTypeOK /\ ReopenInv)'
  BY NextReopen
<1> QED  BY <1>1, <1>2, PTL DEF Spec

-----------------------------------------------------------------------------
(* Buffered, a step uses no closed stream: log_message does not flush in    *)
(* the middle of file_reopen, and the flush thread waits for s_mutex.       *)
LEMMA NextUse ==
  ASSUME FTypeOK, ReopenInv, g_flush_interval_ms > 0, ~misused, [Next]_fvars
  PROVE  ~misused'
<1>1. CASE Fprintf
  BY <1>1, FprintfStep
<1>2. CASE FlushNow
  BY <1>2 DEF FlushNow
<1>3. CASE FlushAll
  <2>1. stack = <<>> /\ (misused' = (misused \/ \E f \in Files : closed[f]))
    BY <1>3 DEF FlushAll, Busy
  <2>2. \A f \in Files : ~closed[f]
    BY <2>1 DEF ReopenInv, Reopened
  <2> QED  BY <2>1, <2>2
<1>4. CASE Log \/ FileLog \/ Mkdir \/ FopenWorks \/ FopenFails \/ Stat \/ Tick
           \/ (\E f \in Files : Rotate(f)) \/ UNCHANGED fvars
  BY <1>4 DEF Log, FileLog, Mkdir, FopenWorks, FopenFails, Stat, Tick, Rotate, fvars, history
<1> QED  BY <1>1, <1>2, <1>3, <1>4 DEF Next

(* No stream is written to or flushed between its fclose and the fopen that *)
(* replaces it, if log_message does not flush each message.                 *)
THEOREM NoUseOfClosedStreamCorrect ==
  g_flush_interval_ms > 0 => (Spec => []NoUseOfClosedStream)
<1> SUFFICES ASSUME g_flush_interval_ms > 0 PROVE Spec => []NoUseOfClosedStream
  OBVIOUS
<1>1. Init => ~misused
  BY InitReopen
<1>2. FTypeOK /\ ReopenInv /\ ~misused /\ [Next]_fvars => ~misused'
  BY NextUse
<1>3. ~misused => NoUseOfClosedStream
  BY DEF NoUseOfClosedStream
<1> QED  BY <1>1, <1>2, <1>3, ReopenInvariant, PTL DEF Spec

(* Two calls of file_reopen for one file would be two calls past the test.  *)
LEMMA OneReopening ==
  ASSUME FTypeOK, ReopenInv, NEW f \in Files
  PROVE  Cardinality(Reopening(f)) <= 1
<1>1. DOMAIN stack = 1..Len(stack) /\ Len(stack) \in Nat
  BY DEF FTypeOK
<1>2. ASSUME NEW n \in Reopening(f), NEW m \in Reopening(f), n < m
      PROVE  FALSE
  <2>1. n \in 1..Len(stack) /\ m \in 1..Len(stack) /\ File(n) = File(m)
    BY <1>1 DEF Reopening, File
  <2>2. stack[m].at \notin {"file_log", "flush"}
    BY DEF Reopening
  <2> QED  BY <1>2, <2>1, <2>2 DEF ReopenInv, Passed
<1>3. \A n, m \in Reopening(f) : n = m
  <2>1. Reopening(f) \subseteq Nat
    BY <1>1 DEF Reopening
  <2> QED  BY <1>2, <2>1
<1>4. CASE Reopening(f) = {}
  BY <1>4, FS_EmptySet
<1>5. CASE Reopening(f) # {}
  <2>1. PICK n : Reopening(f) = {n}
    BY <1>3, <1>5
  <2>2. Cardinality({n}) = 1
    BY FS_Singleton
  <2> QED  BY <2>1, <2>2
<1> QED  BY <1>4, <1>5

(* file_reopen does not recurse into the file it reopens, and a mark means  *)
(* that a call is at that file.                                             *)
THEOREM ReopenNotRecursiveCorrect == Spec => []ReopenNotRecursive
<1>1. FTypeOK /\ ReopenInv => ReopenNotRecursive
  <2> SUFFICES ASSUME FTypeOK, ReopenInv, NEW f \in Files
               PROVE  /\ Cardinality(Reopening(f)) <= 1
                      /\ Reopening(f) # {} => is_reopening[f]
                      /\ is_reopening[f] => \E n \in DOMAIN stack : Order[stack[n].k] = f
    BY DEF ReopenNotRecursive
  <2>1. DOMAIN stack = 1..Len(stack)
    BY DEF FTypeOK
  <2>2. ASSUME Reopening(f) # {} PROVE is_reopening[f]
    <3>1. PICK n \in Reopening(f) : TRUE
      BY <2>2
    <3>2. n \in 1..Len(stack) /\ File(n) = f /\ stack[n].at \in ReopenAt
      BY <2>1, <3>1 DEF Reopening, File, ReopenAt, Closing
    <3> QED  BY <3>2 DEF ReopenInv, Marked
  <2>3. is_reopening[f] => \E n \in DOMAIN stack : Order[stack[n].k] = f
    BY <2>1 DEF ReopenInv, Unmarked, File
  <2> QED  BY <2>2, <2>3, OneReopening
<1> QED  BY <1>1, ReopenInvariant, PTL

-----------------------------------------------------------------------------
(***************************************************************************)
(* Where the messages are.  The outermost call has the program's newest    *)
(* message, those above it are file_reopen's; the inodes made for a file   *)
(* have all the messages of the program, but those it is known to miss and *)
(* the newest while it is Due.                                             *)
(***************************************************************************)
HTypeOK ==
  /\ {disk, fp, st_ino} \subseteq [Files -> Inodes \cup {None}]
  /\ {made, aside} \subseteq [Files -> SUBSET Inodes]
  /\ due \in [Files -> BOOLEAN] /\ rotated \in [Files -> BOOLEAN]
  /\ text \in [Inodes -> Seq(Nat)]
  /\ {dropped, erased} \subseteq [Files -> SUBSET Nat]

(* An inode is made for one file, and is empty before.                     *)
Owned == \A f \in Files : /\ aside[f] \subseteq made[f]
                          /\ disk[f] \in made[f] \cup {None}
                          /\ fp[f] \in made[f] \cup {None}
Apart == \A f, g \in Files : f # g => made[f] \cap made[g] = {}
Clean == \A i \in Fresh : text[i] = <<>>
InodeInv == Owned /\ Apart /\ Clean

MsgInv ==
  /\ Busy => stack[1].msg = calls /\ calls > 0
  /\ \A n \in 2..Len(stack) : stack[n].msg = 0

Due(p)   == Busy /\ (stack[1].k < p \/ (stack[1].k = p /\ stack[1].at # "flush"))
Known(p) == IF Due(p) THEN 1..(calls - 1) ELSE 1..calls
Ascends(s) == \A m, n \in 1..Len(s) : m < n => s[m] < s[n]
Holds(f, known) ==
  /\ InFiles(f) \cup dropped[f] \cup erased[f] = known
  /\ InFiles(f) \cap (dropped[f] \cup erased[f]) = {}
  /\ \A i, j \in made[f] : i # j => InFile(i) \cap InFile(j) = {}
  /\ \A i \in made[f] : Ascends(text[i])
  /\ Mode[f] = "a" => erased[f] = {}
HoldInv == \A p \in 1..Len(Order) : Holds(Order[p], Known(p))

HistoryInv == HTypeOK /\ InodeInv /\ MsgInv /\ HoldInv

(* Every file is at one place of s_callbacks. *)
LEMMA OrderOnce ==
  ASSUME NEW p \in 1..Len(Order), NEW q \in 1..Len(Order), Order[p] = Order[q]
  PROVE  p = q
<1>1. /\ Order \in Seq(Files) /\ Range(Order) = Files /\ Cardinality(Files) = Len(Order)
  BY FilesAssumption
<1>2. PICK n \in Nat : n = Len(Order) /\ DOMAIN Order = 1..n
  BY <1>1
<1>3. Order \in Surjection(1..n, Files)
  <2>1. Order \in [1..n -> Files]
    BY <1>1, <1>2
  <2>2. \A f \in Files : \E k \in 1..n : Order[k] = f
    BY <1>1, <1>2 DEF Range
  <2> QED  BY <2>1, <2>2 DEF Surjection
<1>4. IsFiniteSet(1..n) /\ Cardinality(1..n) = n
  <2>1. /\ IsFiniteSet(1..n)
        /\ Cardinality(1..n) = IF 1 > n THEN 0 ELSE n - 1 + 1
    <3>1. 1 \in Int /\ n \in Int
      OBVIOUS
    <3> QED  BY <3>1, FS_Interval
  <2> QED  BY <2>1
<1>5. Order \in Injection(1..n, Files)
  BY <1>1, <1>2, <1>3, <1>4, FS_SurjSameCardinalityImpliesInj
<1> QED  BY <1>2, <1>5 DEF Injection, IsInjective

(* And every file is at one. *)
LEMMA OrderAll ==
  ASSUME NEW f \in Files
  PROVE  \E p \in 1..Len(Order) : Order[p] = f
<1>1. f \in {Order[k] : k \in DOMAIN Order} /\ Order \in Seq(Files)
  BY FilesAssumption DEF Range
<1> QED  BY <1>1

(* What is appended is in the range, and ascends if it is greater than all. *)
LEMMA AppendText ==
  ASSUME NEW s \in Seq(Nat), NEW c \in Nat
  PROVE  /\ Append(s, c) \in Seq(Nat) /\ Range(Append(s, c)) = Range(s) \cup {c}
         /\ Ascends(s) /\ (\A x \in Range(s) : x < c) => Ascends(Append(s, c))
<1>1. PICK r : r = Append(s, c)
  OBVIOUS
<1>2. /\ r \in Seq(Nat) /\ Len(s) \in Nat /\ Len(r) = Len(s) + 1
      /\ r[Len(s) + 1] = c /\ \A n \in 1..Len(s) : r[n] = s[n]
  BY <1>1
<1>3. DOMAIN r = 1..Len(r) /\ DOMAIN s = 1..Len(s)
  BY <1>2
<1>4. Range(r) = Range(s) \cup {c}
  <2>1. ASSUME NEW n \in DOMAIN r PROVE r[n] \in Range(s) \cup {c}
    <3>1. n \in 1..Len(s) \/ n = Len(s) + 1
      BY <1>2, <1>3
    <3> QED  BY <1>2, <1>3, <3>1 DEF Range
  <2>2. ASSUME NEW n \in DOMAIN s PROVE s[n] \in Range(r)
    <3>1. n \in DOMAIN r /\ r[n] = s[n]
      BY <1>2, <1>3
    <3> QED  BY <3>1 DEF Range
  <2>3. c \in Range(r)
    <3>1. Len(s) + 1 \in DOMAIN r
      BY <1>2, <1>3
    <3> QED  BY <1>2, <3>1 DEF Range
  <2> QED  BY <2>1, <2>2, <2>3 DEF Range
<1>5. ASSUME Ascends(s), \A x \in Range(s) : x < c PROVE Ascends(r)
  <2> SUFFICES ASSUME NEW m \in 1..Len(r), NEW n \in 1..Len(r), m < n PROVE r[m] < r[n]
    BY DEF Ascends
  <2>1. m \in 1..Len(s) /\ (n \in 1..Len(s) \/ n = Len(s) + 1)
    <3>1. PICK k \in Nat : k = Len(s) /\ Len(r) = k + 1
      BY <1>2
    <3>2. m \in 1..(k + 1) /\ n \in 1..(k + 1) /\ m < n
      BY <3>1
    <3> QED  BY ONLY <3>1, <3>2
  <2>2. s[m] < c
    BY <1>3, <1>5, <2>1 DEF Range
  <2> QED  BY <1>2, <1>5, <2>1, <2>2 DEF Ascends
<1> QED  BY <1>1, <1>2, <1>4, <1>5

(* The innermost call goes on, or makes another. *)
LEMMA MsgGoes ==
  ASSUME FTypeOK, MsgInv, Busy, NEW l \in Places, Goto(l) \/ LogThenGo(l), calls' = calls
  PROVE  /\ MsgInv' /\ Busy' /\ stack'[1].k = stack[1].k
         /\ Len(stack) \in Nat \ {0}
         /\ Len(stack) = 1 => stack'[1].at = l
         /\ Len(stack) # 1 => stack'[1] = stack[1]
<1>1. PICK d \in Nat \ {0} : d = Len(stack) /\ Top = stack[d]
  BY TopIs
<1>2. /\ stack' \in Seq(Frame) /\ Len(stack') \in {d, d + 1}
      /\ \A n \in 1..(d - 1) : stack'[n] = stack[n]
      /\ stack'[d].k = Top.k /\ stack'[d].at = l /\ stack'[d].msg = Top.msg
      /\ Len(stack') = d + 1 => stack'[d + 1].msg = 0
  <2>1. CASE Goto(l)
    BY <1>1, <2>1, GotoIs
  <2>2. CASE LogThenGo(l)
    BY <1>1, <2>2, LogThenGoIs
  <2> QED  BY <2>1, <2>2
<1>3. Busy' /\ Len(stack') \in Nat
  BY <1>1, <1>2 DEF Busy
<1>4. ASSUME NEW n \in 1..d PROVE stack'[n].msg = stack[n].msg
  <2>1. n \in 1..(d - 1) \/ n = d
    OBVIOUS
  <2> QED  BY <1>1, <1>2, <2>1
<1>5. MsgInv'
  <2>1. stack'[1].msg = calls' /\ calls' > 0
    BY <1>4 DEF MsgInv
  <2>2. ASSUME NEW n \in 2..Len(stack') PROVE stack'[n].msg = 0
    <3>1. (n \in 1..d /\ n \in 2..Len(stack)) \/ (n = d + 1 /\ Len(stack') = d + 1)
      BY <1>1, <1>2
    <3> QED  BY <1>2, <1>4, <3>1 DEF MsgInv
  <2> QED  BY <2>1, <2>2 DEF MsgInv
<1>6. d # 1 => 1 \in 1..(d - 1)
  BY <1>1
<1> QED  BY <1>1, <1>2, <1>3, <1>5, <1>6

(* The steps of file_log and file_reopen before the fprintf leave the files *)
(* as they are due.                                                         *)
LEMMA ReopenKnown ==
  ASSUME FTypeOK, FTypeOK', MsgInv, Busy,
         NEW l \in Places, Goto(l) \/ LogThenGo(l), calls' = calls,
         Len(stack) = 1 => Top.at # "flush" /\ l # "flush"
  PROVE  MsgInv' /\ \A p : Known(p)' = Known(p)
<1>1. /\ MsgInv' /\ Busy' /\ stack'[1].k = stack[1].k
      /\ Len(stack) = 1 => stack'[1].at = l
      /\ Len(stack) # 1 => stack'[1] = stack[1]
  BY MsgGoes
<1>2. Len(stack) = 1 => stack[1].at # "flush"
  BY TopIs
<1>3. stack'[1].at = "flush" <=> stack[1].at = "flush"
  BY <1>1, <1>2
<1>4. \A p : Due(p)' = Due(p)
  BY <1>1, <1>3 DEF Due
<1> QED  BY <1>1, <1>4 DEF Known

(* log_message goes on to the next callback, or returns. *)
LEMMA NextCallKnown ==
  ASSUME FTypeOK, FTypeOK', MsgInv, FlushNow
  PROVE  MsgInv' /\ \A p \in 1..Len(Order) : Known(p)' = Known(p)
<1>1. PICK d \in Nat \ {0} : d = Len(stack) /\ Top = stack[d] /\ Top \in Frame
  BY TopIs DEF FlushNow, At
<1>2. Busy /\ Top.at = "flush" /\ calls' = calls
  BY DEF FlushNow, At
<1>3. /\ Front(stack) \in Seq(Frame) /\ Len(Front(stack)) = d - 1
      /\ \A n \in 1..(d - 1) : Front(stack)[n] = stack[n]
  BY <1>1, <1>2, FrontIs DEF FTypeOK, Busy
<1>4. PICK next : next = [Top EXCEPT !.k = @ + 1, !.at = "file_log"]
  OBVIOUS
<1>5. next.msg = Top.msg /\ next.k = Top.k + 1 /\ next.at = "file_log" /\ Top.k \in 1..Len(Order)
  BY <1>1, <1>4 DEF Frame
<1>6. \/ MoreFiles /\ stack' = Append(Front(stack), next)
      \/ ~MoreFiles /\ stack' = Front(stack)
  BY <1>4 DEF FlushNow
<1>7. /\ Len(stack') = IF MoreFiles THEN d ELSE d - 1
      /\ \A n \in 1..(d - 1) : stack'[n] = stack[n]
      /\ MoreFiles => stack'[d] = next
  <2>1. PICK s \in Seq(Frame) : s = Front(stack) /\ Len(s) = d - 1
    BY <1>3
  <2>2. next \in Frame \/ ~MoreFiles
    <3>1. ASSUME MoreFiles PROVE Top.k + 1 \in 1..Len(Order)
      BY <1>5, <3>1 DEF MoreFiles
    <3> QED  BY <1>1, <1>4, <3>1 DEF Frame, Places
  <2>3. CASE MoreFiles
    <3>1. stack' = Append(s, next) /\ next \in Frame
      BY <1>6, <2>1, <2>2, <2>3
    <3>2. /\ Len(Append(s, next)) = d /\ Append(s, next)[d] = next
          /\ \A n \in 1..(d - 1) : Append(s, next)[n] = s[n]
      BY <2>1, <3>1
    <3> QED  BY <1>3, <2>1, <2>3, <3>1, <3>2
  <2>4. CASE ~MoreFiles
    BY <1>3, <1>6, <2>4
  <2> QED  BY <2>3, <2>4
<1>8. CASE d # 1
  <2>1. 1 \in 1..(d - 1) /\ stack'[1] = stack[1]
    BY <1>7, <1>8
  <2>2. Len(stack') \in Nat \ {0}
    BY <1>1, <1>7, <1>8
  <2>3. Busy'
    BY <2>2 DEF Busy
  <2>4. \A p : Due(p)' = Due(p)
    BY <1>2, <2>1, <2>3 DEF Due
  <2>5. ASSUME NEW n \in 2..Len(stack') PROVE stack'[n].msg = 0
    <3>1. n \in 2..Len(stack) /\ (n \in 1..(d - 1) \/ (n = d /\ MoreFiles))
      BY <1>1, <1>7
    <3> QED  BY <1>1, <1>5, <1>7, <3>1 DEF MsgInv
  <2>6. MsgInv'
    BY <1>2, <2>1, <2>3, <2>5 DEF MsgInv
  <2> QED  BY <1>2, <2>4, <2>6 DEF Known
<1>9. CASE d = 1 /\ MoreFiles
  <2>1. Len(stack') = 1 /\ stack'[1] = next /\ Top = stack[1]
    BY <1>1, <1>7, <1>9
  <2>2. Busy'
    BY <2>1 DEF Busy
  <2>3. MsgInv'
    BY <1>2, <1>5, <2>1, <2>2 DEF MsgInv
  <2>4. ASSUME NEW p \in 1..Len(Order) PROVE Due(p)' <=> Due(p)
    <3>1. PICK k \in Nat : k = stack[1].k /\ stack'[1].k = k + 1
      BY <1>5, <2>1
    <3>2. stack'[1].at = "file_log" /\ stack[1].at = "flush"
      BY <1>2, <1>5, <2>1
    <3>3. (k + 1 < p \/ k + 1 = p) <=> k < p
      OBVIOUS
    <3> QED  BY <1>2, <2>2, <3>1, <3>2, <3>3 DEF Due
  <2> QED  BY <1>2, <2>3, <2>4 DEF Known
<1>10. CASE d = 1 /\ ~MoreFiles
  <2>1. Len(stack') = 0 /\ Top = stack[1]
    BY <1>1, <1>7, <1>10
  <2>2. ~Busy'
    BY <2>1 DEF Busy
  <2>3. MsgInv'
    BY <2>1, <2>2 DEF MsgInv
  <2>4. ASSUME NEW p \in 1..Len(Order) PROVE ~Due(p)' /\ ~Due(p)
    <3>1. ~(stack[1].k < p) /\ stack[1].at = "flush"
      BY <1>2, <1>5, <1>10, <2>1 DEF MoreFiles
    <3> QED  BY <2>2, <3>1 DEF Due
  <2> QED  BY <1>2, <2>3, <2>4 DEF Known
<1> QED  BY <1>8, <1>9, <1>10

(* A new message is due at every file. *)
LEMMA LogKnown ==
  ASSUME FTypeOK, FTypeOK', Log
  PROVE  MsgInv' /\ \A p \in 1..Len(Order) : Known(p)' = Known(p)
<1>1. /\ ~Busy /\ calls' = calls + 1 /\ calls \in Nat
  BY DEF Log, FTypeOK
<1>2. PICK call : call = NewCall(calls + 1)
  OBVIOUS
<1>3. stack' = <<call>> /\ call.msg = calls + 1 /\ call.k = 1 /\ call.at = "file_log"
  BY <1>2 DEF Log, NewCall
<1>4. Len(stack') = 1 /\ stack'[1] = call /\ Busy'
  BY <1>3 DEF Busy
<1>5. MsgInv'
  BY <1>1, <1>3, <1>4 DEF MsgInv
<1>6. ASSUME NEW p \in 1..Len(Order) PROVE Known(p)' = Known(p)
  <2>1. ~Due(p) /\ Due(p)'
    BY <1>1, <1>3, <1>4 DEF Due
  <2>2. calls + 1 - 1 = calls
    BY <1>1
  <2> QED  BY <1>1, <2>1, <2>2 DEF Known
<1> QED  BY <1>5, <1>6

(* The types of what is on disk, and of what is known of it. *)
LEMMA HTypeNext ==
  ASSUME FTypeOK, HTypeOK, [Next]_fvars
  PROVE  HTypeOK'
<1> DEFINE Ino == [Files -> Inodes \cup {None}]
<1>1. /\ disk \in Ino /\ fp \in Ino /\ st_ino \in Ino
      /\ made \in [Files -> SUBSET Inodes] /\ aside \in [Files -> SUBSET Inodes]
      /\ due \in [Files -> BOOLEAN] /\ rotated \in [Files -> BOOLEAN]
      /\ text \in [Inodes -> Seq(Nat)]
      /\ dropped \in [Files -> SUBSET Nat] /\ erased \in [Files -> SUBSET Nat]
  BY DEF HTypeOK
<1>2. Fresh \subseteq Inodes
  BY DEF Fresh
<1>3. CASE FileLog
  <2>1. /\ Here \in Files /\ UNCHANGED <<inodes, text, fp, st_ino, dropped, erased>>
        /\ due' = due \/ due' = [due EXCEPT ![Here] = FALSE]
        /\ rotated' = rotated \/ rotated' = [rotated EXCEPT ![Here] = @ /\ ~due[Here]]
    BY <1>3, TopIs DEF FileLog, At
  <2>2. due' \in [Files -> BOOLEAN] /\ rotated' \in [Files -> BOOLEAN]
    BY <1>1, <2>1
  <2> QED  BY <1>1, <2>1, <2>2 DEF HTypeOK, inodes
<1>4. CASE FopenWorks
  <2>1. Here \in Files /\ UNCHANGED <<aside, st_ino, due, dropped, rotated>>
    BY <1>4, TopIs DEF FopenWorks, At
  <2>2. CASE FopenFound
    <3>1. disk[Here] \in Inodes
      BY <1>1, <2>1, <2>2 DEF FopenFound
    <3>2. Range(text[disk[Here]]) \subseteq Nat
      <4>1. text[disk[Here]] \in Seq(Nat)
        BY <1>1, <3>1
      <4> QED  BY <4>1 DEF Range
    <3>3. /\ fp' = [fp EXCEPT ![Here] = disk[Here]] /\ UNCHANGED <<disk, made>>
          /\ text' = text \/ text' = [text EXCEPT ![disk[Here]] = <<>>]
          /\ \/ erased' = erased
             \/ erased' = [erased EXCEPT ![Here] = @ \cup Range(text[disk[Here]])]
      BY <2>2 DEF FopenFound, OpenAs
    <3>4. text' \in [Inodes -> Seq(Nat)] /\ erased' \in [Files -> SUBSET Nat] /\ fp' \in Ino
      <4>1. <<>> \in Seq(Nat)
        OBVIOUS
      <4>2. text' \in [Inodes -> Seq(Nat)]
        BY <1>1, <3>1, <3>3, <4>1
      <4>3. erased' \in [Files -> SUBSET Nat]
        BY <1>1, <2>1, <3>2, <3>3
      <4>4. fp' \in Ino
        BY <1>1, <2>1, <3>1, <3>3
      <4> QED  BY <4>2, <4>3, <4>4
    <3> QED  BY <1>1, <2>1, <3>3, <3>4 DEF HTypeOK
  <2>3. CASE FopenMakes
    <3>1. PICK i \in Inodes : /\ fp' = [fp EXCEPT ![Here] = i] /\ disk' = [disk EXCEPT ![Here] = i]
                              /\ made' = [made EXCEPT ![Here] = @ \cup {i}]
                              /\ UNCHANGED <<text, erased>>
      BY <1>2, <2>3 DEF FopenMakes, OpenAs
    <3>2. fp' \in Ino /\ disk' \in Ino /\ made' \in [Files -> SUBSET Inodes]
      BY <1>1, <2>1, <3>1
    <3> QED  BY <1>1, <2>1, <3>1, <3>2 DEF HTypeOK
  <2> QED  BY <1>4, <2>2, <2>3 DEF FopenWorks
<1>5. CASE FopenFails
  <2>1. /\ Here \in Files /\ fp' = [fp EXCEPT ![Here] = None]
        /\ UNCHANGED <<inodes, text, st_ino, due, history>>
    BY <1>5, TopIs DEF FopenFails, OpenAs, At
  <2>2. fp' \in Ino
    BY <1>1, <2>1
  <2> QED  BY <1>1, <2>1, <2>2 DEF HTypeOK, inodes, history
<1>6. CASE Stat
  <2>1. /\ Here \in Files /\ (st_ino' = st_ino \/ st_ino' = [st_ino EXCEPT ![Here] = disk[Here]])
        /\ UNCHANGED <<inodes, text, fp, due, history>>
    BY <1>6, TopIs DEF Stat, At
  <2>2. st_ino' \in Ino
    BY <1>1, <2>1
  <2> QED  BY <1>1, <2>1, <2>2 DEF HTypeOK, inodes, history
<1>7. CASE Fprintf
  <2>1. /\ Here \in Files /\ Top.msg \in Nat /\ UNCHANGED <<inodes, streams, due, erased, rotated>>
        /\ \/ dropped' = [dropped EXCEPT ![Here] = @ \cup ({Top.msg} \ {0})] /\ text' = text
           \/ fp[Here] # None /\ Put(Top.msg) /\ dropped' = dropped
    BY <1>7, TopIs DEF Fprintf, At, Frame
  <2>2. dropped' \in [Files -> SUBSET Nat]
    BY <1>1, <2>1
  <2>3. text' \in [Inodes -> Seq(Nat)]
    <3>1. CASE fp[Here] # None /\ Put(Top.msg)
      <4>1. fp[Here] \in Inodes
        BY <1>1, <2>1, <3>1
      <4>2. Append(text[fp[Here]], Top.msg) \in Seq(Nat)
        BY <1>1, <2>1, <4>1
      <4>3. text' = text \/ text' = [text EXCEPT ![fp[Here]] = Append(text[fp[Here]], Top.msg)]
        BY <3>1 DEF Put
      <4> QED  BY <1>1, <4>1, <4>2, <4>3
    <3> QED  BY <1>1, <2>1, <3>1
  <2> QED  BY <1>1, <2>1, <2>2, <2>3 DEF HTypeOK, inodes, streams
<1>8. CASE Tick
  <2>1. due' \in [Files -> BOOLEAN] /\ UNCHANGED <<inodes, text, streams, history>>
    BY <1>8 DEF Tick
  <2> QED  BY <1>1, <2>1 DEF HTypeOK, inodes, streams, history
<1>9. CASE \E f \in Files : Rotate(f)
  <2>1. PICK f \in Files : Rotate(f)
    BY <1>9
  <2>2. PICK i \in (Fresh \cup aside[f] \cup {None}) \ {disk[f]}, kept \in SUBSET ({disk[f]} \ {None}) :
          /\ disk' = [disk EXCEPT ![f] = i]
          /\ aside' = [aside EXCEPT ![f] = (@ \cup kept) \ {i}]
          /\ made' = [made EXCEPT ![f] = @ \cup ({i} \ {None})]
    BY <2>1 DEF Rotate
  <2>3. rotated' = [rotated EXCEPT ![f] = TRUE] /\ UNCHANGED <<text, streams, due, dropped, erased>>
    BY <2>1 DEF Rotate
  <2>4. i \in Inodes \cup {None} /\ kept \subseteq Inodes
    BY <1>1, <1>2
  <2>5. disk' \in Ino /\ rotated' \in [Files -> BOOLEAN]
    BY <1>1, <2>2, <2>3, <2>4
  <2>6. aside' \in [Files -> SUBSET Inodes] /\ made' \in [Files -> SUBSET Inodes]
    BY <1>1, <2>2, <2>4
  <2> QED  BY <1>1, <2>3, <2>5, <2>6 DEF HTypeOK, streams
<1>10. CASE Log \/ Mkdir \/ FlushNow \/ FlushAll \/ UNCHANGED fvars
  <2>1. UNCHANGED <<inodes, text, fp, st_ino, due, dropped, erased, rotated>>
    BY <1>10 DEF Log, Mkdir, FlushNow, FlushAll, fvars, streams, history
  <2> QED  BY <1>1, <2>1 DEF HTypeOK, inodes
<1> QED  BY <1>3, <1>4, <1>5, <1>6, <1>7, <1>8, <1>9, <1>10 DEF Next

(* New inodes are nobody else's, and empty. *)
LEMMA MadeGrows ==
  ASSUME HTypeOK, InodeInv, NEW f \in Files, NEW S, S \subseteq Fresh,
         made' = [made EXCEPT ![f] = @ \cup S], text' = text
  PROVE  /\ made'[f] = made[f] \cup S /\ \A g \in Files \ {f} : made'[g] = made[g]
         /\ Apart' /\ Clean'
<1>1. made'[f] = made[f] \cup S /\ \A g \in Files \ {f} : made'[g] = made[g]
  BY DEF HTypeOK
<1>2. \A g \in Files : S \cap made[g] = {}
  BY DEF Fresh
<1>3. Apart'
  <2> SUFFICES ASSUME NEW g \in Files, NEW h \in Files, g # h PROVE made'[g] \cap made'[h] = {}
    BY DEF Apart
  <2> QED  BY <1>1, <1>2 DEF InodeInv, Apart
<1>4. \A g \in Files : made[g] \subseteq made'[g]
  BY <1>1
<1>5. Fresh' \subseteq Fresh
  BY <1>4 DEF Fresh
<1> QED  BY <1>1, <1>3, <1>5 DEF InodeInv, Clean

(* Only an inode that was made for a file is written to or emptied. *)
LEMMA OldText ==
  ASSUME HTypeOK, InodeInv, NEW f \in Files, NEW i \in made[f], made' = made,
         \A j \in Inodes \ {i} : text'[j] = text[j]
  PROVE  Clean'
<1>1. i \notin Fresh /\ Fresh' = Fresh /\ Fresh \subseteq Inodes
  BY DEF Fresh
<1> QED  BY <1>1 DEF InodeInv, Clean

(* Each inode stays that of one file. *)
LEMMA InodeNext ==
  ASSUME FTypeOK, HTypeOK, HTypeOK', InodeInv, [Next]_fvars
  PROVE  InodeInv'
<1>1. /\ Owned /\ Apart /\ Clean
      /\ disk \in [Files -> Inodes \cup {None}] /\ fp \in [Files -> Inodes \cup {None}]
      /\ made \in [Files -> SUBSET Inodes] /\ aside \in [Files -> SUBSET Inodes]
      /\ text \in [Inodes -> Seq(Nat)]
  BY DEF InodeInv, HTypeOK
<1>2. ASSUME UNCHANGED <<inodes, fp>> PROVE Owned' /\ Apart'
  BY <1>1, <1>2 DEF Owned, Apart, inodes
<1>3. CASE FopenWorks
  <2>1. Here \in Files /\ aside' = aside
    BY <1>3, TopIs DEF FopenWorks, At
  <2>2. CASE FopenFound
    <3>1. /\ fp' = [fp EXCEPT ![Here] = disk[Here]] /\ UNCHANGED <<disk, made>>
          /\ disk[Here] \in made[Here]
          /\ text' = text \/ text' = [text EXCEPT ![disk[Here]] = <<>>]
      BY <1>1, <2>1, <2>2 DEF FopenFound, OpenAs, Owned
    <3>2. Owned' /\ Apart'
      BY <1>1, <2>1, <3>1 DEF Owned, Apart
    <3>3. \A j \in Inodes \ {disk[Here]} : text'[j] = text[j]
      BY <1>1, <3>1
    <3>4. Clean'
      BY <2>1, <3>1, <3>3, OldText
    <3> QED  BY <3>2, <3>4 DEF InodeInv
  <2>3. CASE FopenMakes
    <3>1. PICK i \in Fresh : /\ fp' = [fp EXCEPT ![Here] = i] /\ disk' = [disk EXCEPT ![Here] = i]
                             /\ made' = [made EXCEPT ![Here] = @ \cup {i}] /\ text' = text
      BY <2>3 DEF FopenMakes, OpenAs
    <3>2. PICK S : S = {i} /\ S \subseteq Fresh
      BY <3>1
    <3>3. made' = [made EXCEPT ![Here] = @ \cup S]
      BY <3>1, <3>2
    <3>4. /\ made'[Here] = made[Here] \cup S /\ \A g \in Files \ {Here} : made'[g] = made[g]
          /\ Apart' /\ Clean'
      BY <2>1, <3>1, <3>2, <3>3, MadeGrows
    <3>5. Owned'
      BY <1>1, <2>1, <3>1, <3>2, <3>4 DEF Owned
    <3> QED  BY <3>4, <3>5 DEF InodeInv
  <2> QED  BY <1>3, <2>2, <2>3 DEF FopenWorks
<1>4. CASE FopenFails
  <2>1. Here \in Files /\ fp' = [fp EXCEPT ![Here] = None] /\ UNCHANGED <<inodes, text>>
    BY <1>4, TopIs DEF FopenFails, OpenAs, At
  <2> QED  BY <1>1, <2>1 DEF InodeInv, Owned, Apart, Clean, Fresh, inodes
<1>5. CASE Fprintf
  <2>1. /\ Here \in Files /\ UNCHANGED <<inodes, fp>>
        /\ text' = text \/ (fp[Here] # None /\ Put(Top.msg))
    BY <1>5, TopIs DEF Fprintf, At, streams
  <2>2. CASE fp[Here] # None /\ Put(Top.msg)
    <3>1. fp[Here] \in made[Here] /\ made' = made
      BY <1>1, <2>1, <2>2 DEF Owned, inodes
    <3>2. \A j \in Inodes \ {fp[Here]} : text'[j] = text[j]
      BY <1>1, <2>2 DEF Put
    <3> QED  BY <1>2, <2>1, <3>1, <3>2, OldText DEF InodeInv
  <2>3. CASE text' = text
    BY <1>1, <1>2, <2>1, <2>3 DEF InodeInv, Clean, Fresh, inodes
  <2> QED  BY <2>1, <2>2, <2>3
<1>6. CASE \E f \in Files : Rotate(f)
  <2>1. PICK f \in Files : Rotate(f)
    BY <1>6
  <2>2. PICK i \in (Fresh \cup aside[f] \cup {None}) \ {disk[f]}, kept \in SUBSET ({disk[f]} \ {None}) :
          /\ disk' = [disk EXCEPT ![f] = i]
          /\ aside' = [aside EXCEPT ![f] = (@ \cup kept) \ {i}]
          /\ made' = [made EXCEPT ![f] = @ \cup ({i} \ {None})]
    BY <2>1 DEF Rotate
  <2>3. UNCHANGED <<text, fp>>
    BY <2>1 DEF Rotate, streams
  <2>4. PICK S : S = {i} \cap Fresh /\ S \subseteq Fresh
    OBVIOUS
  <2>5. made[f] \cup ({i} \ {None}) = made[f] \cup S
    <3>1. aside[f] \subseteq made[f] /\ None \notin Fresh
      BY <1>1, FilesAssumption DEF Owned, Fresh
    <3> QED  BY <2>2, <2>4, <3>1
  <2>6. made' = [made EXCEPT ![f] = @ \cup S]
    BY <1>1, <2>2, <2>5
  <2>7. /\ made'[f] = made[f] \cup S /\ \A g \in Files \ {f} : made'[g] = made[g]
        /\ Apart' /\ Clean'
    BY <2>3, <2>4, <2>6, MadeGrows
  <2>8. Owned'
    <3>1. /\ kept \subseteq made[f] /\ aside[f] \subseteq made[f]
          /\ i \in made'[f] \cup {None}
      BY <1>1, <2>2, <2>5, <2>7 DEF Owned
    <3>2. /\ disk'[f] = i /\ \A g \in Files \ {f} : disk'[g] = disk[g]
          /\ aside'[f] \subseteq aside[f] \cup kept /\ \A g \in Files \ {f} : aside'[g] = aside[g]
      BY <1>1, <2>2
    <3> QED  BY <1>1, <2>3, <2>7, <3>1, <3>2 DEF Owned
  <2> QED  BY <2>7, <2>8 DEF InodeInv
<1>7. CASE Log \/ FileLog \/ Mkdir \/ Stat \/ FlushNow \/ FlushAll \/ Tick \/ UNCHANGED fvars
  <2>1. UNCHANGED <<inodes, text, fp>>
    BY <1>7 DEF Log, FileLog, Mkdir, Stat, FlushNow, FlushAll, Tick, fvars, streams
  <2> QED  BY <1>1, <1>2, <2>1 DEF InodeInv, Clean, Fresh, inodes
<1> QED  BY <1>3, <1>4, <1>5, <1>6, <1>7 DEF Next

-----------------------------------------------------------------------------
(* What a file holds is not touched if its inodes are not, or new and empty. *)
LEMMA HoldsKept ==
  ASSUME NEW f, NEW known, NEW S, Holds(f, known),
         made'[f] = made[f] \cup S, \A i \in made[f] : text'[i] = text[i],
         \A i \in S : text'[i] = <<>>,
         dropped'[f] = dropped[f], erased'[f] = erased[f]
  PROVE  Holds(f, known)'
<1>1. Range(<<>>) = {} /\ Len(<<>>) = 0
  BY DEF Range
<1>2. /\ \A i \in made[f] : InFile(i)' = InFile(i)
      /\ \A i \in S : InFile(i)' = {}
  BY <1>1 DEF InFile
<1>3. InFiles(f)' = InFiles(f)
  BY <1>2 DEF InFiles
<1>4. \A i, j \in made'[f] : i # j => InFile(i)' \cap InFile(j)' = {}
  BY <1>2 DEF Holds
<1>5. \A i \in made'[f] : Ascends(text'[i])
  <2>1. Ascends(<<>>)
    BY <1>1 DEF Ascends
  <2> QED  BY <2>1 DEF Holds
<1> QED  BY <1>3, <1>4, <1>5 DEF Holds

LEMMA HoldsSame ==
  ASSUME NEW f, NEW known, Holds(f, known),
         made'[f] = made[f], \A i \in made[f] : text'[i] = text[i],
         dropped'[f] = dropped[f], erased'[f] = erased[f]
  PROVE  Holds(f, known)'
<1>1. PICK S : S = {}
  OBVIOUS
<1>2. made'[f] = made[f] \cup S /\ \A i \in S : text'[i] = <<>>
  BY <1>1
<1> QED  BY <1>2, HoldsKept

(* A reopening with "w" takes what was in the inode from the file. *)
LEMMA HoldsErased ==
  ASSUME NEW f, NEW known, NEW i \in made[f], Holds(f, known), Mode[f] # "a",
         made'[f] = made[f], text'[i] = <<>>, \A j \in made[f] \ {i} : text'[j] = text[j],
         dropped'[f] = dropped[f], erased'[f] = erased[f] \cup Range(text[i])
  PROVE  Holds(f, known)'
<1>1. Range(<<>>) = {} /\ Len(<<>>) = 0
  BY DEF Range
<1>2. /\ \A j \in made[f] \ {i} : InFile(j)' = InFile(j)
      /\ InFile(i)' = {} /\ erased'[f] = erased[f] \cup InFile(i)
  BY <1>1 DEF InFile
<1>3. InFiles(f)' = UNION {InFile(j) : j \in made[f] \ {i}}
  BY <1>2 DEF InFiles
<1>4. InFiles(f) = InFiles(f)' \cup InFile(i)
  BY <1>3 DEF InFiles
<1>5. InFiles(f)' \cap InFile(i) = {}
  BY <1>3 DEF Holds
<1>6. \A j, k \in made'[f] : j # k => InFile(j)' \cap InFile(k)' = {}
  BY <1>2 DEF Holds
<1>7. \A j \in made'[f] : Ascends(text'[j])
  <2>1. Ascends(<<>>)
    BY <1>1 DEF Ascends
  <2> QED  BY <2>1 DEF Holds
<1>8. /\ InFiles(f)' \cup dropped'[f] \cup erased'[f] = known
      /\ InFiles(f)' \cap (dropped'[f] \cup erased'[f]) = {}
  BY <1>2, <1>4, <1>5 DEF Holds
<1> QED  BY <1>6, <1>7, <1>8 DEF Holds

(* The newest message is added to one inode of the file ... *)
LEMMA HoldsMore ==
  ASSUME HTypeOK, NEW f \in Files, NEW known, NEW i \in made[f], NEW c \in Nat,
         Holds(f, known), \A x \in known : x < c, c \notin known,
         made'[f] = made[f], text' = [text EXCEPT ![i] = Append(@, c)],
         dropped'[f] = dropped[f], erased'[f] = erased[f],
         NEW more, more = known \cup {c}
  PROVE  Holds(f, more)'
<1>1. made[f] \subseteq Inodes /\ text \in [Inodes -> Seq(Nat)]
  BY DEF HTypeOK
<1>2. text'[i] = Append(text[i], c) /\ \A j \in made[f] \ {i} : text'[j] = text[j]
  BY <1>1
<1>3. text[i] \in Seq(Nat) /\ Ascends(text[i]) /\ InFile(i) \subseteq known
  BY <1>1 DEF Holds, InFiles
<1>4. InFile(i)' = InFile(i) \cup {c} /\ Ascends(text'[i])
  BY <1>2, <1>3, AppendText DEF InFile
<1>5. \A j \in made[f] \ {i} : InFile(j)' = InFile(j) /\ InFile(j) \subseteq known
  BY <1>2 DEF InFile, Holds, InFiles
<1>6. InFiles(f)' = InFiles(f) \cup {c}
  <2>1. InFiles(f)' = UNION {InFile(j)' : j \in made[f]}
    BY DEF InFiles
  <2>2. InFiles(f) = UNION {InFile(j) : j \in made[f]}
    BY DEF InFiles
  <2> QED  BY <1>4, <1>5, <2>1, <2>2
<1>7. \A j, k \in made'[f] : j # k => InFile(j)' \cap InFile(k)' = {}
  <2> SUFFICES ASSUME NEW j \in made[f], NEW k \in made[f], j # k
               PROVE  InFile(j)' \cap InFile(k)' = {}
    OBVIOUS
  <2>1. InFile(j) \cap InFile(k) = {}
    BY DEF Holds
  <2> QED  BY <1>3, <1>4, <1>5, <2>1
<1>8. \A j \in made'[f] : Ascends(text'[j])
  BY <1>2, <1>4 DEF Holds
<1>9. /\ InFiles(f)' \cup dropped'[f] \cup erased'[f] = more
      /\ InFiles(f)' \cap (dropped'[f] \cup erased'[f]) = {}
  BY <1>6 DEF Holds
<1> QED  BY <1>7, <1>8, <1>9 DEF Holds

(* ... or is known to be missing. *)
LEMMA HoldsDropped ==
  ASSUME NEW f, NEW known, NEW c, Holds(f, known), c \notin known,
         made'[f] = made[f], text' = text,
         dropped'[f] = dropped[f] \cup {c}, erased'[f] = erased[f],
         NEW more, more = known \cup {c}
  PROVE  Holds(f, more)'
<1>1. InFiles(f)' = InFiles(f) /\ \A i \in made[f] : InFile(i)' = InFile(i)
  BY DEF InFiles, InFile
<1>2. InFiles(f) \subseteq known
  BY DEF Holds
<1> QED  BY <1>1, <1>2 DEF Holds

(* No other step changes what a file holds. *)
LEMMA HoldsNext ==
  ASSUME FTypeOK, HTypeOK, InodeInv, [Next]_fvars, ~Fprintf,
         NEW f \in Files, NEW known, Holds(f, known)
  PROVE  Holds(f, known)'
<1>1. /\ Owned /\ Apart /\ Clean
      /\ made \in [Files -> SUBSET Inodes] /\ text \in [Inodes -> Seq(Nat)]
      /\ erased \in [Files -> SUBSET Nat]
  BY DEF InodeInv, HTypeOK
<1>2. ASSUME UNCHANGED <<text, dropped>>, erased'[f] = erased[f],
             NEW S, S \subseteq Fresh, made'[f] = made[f] \cup S
      PROVE  Holds(f, known)'
  <2>1. \A i \in S : text'[i] = <<>>
    BY <1>1, <1>2 DEF Clean
  <2>2. dropped'[f] = dropped[f] /\ \A i \in made[f] : text'[i] = text[i]
    BY <1>2
  <2> QED  BY <1>2, <2>1, <2>2, HoldsKept
<1>3. ASSUME UNCHANGED <<text, dropped, erased, made>> PROVE Holds(f, known)'
  BY <1>3, HoldsSame
<1>4. CASE FopenWorks
  <2>1. Here \in Files /\ dropped' = dropped
    BY <1>4, TopIs DEF FopenWorks, At
  <2>2. CASE FopenFound
    <3>1. PICK i \in made[Here] : i = disk[Here] /\ i \in Inodes /\ made' = made
      BY <1>1, <2>1, <2>2 DEF FopenFound, Owned
    <3>2. CASE Mode[Here] = "w"
      <4>1. /\ text' = [text EXCEPT ![i] = <<>>]
            /\ erased' = [erased EXCEPT ![Here] = @ \cup Range(text[i])]
        BY <2>2, <3>1, <3>2 DEF FopenFound
      <4>2. /\ text'[i] = <<>> /\ \A j \in Inodes \ {i} : text'[j] = text[j]
            /\ erased'[Here] = erased[Here] \cup Range(text[i])
            /\ \A g \in Files \ {Here} : erased'[g] = erased[g]
        BY <1>1, <2>1, <3>1, <4>1
      <4>3. CASE f = Here
        <5>1. Mode[f] # "a"
          BY <3>2, <4>3
        <5>2. \A j \in made[f] \ {i} : text'[j] = text[j]
          BY <1>1, <4>2
        <5>3. made'[f] = made[f] /\ dropped'[f] = dropped[f]
          BY <2>1, <3>1
        <5> QED  BY <3>1, <4>2, <4>3, <5>1, <5>2, <5>3, HoldsErased
      <4>4. CASE f # Here
        <5>1. i \notin made[f]
          BY <1>1, <2>1, <3>1, <4>4 DEF Apart
        <5>2. \A j \in made[f] : text'[j] = text[j]
          BY <1>1, <4>2, <5>1
        <5>3. made'[f] = made[f] /\ dropped'[f] = dropped[f] /\ erased'[f] = erased[f]
          BY <2>1, <3>1, <4>2, <4>4
        <5> QED  BY <5>2, <5>3, HoldsSame
      <4> QED  BY <4>3, <4>4
    <3>3. CASE Mode[Here] # "w"
      <4>1. UNCHANGED <<text, erased>>
        BY <2>2, <3>3 DEF FopenFound
      <4> QED  BY <1>3, <2>1, <3>1, <4>1
    <3> QED  BY <3>2, <3>3
  <2>3. CASE FopenMakes
    <3>1. PICK i \in Fresh : made' = [made EXCEPT ![Here] = @ \cup {i}] /\ UNCHANGED <<text, erased>>
      BY <2>3 DEF FopenMakes
    <3>2. PICK S : S \subseteq Fresh /\ S = IF f = Here THEN {i} ELSE {}
      BY <3>1
    <3>3. made'[f] = made[f] \cup S
      BY <1>1, <2>1, <3>1, <3>2
    <3> QED  BY <1>2, <2>1, <3>1, <3>2, <3>3
  <2> QED  BY <1>4, <2>2, <2>3 DEF FopenWorks
<1>5. CASE \E g \in Files : Rotate(g)
  <2>1. PICK g \in Files : Rotate(g)
    BY <1>5
  <2>2. PICK i \in (Fresh \cup aside[g] \cup {None}) \ {disk[g]} :
          made' = [made EXCEPT ![g] = @ \cup ({i} \ {None})]
    BY <2>1 DEF Rotate
  <2>3. UNCHANGED <<text, dropped, erased>>
    BY <2>1 DEF Rotate
  <2>4. PICK S : S \subseteq Fresh /\ S = IF f = g THEN {i} \cap Fresh ELSE {}
    OBVIOUS
  <2>5. aside[g] \subseteq made[g] /\ None \notin Fresh
    BY <1>1, FilesAssumption DEF Owned, Fresh
  <2>6. made'[f] = made[f] \cup S
    BY <1>1, <2>2, <2>4, <2>5
  <2> QED  BY <1>2, <2>3, <2>4, <2>6
<1>6. CASE Log \/ FileLog \/ Mkdir \/ FopenFails \/ Stat \/ FlushNow \/ FlushAll \/ Tick
           \/ UNCHANGED fvars
  <2>1. UNCHANGED <<text, dropped, erased, made>>
    BY <1>6 DEF Log, FileLog, Mkdir, FopenFails, Stat, FlushNow, FlushAll, Tick, fvars, inodes,
                history
  <2> QED  BY <1>3, <2>1
<1> QED  BY <1>4, <1>5, <1>6 DEF Next

(* The message goes to the inode of the stream, or there is no stream. *)
LEMMA FprintfHolds ==
  ASSUME FTypeOK, FTypeOK', HistoryInv, Fprintf
  PROVE  MsgInv' /\ HoldInv'
<1>1. PICK d \in Nat \ {0} : d = Len(stack) /\ Top = stack[d] /\ Top \in Frame
  BY TopIs DEF Fprintf, At
<1>2. /\ Busy /\ Top.at = "print" /\ Goto("flush") /\ calls' = calls /\ Here \in Files
      /\ UNCHANGED <<made, erased>>
  BY TopIs DEF Fprintf, At, inodes
<1>3. /\ MsgInv' /\ Busy' /\ stack'[1].k = stack[1].k
      /\ d = 1 => stack'[1].at = "flush"
      /\ d # 1 => stack'[1] = stack[1]
  BY <1>1, <1>2, MsgGoes DEF HistoryInv, Places
<1>4. Top.msg \in Nat /\ Top.k \in 1..Len(Order) /\ Here = Order[Top.k]
  BY <1>1 DEF Frame, Here
<1>5. /\ made \in [Files -> SUBSET Inodes] /\ text \in [Inodes -> Seq(Nat)]
      /\ dropped \in [Files -> SUBSET Nat] /\ fp \in [Files -> Inodes \cup {None}]
      /\ Apart /\ (fp[Here] # None => fp[Here] \in made[Here])
  BY <1>2 DEF HistoryInv, HTypeOK, InodeInv, Owned
<1>6. \/ fp[Here] = None /\ text' = text /\ dropped' = [dropped EXCEPT ![Here] = @ \cup ({Top.msg} \ {0})]
      \/ fp[Here] # None /\ Put(Top.msg) /\ dropped' = dropped
  BY DEF Fprintf
<1>7. CASE d # 1
  <2>1. Top.msg = 0
    <3>1. d \in 2..Len(stack)
      BY <1>1, <1>7
    <3> QED  BY <1>1, <3>1 DEF HistoryInv, MsgInv
  <2>2. text' = text /\ dropped' = dropped
    BY <1>2, <1>5, <1>6, <2>1 DEF Put
  <2>3. \A p : Known(p)' = Known(p)
    BY <1>2, <1>3, <1>7 DEF Known, Due
  <2>4. ASSUME NEW p \in 1..Len(Order) PROVE Holds(Order[p], Known(p))'
    <3>1. Holds(Order[p], Known(p))
      BY DEF HistoryInv, HoldInv
    <3>2. PICK f, known : f = Order[p] /\ known = Known(p)
      OBVIOUS
    <3>3. Holds(f, known)'
      BY <1>2, <2>2, <3>1, <3>2, HoldsSame
    <3> QED  BY <2>3, <3>2, <3>3
  <2> QED  BY <1>3, <2>4 DEF HoldInv
<1>8. CASE d = 1
  <2>1. Top.msg = calls /\ calls > 0 /\ calls \in Nat /\ Top = stack[1]
    BY <1>1, <1>2, <1>8 DEF HistoryInv, MsgInv, FTypeOK
  <2>2. PICK k \in 1..Len(Order) : k = stack[1].k /\ k = stack'[1].k /\ Here = Order[k]
    BY <1>3, <1>4, <2>1
  <2>3. \/ fp[Here] = None /\ text' = text /\ dropped' = [dropped EXCEPT ![Here] = @ \cup {calls}]
        \/ /\ fp[Here] # None /\ dropped' = dropped
           /\ text' = [text EXCEPT ![fp[Here]] = Append(@, calls)]
    BY <1>6, <2>1 DEF Put
  <2>4. ASSUME NEW p \in 1..Len(Order), p # k PROVE Holds(Order[p], Known(p))'
    <3>1. PICK f \in Files : f = Order[p] /\ f # Here
      BY <2>2, <2>4, OrderType, OrderOnce
    <3>2. Due(p)' <=> Due(p)
      BY <1>1, <1>2, <1>3, <1>8, <2>2, <2>4 DEF Due
    <3>3. PICK known : known = Known(p) /\ known = Known(p)' /\ Holds(f, known)
      BY <1>2, <3>1, <3>2 DEF Known, HistoryInv, HoldInv
    <3>4. dropped'[f] = dropped[f] /\ erased'[f] = erased[f] /\ made'[f] = made[f]
      BY <1>2, <1>5, <2>3, <3>1
    <3>5. fp[Here] # None => fp[Here] \notin made[f] /\ fp[Here] \in Inodes
      BY <1>2, <1>5, <3>1 DEF Apart
    <3>6. \A i \in made[f] : text'[i] = text[i]
      BY <1>5, <2>3, <3>5
    <3>7. Holds(f, known)'
      BY <3>3, <3>4, <3>6, HoldsSame
    <3> QED  BY <3>1, <3>3, <3>7
  <2>5. Holds(Order[k], Known(k))'
    <3>1. Due(k) /\ ~Due(k)'
      BY <1>2, <1>3, <1>8, <2>1, <2>2 DEF Due
    <3>2. Known(k) = 1..(calls - 1) /\ Known(k)' = 1..calls
      BY <1>2, <3>1 DEF Known
    <3>3. PICK known, more : known = 1..(calls - 1) /\ more = 1..calls
      OBVIOUS
    <3>4. more = known \cup {calls} /\ calls \notin known /\ \A x \in known : x < calls
      BY <2>1, <3>3
    <3>5. Holds(Here, known)
      BY <2>2, <3>2, <3>3 DEF HistoryInv, HoldInv
    <3>6. made'[Here] = made[Here] /\ erased'[Here] = erased[Here]
      BY <1>2
    <3>7. PICK f \in Files : f = Here
      BY <1>2
    <3>8. Holds(f, more)'
      <4>1. CASE fp[Here] = None
        <5>1. text' = text /\ dropped'[f] = dropped[f] \cup {calls}
          BY <1>5, <2>3, <3>7, <4>1
        <5> QED  BY <3>4, <3>5, <3>6, <3>7, <5>1, HoldsDropped
      <4>2. CASE fp[Here] # None
        <5>1. PICK i \in made[f] : i = fp[Here]
          BY <1>5, <3>7, <4>2
        <5>2. text' = [text EXCEPT ![i] = Append(@, calls)] /\ dropped'[f] = dropped[f]
          BY <2>3, <4>2, <5>1
        <5> QED  BY <2>1, <3>4, <3>5, <3>6, <3>7, <5>2, HoldsMore DEF HistoryInv
      <4> QED  BY <4>1, <4>2
    <3> QED  BY <2>2, <3>2, <3>3, <3>7, <3>8
  <2> QED  BY <1>3, <2>4, <2>5 DEF HoldInv
<1> QED  BY <1>7, <1>8

(* What each file holds is kept known by every step. *)
LEMMA NextHistory ==
  ASSUME FTypeOK, ReopenInv, FTypeOK', HistoryInv, [Next]_fvars
  PROVE  HistoryInv'
<1>1. MsgInv /\ HoldInv /\ HTypeOK /\ InodeInv
  BY DEF HistoryInv
<1>2. HTypeOK' /\ InodeInv'
  BY <1>1, HTypeNext, InodeNext
<1>3. CASE Fprintf
  BY <1>2, <1>3, FprintfHolds DEF HistoryInv
<1>4. CASE ~Fprintf
  <2>1. MsgInv' /\ \A p \in 1..Len(Order) : Known(p)' = Known(p)
    <3>1. CASE Log
      BY <3>1, LogKnown
    <3>2. CASE FlushNow
      BY <1>1, <3>2, NextCallKnown
    <3>3. CASE FileLog
      <4>1. Busy /\ Top.at = "file_log" /\ calls' = calls
        BY <3>3 DEF FileLog, At
      <4>2. \/ Goto("flush") /\ is_reopening[Here]
            \/ LogThenGo("mkdir") \/ Goto("print")
        BY <3>3 DEF FileLog, Skips
      <4>3. ASSUME is_reopening[Here] PROVE Len(stack) # 1
        <5>1. Here \in Files /\ Len(stack) \in Nat \ {0} /\ Top = stack[Len(stack)]
          BY <4>1, TopIs
        <5>2. PICK n \in 1..Len(stack) : stack[n].at \in ReopenAt \cup {"print"}
          BY <4>3, <5>1 DEF ReopenInv, Unmarked
        <5>3. stack[n].at # "file_log"
          BY <5>2 DEF ReopenAt, Closing
        <5> QED  BY <4>1, <5>1, <5>2, <5>3
      <4>4. \E l \in Places : (Goto(l) \/ LogThenGo(l)) /\ (l = "flush" => Len(stack) # 1)
        BY <4>2, <4>3 DEF Places
      <4> QED  BY <1>1, <4>1, <4>4, ReopenKnown
    <3>4. CASE Mkdir \/ FopenWorks \/ FopenFails \/ Stat
      <4>1. Busy /\ Top.at # "flush" /\ calls' = calls
        BY <3>4 DEF Mkdir, FopenWorks, FopenFails, Stat, At
      <4>2. \E l \in Places : (Goto(l) \/ LogThenGo(l)) /\ l # "flush"
        BY <3>4 DEF Mkdir, FopenWorks, FopenFails, Stat, Places
      <4> QED  BY <1>1, <4>1, <4>2, ReopenKnown
    <3>5. CASE FlushAll \/ Tick \/ (\E f \in Files : Rotate(f)) \/ UNCHANGED fvars
      <4>1. UNCHANGED <<stack, calls>>
        BY <3>5 DEF FlushAll, Tick, Rotate, fvars
      <4> QED  BY <1>1, <4>1 DEF MsgInv, Busy, Known, Due
    <3> QED  BY <1>4, <3>1, <3>2, <3>3, <3>4, <3>5 DEF Next
  <2>2. ASSUME NEW p \in 1..Len(Order) PROVE Holds(Order[p], Known(p))'
    <3>1. PICK f \in Files : f = Order[p]
      BY OrderType
    <3>2. PICK known : known = Known(p)
      OBVIOUS
    <3>3. Holds(f, known)'
      BY <1>1, <1>4, <3>1, <3>2, HoldsNext DEF HoldInv
    <3> QED  BY <2>1, <3>1, <3>2, <3>3
  <2> QED  BY <1>2, <2>1, <2>2 DEF HistoryInv, HoldInv
<1> QED  BY <1>3, <1>4

(* It holds to begin with. *)
LEMMA InitHistory == Init => HistoryInv
<1> SUFFICES ASSUME Init PROVE HistoryInv
  OBVIOUS
<1>1. PICK start \in [Files -> Inodes] :
        /\ IsInjective(start) /\ disk = start /\ fp = start /\ st_ino = start
        /\ made = [f \in Files |-> {start[f]}]
  BY DEF Init
<1>2. /\ stack = <<>> /\ calls = 0 /\ due = [f \in Files |-> FALSE]
      /\ aside = [f \in Files |-> {}] /\ text = [i \in Inodes |-> <<>>]
      /\ dropped = [f \in Files |-> {}] /\ erased = [f \in Files |-> {}]
      /\ rotated = [f \in Files |-> FALSE]
  BY DEF Init
<1>3. HTypeOK
  <2>1. <<>> \in Seq(Nat)
    OBVIOUS
  <2> QED  BY <1>1, <1>2, <2>1 DEF HTypeOK
<1>4. MsgInv
  BY <1>2 DEF MsgInv, Busy
<1>5. InodeInv
  <2>1. Owned
    BY <1>1, <1>2 DEF Owned
  <2>2. Apart
    <3>1. \A f, g \in Files : start[f] = start[g] => f = g
      BY <1>1 DEF IsInjective
    <3> QED  BY <1>1, <3>1 DEF Apart
  <2>3. Clean
    BY <1>2 DEF Clean, Fresh
  <2> QED  BY <2>1, <2>2, <2>3 DEF InodeInv
<1>6. HoldInv
  <2>1. Range(<<>>) = {} /\ Len(<<>>) = 0 /\ Ascends(<<>>)
    BY DEF Range, Ascends
  <2>2. 1..0 = {}
    OBVIOUS
  <2>3. ASSUME NEW f \in Files PROVE Holds(f, {})
    <3>1. \A i \in made[f] : text[i] = <<>>
      BY <1>1, <1>2, <2>3
    <3>2. \A i \in made[f] : InFile(i) = {}
      BY <2>1, <3>1 DEF InFile
    <3>3. InFiles(f) = {}
      BY <3>2 DEF InFiles
    <3> QED  BY <1>2, <2>1, <3>1, <3>2, <3>3 DEF Holds
  <2>4. ASSUME NEW p \in 1..Len(Order) PROVE Order[p] \in Files /\ Known(p) = {}
    BY <1>2, <2>2, OrderType DEF Known, Due, Busy
  <2> QED  BY <2>3, <2>4 DEF HoldInv
<1> QED  BY <1>3, <1>4, <1>5, <1>6 DEF HistoryInv

(* Each message of the program is in exactly one of the files made at a     *)
(* path, once and in order, or the file could not be opened for it, or a    *)
(* reopening truncated it away, at whatever moment files are moved.         *)
THEOREM NothingLostCorrect == Spec => []NothingLostByRotation
<1>1. FTypeOK /\ HistoryInv => NothingLostByRotation
  <2> SUFFICES ASSUME FTypeOK, HistoryInv, ~Busy, NEW f \in Files
               PROVE  /\ InFiles(f) \cup dropped[f] \cup erased[f] = 1..calls
                      /\ InFiles(f) \cap (dropped[f] \cup erased[f]) = {}
                      /\ \A i, j \in made[f] : i # j => InFile(i) \cap InFile(j) = {}
                      /\ \A i \in made[f] : \A m, n \in DOMAIN text[i] :
                           m < n => text[i][m] < text[i][n]
                      /\ Mode[f] = "a" => erased[f] = {}
    BY DEF NothingLostByRotation
  <2>1. PICK p \in 1..Len(Order) : Order[p] = f
    BY OrderAll
  <2>2. Known(p) = 1..calls
    BY DEF Known, Due
  <2>3. Holds(f, 1..calls)
    BY <2>1, <2>2 DEF HistoryInv, HoldInv
  <2>4. \A i \in made[f] : Ascends(text[i]) /\ DOMAIN text[i] = 1..Len(text[i])
    BY <2>3 DEF HistoryInv, HTypeOK, Holds
  <2> QED  BY <2>3, <2>4 DEF Holds, Ascends
<1>2. FTypeOK /\ ReopenInv /\ FTypeOK' /\ HistoryInv /\ [Next]_fvars => HistoryInv'
  BY NextHistory
<1> QED  BY <1>1, <1>2, InitHistory, ReopenInvariant, PTL DEF Spec

-----------------------------------------------------------------------------
(***************************************************************************)
(* What stat last gave for a file is the inode its stream writes to, but   *)
(* between the fopen and the stat of file_reopen: then, if no file moves   *)
(* in between, it is the one at the path.                                  *)
(***************************************************************************)
StatAt(f) == \E n \in 1..Len(stack) : File(n) = f /\ stack[n].at = "stat"
StatInv ==
  \A f \in Files :
    /\ StatAt(f) => fp[f] = disk[f]
    /\ ~StatAt(f) => fp[f] = None \/ st_ino[f] = fp[f]

(* Who is at its stat when the innermost call goes on. *)
LEMMA StatGoes ==
  ASSUME FTypeOK, ReopenInv, Busy, NEW l \in Places, Goto(l) \/ LogThenGo(l),
         NEW f \in Files
  PROVE  /\ f # Here \/ (Top.at # "stat" /\ l # "stat") => (StatAt(f)' <=> StatAt(f))
         /\ f = Here /\ Top.at \notin {"file_log", "flush"} => (StatAt(f)' <=> l = "stat")
<1>1. PICK d \in Nat \ {0} : d = Len(stack) /\ Top = stack[d] /\ Here = File(d)
  BY TopIs
<1>2. /\ Len(stack') \in {d, d + 1}
      /\ \A n \in 1..(d - 1) : stack'[n] = stack[n]
      /\ stack'[d].k = Top.k /\ stack'[d].at = l
      /\ Len(stack') = d + 1 => stack'[d + 1].at = "file_log"
  <2>1. CASE Goto(l)
    BY <1>1, <2>1, GotoIs
  <2>2. CASE LogThenGo(l)
    BY <1>1, <2>2, LogThenGoIs
  <2> QED  BY <2>1, <2>2
<1>3. /\ \A n \in 1..(d - 1) : File(n)' = File(n)
      /\ File(d)' = Here
  BY <1>1, <1>2 DEF File
<1>4. ASSUME NEW g \in Files
      PROVE  StatAt(g)' <=> \/ \E n \in 1..(d - 1) : File(n) = g /\ stack[n].at = "stat"
                            \/ g = Here /\ l = "stat"
  <2>1. \A n \in 1..Len(stack') : n \in 1..(d - 1) \/ n = d \/ stack'[n].at = "file_log"
    BY <1>1, <1>2
  <2>2. \A n \in 1..d : n \in 1..Len(stack')
    BY <1>1, <1>2
  <2>3. d \in 1..d /\ \A n \in 1..(d - 1) : n \in 1..d
    BY <1>1
  <2> QED  BY <1>2, <1>3, <2>1, <2>2, <2>3 DEF StatAt
<1>5. ASSUME NEW g \in Files
      PROVE  StatAt(g) <=> \/ \E n \in 1..(d - 1) : File(n) = g /\ stack[n].at = "stat"
                           \/ g = Here /\ Top.at = "stat"
  <2>1. \A n \in 1..d : n \in 1..(d - 1) \/ n = d
    BY <1>1
  <2>2. d \in 1..d /\ \A n \in 1..(d - 1) : n \in 1..d
    BY <1>1
  <2> QED  BY <1>1, <2>1, <2>2 DEF StatAt
<1>6. f # Here \/ (Top.at # "stat" /\ l # "stat") => (StatAt(f)' <=> StatAt(f))
  BY <1>4, <1>5
<1>7. ASSUME f = Here, Top.at \notin {"file_log", "flush"} PROVE StatAt(f)' <=> l = "stat"
  <2>1. \A n \in 1..(d - 1) : File(n) # Here
    BY <1>1, <1>7, TopAlone
  <2> QED  BY <1>4, <1>7, <2>1
<1> QED  BY <1>6, <1>7

(* And when it goes on to the next callback, or returns. *)
LEMMA StatNextCall ==
  ASSUME FTypeOK, ReopenInv, FlushNow, NEW f \in Files
  PROVE  StatAt(f)' <=> StatAt(f)
<1>1. PICK d \in Nat \ {0} : d = Len(stack) /\ Top = stack[d] /\ Top \in Frame
  BY TopIs DEF FlushNow, At
<1>2. Busy /\ Top.at = "flush"
  BY DEF FlushNow, At
<1>3. /\ Front(stack) \in Seq(Frame) /\ Len(Front(stack)) = d - 1
      /\ \A n \in 1..(d - 1) : Front(stack)[n] = stack[n]
  BY <1>1, <1>2, FrontIs DEF FTypeOK, Busy
<1>4. PICK next : next = [Top EXCEPT !.k = @ + 1, !.at = "file_log"]
  OBVIOUS
<1>5. next.at = "file_log"
  BY <1>1, <1>4 DEF Frame
<1>6. \/ stack' = Append(Front(stack), next)
      \/ stack' = Front(stack)
  BY <1>4 DEF FlushNow
<1>7. /\ Len(stack') \in {d, d - 1}
      /\ \A n \in 1..(d - 1) : stack'[n] = stack[n]
      /\ Len(stack') = d => stack'[d].at = "file_log"
  BY <1>1, <1>3, <1>5, <1>6
<1>8. /\ \A n \in 1..(d - 1) : File(n)' = File(n) /\ n \in 1..Len(stack') /\ n \in 1..Len(stack)
      /\ \A n \in 1..Len(stack') : n \in 1..(d - 1) \/ stack'[n].at = "file_log"
      /\ \A n \in 1..Len(stack) : n \in 1..(d - 1) \/ stack[n].at = "flush"
  <2>1. \A n \in 1..(d - 1) : File(n)' = File(n)
    BY <1>7 DEF File
  <2>2. \A n \in 1..(d - 1) : n \in 1..Len(stack') /\ n \in 1..Len(stack)
    BY <1>1, <1>7
  <2>3. \A n \in 1..Len(stack') : n \in 1..(d - 1) \/ stack'[n].at = "file_log"
    BY <1>1, <1>7
  <2>4. \A n \in 1..Len(stack) : n \in 1..(d - 1) \/ stack[n].at = "flush"
    BY <1>1, <1>2
  <2> QED  BY <2>1, <2>2, <2>3, <2>4
<1> QED  BY <1>7, <1>8 DEF StatAt

(* A step of file_log or file_reopen that opens and asks nothing. *)
LEMMA StatKept ==
  ASSUME FTypeOK, ReopenInv, StatInv, Busy, NEW l \in Places, Goto(l) \/ LogThenGo(l),
         UNCHANGED <<disk, fp, st_ino>>, Top.at # "stat", l # "stat"
  PROVE  StatInv'
BY StatGoes DEF StatInv

(* fopen, and the stat that follows it. *)
LEMMA StatOpen ==
  ASSUME FTypeOK, ReopenInv, HTypeOK, StatInv, FopenWorks \/ FopenFails \/ Stat
  PROVE  StatInv'
<1>1. PICK h \in Files : h = Here /\ Busy /\ Top.at \in {"fopen", "stat"}
  BY TopIs DEF FopenWorks, FopenFails, Stat, At
<1>2. /\ disk \in [Files -> Inodes \cup {None}] /\ fp \in [Files -> Inodes \cup {None}]
      /\ st_ino \in [Files -> Inodes \cup {None}]
  BY DEF HTypeOK
<1>3. CASE FopenWorks
  <2>1. Goto("stat") /\ st_ino' = st_ino
    BY <1>3 DEF FopenWorks
  <2>2. \/ fp' = [fp EXCEPT ![Here] = disk[Here]] /\ disk' = disk
        \/ \E i \in Fresh : fp' = [fp EXCEPT ![Here] = i] /\ disk' = [disk EXCEPT ![Here] = i]
    BY <1>3 DEF FopenWorks, FopenFound, FopenMakes, OpenAs
  <2>3. /\ fp'[h] = disk'[h]
        /\ \A f \in Files \ {h} : fp'[f] = fp[f] /\ disk'[f] = disk[f]
    BY <1>1, <1>2, <2>2
  <2>4. \A f \in Files \ {h} : StatAt(f)' <=> StatAt(f)
    BY <1>1, <2>1, StatGoes DEF Places
  <2>5. StatAt(h)'
    BY <1>1, <2>1, StatGoes DEF Places
  <2> QED  BY <2>1, <2>3, <2>4, <2>5 DEF StatInv
<1>4. CASE FopenFails
  <2>1. LogThenGo("print") /\ UNCHANGED <<disk, st_ino>> /\ fp' = [fp EXCEPT ![Here] = None]
    BY <1>4 DEF FopenFails, OpenAs, inodes
  <2>2. fp'[h] = None /\ \A f \in Files \ {h} : fp'[f] = fp[f]
    BY <1>1, <1>2, <2>1
  <2>3. \A f \in Files \ {h} : StatAt(f)' <=> StatAt(f)
    BY <1>1, <2>1, StatGoes DEF Places
  <2>4. ~StatAt(h)'
    BY <1>1, <2>1, StatGoes DEF Places
  <2> QED  BY <2>1, <2>2, <2>3, <2>4 DEF StatInv
<1>5. CASE Stat
  <2>1. /\ Top.at = "stat" /\ Goto("print") /\ UNCHANGED <<disk, fp>>
        /\ st_ino' = IF disk[Here] = None THEN st_ino ELSE [st_ino EXCEPT ![Here] = disk[Here]]
    BY <1>5 DEF Stat, At, inodes
  <2>2. /\ disk[h] # None => st_ino'[h] = disk[h]
        /\ \A f \in Files \ {h} : st_ino'[f] = st_ino[f]
    BY <1>1, <1>2, <2>1
  <2>3. fp[h] = disk[h]
    <3>1. Len(stack) \in 1..Len(stack) /\ Top = stack[Len(stack)] /\ File(Len(stack)) = Here
      BY <1>1, TopIs
    <3>2. StatAt(h)
      BY <1>1, <2>1, <3>1 DEF StatAt
    <3> QED  BY <1>1, <3>2 DEF StatInv
  <2>4. \A f \in Files \ {h} : StatAt(f)' <=> StatAt(f)
    BY <1>1, <2>1, StatGoes DEF Places
  <2>5. ~StatAt(h)'
    BY <1>1, <2>1, StatGoes DEF Places
  <2> QED  BY <2>1, <2>2, <2>3, <2>4, <2>5 DEF StatInv
<1> QED  BY <1>3, <1>4, <1>5

(* If no file moves between fopen and stat, every step keeps this. *)
LEMMA NextStat ==
  ASSUME ~RotateInReopen, FTypeOK, ReopenInv, HTypeOK, StatInv, [Next]_fvars
  PROVE  StatInv'
<1>1. ASSUME UNCHANGED <<stack, disk, fp, st_ino>> PROVE StatInv'
  BY <1>1 DEF StatInv, StatAt, File
<1>2. CASE Log
  <2>1. stack = <<>> /\ UNCHANGED <<disk, fp, st_ino>>
    BY <1>2 DEF Log, Busy, inodes, streams
  <2>2. Len(stack') = 1 /\ stack'[1].at = "file_log"
    BY <1>2 DEF Log, NewCall
  <2>3. \A f \in Files : ~StatAt(f) /\ ~StatAt(f)'
    BY <2>1, <2>2 DEF StatAt
  <2> QED  BY <2>1, <2>3 DEF StatInv
<1>3. CASE FileLog \/ Mkdir \/ Fprintf
  <2>1. Busy /\ Top.at # "stat" /\ UNCHANGED <<disk, fp, st_ino>>
    BY <1>3 DEF FileLog, Mkdir, Fprintf, At, inodes, streams
  <2>2. \E l \in Places : (Goto(l) \/ LogThenGo(l)) /\ l # "stat"
    BY <1>3 DEF FileLog, Mkdir, Fprintf, Places
  <2> QED  BY <2>1, <2>2, StatKept
<1>4. CASE FopenWorks \/ FopenFails \/ Stat
  BY <1>4, StatOpen
<1>5. CASE FlushNow
  <2>1. UNCHANGED <<disk, fp, st_ino>>
    BY <1>5 DEF FlushNow, inodes, streams
  <2> QED  BY <1>5, <2>1, StatNextCall DEF StatInv
<1>6. CASE FlushAll \/ Tick \/ UNCHANGED fvars
  BY <1>1, <1>6 DEF FlushAll, Tick, fvars, inodes, streams
<1>7. CASE \E f \in Files : Rotate(f)
  <2>1. UNCHANGED <<stack, fp, st_ino>> /\ \A n \in DOMAIN stack : stack[n].at # "stat"
    BY <1>7 DEF Rotate, streams
  <2>2. DOMAIN stack = 1..Len(stack)
    BY DEF FTypeOK
  <2>3. \A f \in Files : ~StatAt(f) /\ ~StatAt(f)'
    BY <2>1, <2>2 DEF StatAt, File
  <2> QED  BY <2>1, <2>3 DEF StatInv
<1> QED  BY <1>2, <1>3, <1>4, <1>5, <1>6, <1>7 DEF Next

(* So an open stream is that of the file at its path, or the path changed   *)
(* after the last check.                                                    *)
LEMMA NextCurrent ==
  ASSUME FTypeOK, ReopenInv, HTypeOK, StatInv, StreamIsCurrent, [Next]_fvars
  PROVE  StreamIsCurrent'
<1>1. /\ disk \in [Files -> Inodes \cup {None}] /\ fp \in [Files -> Inodes \cup {None}]
      /\ rotated \in [Files -> BOOLEAN] /\ closed \in [Files -> BOOLEAN]
  BY DEF HTypeOK, FTypeOK
<1>2. ASSUME UNCHANGED <<disk, fp, closed, rotated>> PROVE StreamIsCurrent'
  BY <1>2 DEF StreamIsCurrent
<1>3. CASE FileLog
  <2>1. /\ Busy /\ Top.at = "file_log" /\ Here \in Files /\ UNCHANGED <<disk, fp>>
    BY <1>3, TopIs DEF FileLog, At, inodes
  <2>2. CASE Skips(Here)
    BY <1>2, <1>3, <2>1, <2>2 DEF FileLog
  <2>3. CASE ~Skips(Here)
    <3>1. /\ rotated' = [rotated EXCEPT ![Here] = @ /\ ~due[Here]]
          /\ \/ due[Here] /\ Changed(Here) /\ closed' = [closed EXCEPT ![Here] = fp[Here] # None]
             \/ ~(due[Here] /\ Changed(Here)) /\ closed' = closed
      BY <1>3, <2>3 DEF FileLog
    <3>2. ~StatAt(Here)
      <4>1. ~is_reopening[Here]
        BY <2>3 DEF Skips
      <4>2. \A n \in 1..Len(stack) : File(n) = Here => stack[n].at \notin ReopenAt
        BY <4>1 DEF ReopenInv, Marked
      <4> QED  BY <4>2 DEF StatAt, ReopenAt
    <3>3. \A f \in Files \ {Here} : rotated'[f] = rotated[f] /\ closed'[f] = closed[f]
      BY <1>1, <3>1
    <3>4. ASSUME fp[Here] # None, ~closed'[Here], ~rotated'[Here] PROVE fp[Here] = disk[Here]
      <4>1. CASE due[Here]
        <5>1. ~Changed(Here)
          <6>1. Changed(Here) => closed' = [closed EXCEPT ![Here] = fp[Here] # None]
            BY <3>1, <4>1
          <6>2. Changed(Here) => closed'[Here] = (fp[Here] # None)
            BY <1>1, <2>1, <6>1
          <6> QED  BY <3>4, <6>2
        <5> QED  BY <2>1, <3>2, <3>4, <5>1 DEF Changed, StatInv
      <4>2. CASE ~due[Here]
        <5>1. ~rotated[Here] /\ ~closed[Here]
          BY <1>1, <2>1, <3>1, <3>4, <4>2
        <5> QED  BY <2>1, <3>4, <5>1 DEF StreamIsCurrent
      <4> QED  BY <4>1, <4>2
    <3> QED  BY <2>1, <3>3, <3>4 DEF StreamIsCurrent
  <2> QED  BY <2>2, <2>3
<1>4. CASE FopenWorks
  <2>1. Here \in Files /\ rotated' = rotated /\ closed' = [closed EXCEPT ![Here] = FALSE]
    BY <1>4, TopIs DEF FopenWorks, FopenFound, FopenMakes, OpenAs, At
  <2>2. \/ fp' = [fp EXCEPT ![Here] = disk[Here]] /\ disk' = disk
        \/ \E i \in Fresh : fp' = [fp EXCEPT ![Here] = i] /\ disk' = [disk EXCEPT ![Here] = i]
    BY <1>4 DEF FopenWorks, FopenFound, FopenMakes, OpenAs
  <2>3. /\ fp'[Here] = disk'[Here]
        /\ \A f \in Files \ {Here} : fp'[f] = fp[f] /\ disk'[f] = disk[f] /\ closed'[f] = closed[f]
    BY <1>1, <2>1, <2>2
  <2> QED  BY <2>1, <2>3 DEF StreamIsCurrent
<1>5. CASE FopenFails
  <2>1. /\ Here \in Files /\ UNCHANGED <<disk, rotated>> /\ fp' = [fp EXCEPT ![Here] = None]
        /\ closed' = [closed EXCEPT ![Here] = FALSE]
    BY <1>5, TopIs DEF FopenFails, OpenAs, At, inodes, history
  <2>2. fp'[Here] = None /\ \A f \in Files \ {Here} : fp'[f] = fp[f] /\ closed'[f] = closed[f]
    BY <1>1, <2>1
  <2> QED  BY <2>1, <2>2 DEF StreamIsCurrent
<1>6. CASE \E f \in Files : Rotate(f)
  <2>1. PICK f \in Files : Rotate(f)
    BY <1>6
  <2>2. PICK i : disk' = [disk EXCEPT ![f] = i]
    BY <2>1 DEF Rotate
  <2>3. UNCHANGED <<fp, closed>> /\ rotated' = [rotated EXCEPT ![f] = TRUE]
    BY <2>1 DEF Rotate, streams
  <2>4. rotated'[f] /\ \A g \in Files \ {f} : rotated'[g] = rotated[g] /\ disk'[g] = disk[g]
    BY <1>1, <2>2, <2>3
  <2> QED  BY <2>3, <2>4 DEF StreamIsCurrent
<1>7. CASE Log \/ Mkdir \/ Stat \/ Fprintf \/ FlushNow \/ FlushAll \/ Tick \/ UNCHANGED fvars
  <2>1. UNCHANGED <<disk, fp, closed, rotated>>
    BY <1>7 DEF Log, Mkdir, Stat, Fprintf, FlushNow, FlushAll, Tick, fvars, inodes, streams, history
  <2> QED  BY <1>2, <2>1
<1> QED  BY <1>3, <1>4, <1>5, <1>6, <1>7 DEF Next

(* A stream writes to the file at its path, however often that was moved,   *)
(* deleted or replaced, unless it was since the last check that was due, if *)
(* files are not moved between the fopen and the stat of file_reopen.       *)
THEOREM StreamIsCurrentCorrect == ~RotateInReopen => (Spec => []StreamIsCurrent)
<1> SUFFICES ASSUME ~RotateInReopen PROVE Spec => []StreamIsCurrent
  OBVIOUS
<1> DEFINE Inv == FTypeOK /\ ReopenInv /\ HistoryInv /\ StatInv /\ StreamIsCurrent
<1>1. Init => StatInv /\ StreamIsCurrent
  <2> SUFFICES ASSUME Init PROVE StatInv /\ StreamIsCurrent
    OBVIOUS
  <2>1. fp = st_ino /\ fp = disk /\ stack = <<>>
    BY DEF Init
  <2> QED  BY <2>1 DEF StatInv, StatAt, StreamIsCurrent
<1>2. Inv /\ [Next]_fvars => StatInv' /\ StreamIsCurrent'
  BY NextStat, NextCurrent DEF HistoryInv
<1>3. Inv /\ FTypeOK' /\ [Next]_fvars => HistoryInv'
  BY NextHistory
<1> QED  BY <1>1, <1>2, <1>3, InitHistory, ReopenInvariant, PTL DEF Spec
=============================================================================
