----------------------------- MODULE FatalProofs ----------------------------
(***************************************************************************)
(* The end of a process: what was logged is flushed when loguru aborts,    *)
(* its own abort() is not caught, a FATAL message does not return and is   *)
(* not torn apart, and handlers nest boundedly, for any number of threads, *)
(* calls, signals and signal options.                                      *)
(***************************************************************************)
EXTENDS FatalPath, SequenceTheorems, FiniteSetTheorems, TLAPS

(* The kinds of calls that can be at a label. *)
KindsAt(at) ==
  IF at \in InHandler \cup {"raised"} THEN {"none"}
  ELSE CASE at = "abort"   -> {"fatal"}
         [] at = "raise"   -> {"fatal", "none"}
         [] at \in {"add", "change"} -> {"change"}
         [] at = "unlock"  -> {"plain", "signal"}
         [] at \in {"lock", "deliver"} -> {"plain", "fatal", "signal"}
         [] OTHER          -> {"fatal", "signal"}

(***************************************************************************)
(* A call above another is that of a signal_handler, or the log_message    *)
(* which the signal_handler below it waits for.                            *)
(***************************************************************************)
Above(s, n) ==
  /\ s[n].kind = "signal" => n > 1
  /\ n > 1 => \/ s[n].at \in InHandler
              \/ /\ s[n].kind = "signal"
                 /\ s[n - 1].at = "flush_last" /\ s[n - 1].no = s[n].no
Shape ==
  \A t \in Threads : \A n \in 1..Len(stack[t]) :
    stack[t][n].kind \in KindsAt(stack[t][n].at) /\ Above(stack[t], n)

(* s_mutex is held by one thread. *)
OneHolds == \A t, u \in Threads : Holds(t) /\ Holds(u) => t = u

(* loguru catches no other signals than it was asked to. *)
Caught == \A s \in Signals : handled_by[s] = "loguru" => s \in options.caught

(***************************************************************************)
(* What is in the log by where the innermost call is: all of it is durable *)
(* before the fatal handler and before the abort, the message is there     *)
(* once it was delivered, and durable when a signal_handler is done.       *)
(* SIGABRT is not caught any more when loguru is about to abort.           *)
(***************************************************************************)
Settled   == {"handler", "in_handler", "abort", "raise"}
Delivered == Settled \cup {"flush", "flush_again", "unlock"}
Words(f) ==
  /\ f.at \in Settled /\ f.kind # "none" => durable = Len(log)
  /\ f.at \in Delivered /\ f.kind \in {"fatal", "signal"} => Printed("fatal", f.no) # {}
  /\ f.at = "flush_last" => Printed("fatal", f.no) # {}
  /\ f.at = "default" /\ options.unsafe_signal_handler =>
       \E n \in Printed("fatal", f.no) : n <= durable
  /\ f.at = "raise" /\ f.kind = "fatal" => handled_by[SIGABRT] = "default"
LastWords == \A t \in Threads : stack[t] # <<>> => Words(Top(t))

(* How the process ended. *)
Deaths ==
  /\ death = "fatal" =>
       \E t \in Threads : stack[t] # <<>> /\ Top(t).at = "raise" /\ Top(t).kind = "fatal"
  /\ death = "signal" => \E t \in Threads : stack[t] # <<>> /\ Top(t).at = "default"

FatalInv == TypeOK /\ Shape /\ OneHolds /\ Caught /\ LastWords /\ Deaths

LibraryCall == libc \in (Threads \X Nat) \cup {NoOne}
Labels == Locked \cup InHandler \cup {"lock"}
Stacks == stack \in [Threads -> Seq(Frame)]

USE FatalAssumption

-----------------------------------------------------------------------------
(* A sequence that is not empty is its Front and its Last element. *)
LEMMA FrontIs ==
  ASSUME NEW S, NEW s \in Seq(S), s # <<>>
  PROVE  /\ Len(s) \in Nat \ {0}
         /\ Front(s) \in Seq(S) /\ Len(Front(s)) = Len(s) - 1
         /\ \A n \in 1..(Len(s) - 1) : Front(s)[n] = s[n]
         /\ Last(s) = s[Len(s)] /\ Last(s) \in S
<1>1. Len(s) \in Nat \ {0} /\ Last(s) = s[Len(s)]
  BY DEF Last
<1>2. Front(s) = SubSeq(s, 1, Len(s) - 1)
  BY DEF Front
<1>3. s[Len(s)] \in S
  BY <1>1
<1>4. ASSUME NEW k \in Nat, k < Len(s)
      PROVE  /\ SubSeq(s, 1, k) \in Seq(S) /\ Len(SubSeq(s, 1, k)) = k
             /\ \A n \in 1..k : SubSeq(s, 1, k)[n] = s[n]
  BY <1>4
<1>5. Len(s) - 1 \in Nat /\ Len(s) - 1 < Len(s)
  BY <1>1
<1>6. /\ SubSeq(s, 1, Len(s) - 1) \in Seq(S) /\ Len(SubSeq(s, 1, Len(s) - 1)) = Len(s) - 1
      /\ \A n \in 1..(Len(s) - 1) : SubSeq(s, 1, Len(s) - 1)[n] = s[n]
  BY ONLY <1>4, <1>5
<1> QED  BY <1>1, <1>2, <1>3, <1>6

(* What Append does to a sequence. *)
LEMMA AppendIs ==
  ASSUME NEW S, NEW s \in Seq(S), NEW e \in S
  PROVE  /\ Append(s, e) \in Seq(S) /\ Len(s) \in Nat
         /\ Len(Append(s, e)) = Len(s) + 1
         /\ Append(s, e)[Len(s) + 1] = e
         /\ \A n \in 1..Len(s) : Append(s, e)[n] = s[n]
OBVIOUS

(* The innermost call of a thread. *)
LEMMA TopIs ==
  ASSUME Stacks, NEW t \in Threads, stack[t] # <<>>
  PROVE  /\ Len(stack[t]) \in Nat \ {0}
         /\ Top(t) = stack[t][Len(stack[t])] /\ Top(t) \in Frame
  BY FrontIs DEF Stacks, Top

(***************************************************************************)
(* The four ways in which a stack changes: a call goes on, one is made, or *)
(* ends, or a call goes on to wait for another.                            *)
(***************************************************************************)
LEMMA GotoIs ==
  ASSUME Stacks, NEW t \in Threads, stack[t] # <<>>, NEW l \in Labels, Goto(t, l)
  PROVE  /\ Stacks' /\ \A u \in Threads : u # t => stack'[u] = stack[u]
         /\ Len(stack'[t]) = Len(stack[t]) /\ stack'[t] # <<>>
         /\ \A m \in 1..(Len(stack[t]) - 1) : stack'[t][m] = stack[t][m]
         /\ stack'[t][Len(stack[t])] = [Top(t) EXCEPT !.at = l]
         /\ Top(t)' = [Top(t) EXCEPT !.at = l]
<1>1. PICK s \in Seq(Frame) : s = stack[t]
  BY DEF Stacks
<1>2. PICK n \in Nat \ {0} : n = Len(s)
  BY <1>1, TopIs
<1>3. Top(t) = s[n] /\ s[n] \in Frame
  BY <1>1, <1>2, TopIs
<1>4. PICK f : f = [s[n] EXCEPT !.at = l]
  OBVIOUS
<1>5. f \in Frame
  BY <1>3, <1>4 DEF Frame, Labels
<1>6. PICK r : r = [s EXCEPT ![n] = f]
  OBVIOUS
<1>7. /\ r \in Seq(Frame) /\ Len(r) = n /\ r # <<>> /\ r[n] = f
      /\ \A m \in 1..(n - 1) : r[m] = s[m]
  <2>1. r \in Seq(Frame) /\ Len(r) = n /\ r[n] = f
    BY <1>1, <1>2, <1>5, <1>6
  <2>2. \A m \in 1..(n - 1) : r[m] = s[m]
    BY <1>1, <1>2, <1>6
  <2> QED  BY <2>1, <2>2
<1>8. stack' = [stack EXCEPT ![t] = r]
  BY <1>1, <1>2, <1>4, <1>6 DEF Goto, Stacks
<1>9. stack' \in [Threads -> Seq(Frame)] /\ stack'[t] = r /\ \A u \in Threads : u # t => stack'[u] = stack[u]
  BY <1>7, <1>8 DEF Stacks
<1>10. Last(r) = f
  BY <1>7, FrontIs
<1> QED  BY <1>1, <1>2, <1>3, <1>4, <1>7, <1>9, <1>10 DEF Stacks, Top

(* A call is made. *)
LEMMA PushIs ==
  ASSUME Stacks, NEW t \in Threads, NEW f \in Frame, Push(t, f)
  PROVE  /\ Stacks' /\ \A u \in Threads : u # t => stack'[u] = stack[u]
         /\ Len(stack[t]) \in Nat
         /\ Len(stack'[t]) = Len(stack[t]) + 1 /\ stack'[t] # <<>>
         /\ \A m \in 1..Len(stack[t]) : stack'[t][m] = stack[t][m]
         /\ stack'[t][Len(stack[t]) + 1] = f
         /\ Top(t)' = f
<1>1. PICK s \in Seq(Frame) : s = stack[t]
  BY DEF Stacks
<1>2. PICK r : r = Append(s, f)
  OBVIOUS
<1>3. /\ r \in Seq(Frame) /\ Len(s) \in Nat /\ Len(r) = Len(s) + 1
      /\ r[Len(s) + 1] = f /\ \A n \in 1..Len(s) : r[n] = s[n]
  BY <1>2, AppendIs
<1>4. r # <<>> /\ Last(r) = f
  <2>1. r # <<>>
    BY <1>3
  <2> QED  BY <1>3, <2>1, FrontIs
<1>5. stack' = [stack EXCEPT ![t] = r]
  BY <1>1, <1>2 DEF Push, Stacks
<1>6. stack' \in [Threads -> Seq(Frame)] /\ stack'[t] = r /\ \A u \in Threads : u # t => stack'[u] = stack[u]
  BY <1>3, <1>5 DEF Stacks
<1> QED  BY <1>1, <1>3, <1>4, <1>6 DEF Stacks, Top

(* A call ends. *)
LEMMA PopIs ==
  ASSUME Stacks, NEW t \in Threads, stack[t] # <<>>, Pop(t)
  PROVE  /\ Stacks' /\ \A u \in Threads : u # t => stack'[u] = stack[u]
         /\ Len(stack'[t]) = Len(stack[t]) - 1
         /\ \A m \in 1..(Len(stack[t]) - 1) : stack'[t][m] = stack[t][m]
         /\ stack'[t] # <<>> => /\ Len(stack[t]) > 1
                                /\ Top(t)' = stack[t][Len(stack[t]) - 1]
<1>1. PICK s \in Seq(Frame) : s = stack[t]
  BY DEF Stacks
<1>2. PICK r : r = Front(s)
  OBVIOUS
<1>3. /\ r \in Seq(Frame) /\ Len(s) \in Nat \ {0} /\ Len(r) = Len(s) - 1
      /\ \A n \in 1..(Len(s) - 1) : r[n] = s[n]
  BY <1>1, <1>2, FrontIs
<1>4. r # <<>> => Len(s) > 1 /\ Last(r) = s[Len(s) - 1]
  <2>1. ASSUME r # <<>> PROVE Len(s) > 1 /\ Last(r) = s[Len(s) - 1]
    <3>1. Last(r) = r[Len(r)] /\ Len(r) \in Nat \ {0}
      BY <1>3, <2>1, FrontIs
    <3>2. Len(s) > 1 /\ Len(s) - 1 \in 1..(Len(s) - 1)
      BY <1>3, <3>1
    <3> QED  BY <1>3, <3>1, <3>2
  <2> QED  BY <2>1
<1>5. stack' = [stack EXCEPT ![t] = r]
  BY <1>1, <1>2 DEF Pop, Stacks
<1>6. stack' \in [Threads -> Seq(Frame)] /\ stack'[t] = r /\ \A u \in Threads : u # t => stack'[u] = stack[u]
  BY <1>3, <1>5 DEF Stacks
<1> QED  BY <1>1, <1>3, <1>4, <1>6 DEF Stacks, Top

(* A call goes on to wait for another. *)
LEMMA CallThenIs ==
  ASSUME Stacks, NEW t \in Threads, stack[t] # <<>>, NEW l \in Labels, NEW f \in Frame,
         CallThen(t, l, f)
  PROVE  /\ Stacks' /\ \A u \in Threads : u # t => stack'[u] = stack[u]
         /\ Len(stack'[t]) = Len(stack[t]) + 1 /\ stack'[t] # <<>>
         /\ \A m \in 1..(Len(stack[t]) - 1) : stack'[t][m] = stack[t][m]
         /\ stack'[t][Len(stack[t])] = [Top(t) EXCEPT !.at = l]
         /\ stack'[t][Len(stack[t]) + 1] = f
         /\ Top(t)' = f
<1>1. PICK s \in Seq(Frame) : s = stack[t] /\ s # <<>>
  BY DEF Stacks
<1>2. /\ Len(s) \in Nat \ {0} /\ Front(s) \in Seq(Frame) /\ Len(Front(s)) = Len(s) - 1
      /\ \A n \in 1..(Len(s) - 1) : Front(s)[n] = s[n]
      /\ Last(s) = s[Len(s)] /\ Last(s) \in Frame
  BY <1>1, FrontIs
<1>3. PICK e : e = [Last(s) EXCEPT !.at = l]
  OBVIOUS
<1>4. e \in Frame
  BY <1>2, <1>3 DEF Frame, Labels
<1>5. PICK q : q = Append(Front(s), e)
  OBVIOUS
<1>6. /\ q \in Seq(Frame) /\ Len(q) = Len(s) /\ q[Len(s)] = e
      /\ \A n \in 1..(Len(s) - 1) : q[n] = s[n]
  <2>1. PICK g \in Seq(Frame) : g = Front(s)
    BY <1>2
  <2>2. /\ q \in Seq(Frame) /\ Len(q) = Len(g) + 1 /\ q[Len(g) + 1] = e
        /\ \A n \in 1..Len(g) : q[n] = g[n]
    BY <1>4, <1>5, <2>1, AppendIs
  <2>3. Len(g) = Len(s) - 1 /\ Len(g) + 1 = Len(s)
    BY <1>2, <2>1
  <2> QED  BY <1>2, <2>1, <2>2, <2>3
<1>7. PICK r : r = Append(q, f)
  OBVIOUS
<1>8. /\ r \in Seq(Frame) /\ Len(r) = Len(s) + 1 /\ r[Len(s) + 1] = f
      /\ \A n \in 1..Len(s) : r[n] = q[n]
  <2>1. /\ r \in Seq(Frame) /\ Len(r) = Len(q) + 1 /\ r[Len(q) + 1] = f
        /\ \A n \in 1..Len(q) : r[n] = q[n]
    BY <1>6, <1>7, AppendIs
  <2> QED  BY <1>6, <2>1
<1>9. r # <<>> /\ Last(r) = f
  <2>1. r # <<>>
    BY <1>2, <1>8
  <2> QED  BY <1>8, <2>1, FrontIs
<1>10. q \o <<f>> = r
  BY <1>6, <1>7
<1>11. stack' = [stack EXCEPT ![t] = r]
  BY <1>1, <1>3, <1>5, <1>10 DEF CallThen, Stacks
<1>12. stack' \in [Threads -> Seq(Frame)] /\ stack'[t] = r /\ \A u \in Threads : u # t => stack'[u] = stack[u]
  BY <1>8, <1>11 DEF Stacks
<1>13. r[Len(s)] = e /\ \A n \in 1..(Len(s) - 1) : r[n] = s[n]
  BY <1>2, <1>6, <1>8
<1> QED  BY <1>1, <1>3, <1>8, <1>9, <1>12, <1>13 DEF Stacks, Top

-----------------------------------------------------------------------------
(* The shape of the stacks is kept if the new calls have it. *)
LEMMA ShapeKept ==
  ASSUME Stacks, Shape, Stacks', NEW t \in Threads,
         \A u \in Threads : u # t => stack'[u] = stack[u],
         NEW k \in Nat, k <= Len(stack[t]),
         \A m \in 1..k : stack'[t][m] = stack[t][m],
         \A m \in 1..Len(stack'[t]) : m > k =>
           stack'[t][m].kind \in KindsAt(stack'[t][m].at) /\ Above(stack'[t], m)
  PROVE  Shape'
<1>1. SUFFICES ASSUME NEW u \in Threads, NEW m \in 1..Len(stack'[u])
               PROVE  stack'[u][m].kind \in KindsAt(stack'[u][m].at) /\ Above(stack'[u], m)
  BY DEF Shape, Above
<1>2. CASE u # t
  BY <1>2 DEF Shape, Stacks
<1>3. CASE u = t /\ m <= k
  <2>1. Len(stack[t]) \in Nat /\ m \in Nat /\ m \in 1..k /\ m \in 1..Len(stack[t])
    BY <1>3 DEF Stacks
  <2>2. stack'[t][m] = stack[t][m] /\ m > 1 => stack'[t][m - 1] = stack[t][m - 1]
    BY <2>1
  <2>3. stack'[t][m] = stack[t][m]
    BY <2>1
  <2>4. m > 1 => stack'[t][m - 1] = stack[t][m - 1]
    BY <2>1
  <2>5. stack[t][m].kind \in KindsAt(stack[t][m].at) /\ Above(stack[t], m)
    BY <2>1 DEF Shape
  <2>6. Above(stack'[t], m)
    BY <2>3, <2>4, <2>5 DEF Above
  <2> QED  BY <1>3, <2>3, <2>5, <2>6
<1>4. CASE u = t /\ m > k
  BY <1>4
<1> QED  BY <1>2, <1>3, <1>4

(* The mutex has one holder if only its holder, or a thread that may lock  *)
(* it, holds it afterwards.                                                *)
LEMMA OneHoldsKept ==
  ASSUME OneHolds, NEW t \in Threads,
         \A u \in Threads : u # t => stack'[u] = stack[u],
         Holds(t)' => Holds(t) \/ MayLock(t)
  PROVE  OneHolds'
<1>1. \A u \in Threads : u # t => Holds(u)' = Holds(u)
  BY DEF Holds
<1> QED  BY <1>1 DEF OneHolds, MayLock

(* Whether a thread holds the mutex. *)
LEMMA HoldsIs ==
  ASSUME Stacks, NEW t \in Threads
  PROVE  Holds(t) <=> \E n \in 1..Len(stack[t]) :
                        stack[t][n].at \in Locked /\ stack[t][n].kind # "none"
<1>1. PICK s \in Seq(Frame) : s = stack[t]
  BY DEF Stacks
<1>2. DOMAIN s = 1..Len(s)
  OBVIOUS
<1> QED  BY <1>1, <1>2 DEF Holds

(* A call at f may go on at the label l. *)
GoesOn(t, f, l) ==
  /\ f.kind \in KindsAt(l)
  /\ f.at \in InHandler => l \in InHandler
  /\ l \in Locked /\ f.kind # "none" => f.at \in Locked \/ MayLock(t)

(* A call that goes on keeps what the stacks are like. *)
LEMMA GotoKeeps ==
  ASSUME Stacks, Shape, OneHolds, NEW t \in Threads, stack[t] # <<>>,
         NEW l \in Labels, Goto(t, l), GoesOn(t, Top(t), l)
  PROVE  Stacks' /\ Shape' /\ OneHolds'
<1>1. /\ Stacks' /\ \A u \in Threads : u # t => stack'[u] = stack[u]
      /\ Len(stack'[t]) = Len(stack[t])
      /\ \A m \in 1..(Len(stack[t]) - 1) : stack'[t][m] = stack[t][m]
      /\ stack'[t][Len(stack[t])] = [Top(t) EXCEPT !.at = l]
  BY GotoIs
<1>2. PICK n \in Nat \ {0} : n = Len(stack[t])
  BY TopIs
<1>3. PICK f \in Frame : f = Top(t) /\ f = stack[t][n]
  BY <1>2, TopIs
<1>4. PICK g : g = [f EXCEPT !.at = l]
  OBVIOUS
<1>5. g.at = l /\ g.kind = f.kind /\ g.no = f.no /\ stack'[t][n] = g
  BY <1>1, <1>2, <1>3, <1>4 DEF Frame
<1>6. Shape'
  <2>1. \A m \in 1..(n - 1) : stack'[t][m] = stack[t][m]
    BY <1>1, <1>2
  <2>2. ASSUME NEW m \in 1..Len(stack'[t]), m > n - 1
        PROVE  stack'[t][m].kind \in KindsAt(stack'[t][m].at) /\ Above(stack'[t], m)
    <3>1. m = n
      BY <1>1, <1>2, <2>2
    <3>2. g.kind \in KindsAt(g.at)
      BY <1>3, <1>5 DEF GoesOn
    <3>3. Above(stack[t], n)
      <4>1. n \in 1..Len(stack[t])
        BY <1>2
      <4> QED  BY <4>1 DEF Shape
    <3>4. n > 1 => stack'[t][n - 1] = stack[t][n - 1]
      BY <2>1
    <3>5. Above(stack'[t], n)
      BY <1>3, <1>5, <3>3, <3>4 DEF Above, GoesOn
    <3> QED  BY <1>5, <3>1, <3>2, <3>5
  <2>3. n - 1 \in Nat /\ n - 1 <= Len(stack[t])
    BY <1>2
  <2> QED  BY <1>1, <2>1, <2>2, <2>3, ShapeKept
<1>7. Holds(t)' => Holds(t) \/ MayLock(t)
  <2>1. ASSUME Holds(t)', ~MayLock(t) PROVE Holds(t)
    <3>1. Holds(t)' <=> \E m \in 1..Len(stack'[t]) :
                          stack'[t][m].at \in Locked /\ stack'[t][m].kind # "none"
      <4>1. PICK r \in Seq(Frame) : r = stack'[t]
        BY <1>1 DEF Stacks
      <4>2. DOMAIN r = 1..Len(r)
        OBVIOUS
      <4> QED  BY <4>1, <4>2 DEF Holds
    <3>2. PICK m \in 1..n : stack'[t][m].at \in Locked /\ stack'[t][m].kind # "none"
      BY <1>1, <1>2, <2>1, <3>1
    <3>3. CASE m = n
      <4>1. f.at \in Locked /\ f.kind # "none"
        BY <1>3, <1>5, <2>1, <3>2, <3>3 DEF GoesOn
      <4> QED  BY <1>2, <1>3, <4>1, HoldsIs
    <3>4. CASE m # n
      <4>1. m \in 1..(n - 1) /\ m \in 1..n
        BY <3>4
      <4> QED  BY <1>1, <1>2, <3>2, <4>1, HoldsIs
    <3> QED  BY <3>3, <3>4
  <2> QED  BY <2>1
<1> QED  BY <1>1, <1>6, <1>7, OneHoldsKept

(* A call of f keeps it, when nothing else is under way or f is a handler. *)
LEMMA PushKeeps ==
  ASSUME Stacks, Shape, OneHolds, NEW t \in Threads, NEW f \in Frame, Push(t, f),
         f.kind \in KindsAt(f.at), f.kind # "signal",
         stack[t] = <<>> \/ f.at \in InHandler,
         f.at \in Locked => f.kind = "none" \/ MayLock(t)
  PROVE  Stacks' /\ Shape' /\ OneHolds'
<1>1. /\ Stacks' /\ \A u \in Threads : u # t => stack'[u] = stack[u]
      /\ Len(stack[t]) \in Nat
      /\ Len(stack'[t]) = Len(stack[t]) + 1
      /\ \A m \in 1..Len(stack[t]) : stack'[t][m] = stack[t][m]
      /\ stack'[t][Len(stack[t]) + 1] = f
  BY PushIs
<1>2. PICK n \in Nat : n = Len(stack[t])
  BY <1>1
<1>3. Shape'
  <2>1. ASSUME NEW m \in 1..Len(stack'[t]), m > n
        PROVE  stack'[t][m].kind \in KindsAt(stack'[t][m].at) /\ Above(stack'[t], m)
    <3>1. m = n + 1 /\ stack'[t][m] = f
      BY <1>1, <1>2, <2>1
    <3>2. stack[t] = <<>> => m = 1
      BY <1>2, <3>1
    <3> QED  BY <3>1, <3>2 DEF Above
  <2>2. n <= Len(stack[t])
    BY <1>2
  <2> QED  BY <1>1, <1>2, <2>1, <2>2, ShapeKept
<1>4. Holds(t)' => Holds(t) \/ MayLock(t)
  <2>1. ASSUME Holds(t)', ~MayLock(t) PROVE Holds(t)
    <3>1. Holds(t)' <=> \E m \in 1..Len(stack'[t]) :
                          stack'[t][m].at \in Locked /\ stack'[t][m].kind # "none"
      <4>1. PICK r \in Seq(Frame) : r = stack'[t]
        BY <1>1 DEF Stacks
      <4>2. DOMAIN r = 1..Len(r)
        OBVIOUS
      <4> QED  BY <4>1, <4>2 DEF Holds
    <3>2. PICK m \in 1..(n + 1) : stack'[t][m].at \in Locked /\ stack'[t][m].kind # "none"
      BY <1>1, <1>2, <2>1, <3>1
    <3>3. m # n + 1
      BY <1>1, <1>2, <2>1, <3>2
    <3>4. m \in 1..n
      BY <3>3
    <3> QED  BY <1>1, <1>2, <3>2, <3>4, HoldsIs
  <2> QED  BY <2>1
<1> QED  BY <1>1, <1>3, <1>4, OneHoldsKept

(* So does the end of a call. *)
LEMMA PopKeeps ==
  ASSUME Stacks, Shape, OneHolds, NEW t \in Threads, stack[t] # <<>>, Pop(t)
  PROVE  Stacks' /\ Shape' /\ OneHolds'
<1>1. /\ Stacks' /\ \A u \in Threads : u # t => stack'[u] = stack[u]
      /\ Len(stack'[t]) = Len(stack[t]) - 1
      /\ \A m \in 1..(Len(stack[t]) - 1) : stack'[t][m] = stack[t][m]
  BY PopIs
<1>2. PICK n \in Nat \ {0} : n = Len(stack[t])
  BY TopIs
<1>3. Shape'
  <2>1. n - 1 \in Nat /\ n - 1 <= Len(stack[t])
    BY <1>2
  <2>2. \A m \in 1..Len(stack'[t]) : ~(m > n - 1)
    BY <1>1, <1>2
  <2> QED  BY <1>1, <1>2, <2>1, <2>2, ShapeKept
<1>4. Holds(t)' => Holds(t)
  <2>1. ASSUME Holds(t)' PROVE Holds(t)
    <3>1. Holds(t)' <=> \E m \in 1..Len(stack'[t]) :
                          stack'[t][m].at \in Locked /\ stack'[t][m].kind # "none"
      <4>1. PICK r \in Seq(Frame) : r = stack'[t]
        BY <1>1 DEF Stacks
      <4>2. DOMAIN r = 1..Len(r)
        OBVIOUS
      <4> QED  BY <4>1, <4>2 DEF Holds
    <3>2. PICK m \in 1..(n - 1) : stack'[t][m].at \in Locked /\ stack'[t][m].kind # "none"
      BY <1>1, <1>2, <2>1, <3>1
    <3>3. m \in 1..n
      OBVIOUS
    <3> QED  BY <1>1, <1>2, <3>2, <3>3, HoldsIs
  <2> QED  BY <2>1
<1> QED  BY <1>1, <1>3, <1>4, OneHoldsKept

(* And a call that waits for another, which holds nothing yet. *)
LEMMA CallThenKeeps ==
  ASSUME Stacks, Shape, OneHolds, NEW t \in Threads, stack[t] # <<>>,
         NEW l \in Labels, NEW f \in Frame, CallThen(t, l, f),
         Top(t).kind = "none", Top(t).kind \in KindsAt(l),
         Top(t).at \in InHandler => l \in InHandler,
         f.kind \in KindsAt(f.at), f.at \notin Locked,
         \/ f.at \in InHandler
         \/ f.kind = "signal" /\ l = "flush_last" /\ f.no = Top(t).no
  PROVE  Stacks' /\ Shape' /\ OneHolds'
<1>1. /\ Stacks' /\ \A u \in Threads : u # t => stack'[u] = stack[u]
      /\ Len(stack'[t]) = Len(stack[t]) + 1
      /\ \A m \in 1..(Len(stack[t]) - 1) : stack'[t][m] = stack[t][m]
      /\ stack'[t][Len(stack[t])] = [Top(t) EXCEPT !.at = l]
      /\ stack'[t][Len(stack[t]) + 1] = f
  BY CallThenIs
<1>2. PICK n \in Nat \ {0} : n = Len(stack[t])
  BY TopIs
<1>3. PICK e \in Frame : e = Top(t) /\ e = stack[t][n]
  BY <1>2, TopIs
<1>4. PICK g : g = [e EXCEPT !.at = l]
  OBVIOUS
<1>5. g.at = l /\ g.kind = e.kind /\ g.no = e.no /\ stack'[t][n] = g
  BY <1>1, <1>2, <1>3, <1>4 DEF Frame
<1>6. Shape'
  <2>1. \A m \in 1..(n - 1) : stack'[t][m] = stack[t][m]
    BY <1>1, <1>2
  <2>2. ASSUME NEW m \in 1..Len(stack'[t]), m > n - 1
        PROVE  stack'[t][m].kind \in KindsAt(stack'[t][m].at) /\ Above(stack'[t], m)
    <3>1. CASE m = n
      <4>1. Above(stack[t], n)
        <5>1. n \in 1..Len(stack[t])
          BY <1>2
        <5> QED  BY <5>1 DEF Shape
      <4>2. n > 1 => stack'[t][n - 1] = stack[t][n - 1]
        BY <2>1
      <4>3. Above(stack'[t], n)
        BY <1>3, <1>5, <4>1, <4>2 DEF Above
      <4> QED  BY <1>3, <1>5, <3>1, <4>3
    <3>2. CASE m = n + 1
      <4>1. stack'[t][m] = f /\ stack'[t][m - 1] = g
        BY <1>1, <1>2, <1>5, <3>2
      <4>2. f.kind = "signal" => f.at \notin InHandler \/ m > 1
        BY <3>2
      <4>3. Above(stack'[t], m)
        BY <1>3, <1>5, <3>2, <4>1 DEF Above
      <4> QED  BY <4>1, <4>3
    <3> QED  BY <1>1, <1>2, <2>2, <3>1, <3>2
  <2>3. n - 1 \in Nat /\ n - 1 <= Len(stack[t])
    BY <1>2
  <2> QED  BY <1>1, <2>1, <2>2, <2>3, ShapeKept
<1>7. Holds(t)' => Holds(t)
  <2>1. ASSUME Holds(t)' PROVE Holds(t)
    <3>1. Holds(t)' <=> \E m \in 1..Len(stack'[t]) :
                          stack'[t][m].at \in Locked /\ stack'[t][m].kind # "none"
      <4>1. PICK r \in Seq(Frame) : r = stack'[t]
        BY <1>1 DEF Stacks
      <4>2. DOMAIN r = 1..Len(r)
        OBVIOUS
      <4> QED  BY <4>1, <4>2 DEF Holds
    <3>2. PICK m \in 1..(n + 1) : stack'[t][m].at \in Locked /\ stack'[t][m].kind # "none"
      BY <1>1, <1>2, <2>1, <3>1
    <3>3. m # n + 1 /\ m # n
      BY <1>1, <1>2, <1>3, <1>5, <3>2
    <3>4. m \in 1..(n - 1) /\ m \in 1..n
      BY <3>3
    <3> QED  BY <1>1, <1>2, <3>2, <3>4, HoldsIs
  <2> QED  BY <2>1
<1> QED  BY <1>1, <1>6, <1>7, OneHoldsKept

-----------------------------------------------------------------------------
(***************************************************************************)
(* What a step of t may do besides its stack: it adds to the log while it  *)
(* holds the mutex, flushes, and gives up signals.                         *)
(***************************************************************************)
Around(t) ==
  /\ log' = log \/ (Holds(t) /\ \E e \in Entry : log' = Append(log, e))
  /\ durable' \in durable..Len(log')
  /\ options' = options
  /\ handled_by' \in [Signals -> {"loguru", "default"}]
  /\ \A s \in Signals : handled_by[s] = "default" => handled_by'[s] = "default"
  /\ LibraryCall'
  /\ death' \in {"no", "fatal", "signal", "uncaught"}
  /\ survived' \in BOOLEAN
  /\ calls' \in 0..MaxCalls /\ arrivals' \in 0..MaxSignals

(* What is in the log stays there. *)
LEMMA LogGrows ==
  ASSUME TypeOK, NEW t \in Threads, Around(t)
  PROVE  /\ log' \in Seq(Entry) /\ Len(log) \in Nat /\ Len(log') \in Nat
         /\ DOMAIN log = 1..Len(log) /\ DOMAIN log' = 1..Len(log')
         /\ Len(log) <= Len(log') /\ \A n \in 1..Len(log) : log'[n] = log[n]
         /\ durable \in Nat /\ durable' \in Nat /\ durable <= durable' /\ durable' <= Len(log')
<1>1. log \in Seq(Entry) /\ durable \in 0..Len(log)
  BY DEF TypeOK
<1>2. CASE log' = log
  <2>1. Len(log) \in Nat /\ DOMAIN log = 1..Len(log)
    BY <1>1
  <2> QED  BY <1>1, <1>2, <2>1 DEF Around
<1>3. CASE \E e \in Entry : log' = Append(log, e)
  <2>1. PICK e \in Entry : log' = Append(log, e)
    BY <1>3
  <2>2. PICK s \in Seq(Entry) : s = log
    BY <1>1
  <2>3. PICK r : r = Append(s, e)
    OBVIOUS
  <2>4. /\ r \in Seq(Entry) /\ Len(s) \in Nat /\ Len(r) = Len(s) + 1
        /\ \A n \in 1..Len(s) : r[n] = s[n]
    BY <2>3, AppendIs
  <2>5. DOMAIN r = 1..Len(r) /\ DOMAIN s = 1..Len(s) /\ Len(r) \in Nat
    BY <2>4
  <2>6. log' = r
    BY <2>1, <2>2, <2>3
  <2> QED  BY <1>1, <2>2, <2>4, <2>5, <2>6 DEF Around
<1> QED  BY <1>2, <1>3 DEF Around

(* So a message that was printed stays printed. *)
LEMMA PrintedStays ==
  ASSUME TypeOK, NEW t \in Threads, Around(t), NEW part, NEW no,
         NEW n \in Printed(part, no)
  PROVE  n \in Printed(part, no)' /\ n \in 1..Len(log)
BY LogGrows DEF Printed

(* What is true of a call stays true while it does not go on. *)
LEMMA WordsStay ==
  ASSUME TypeOK, NEW t \in Threads, Around(t), NEW f, Words(f),
         f.at \in Settled /\ f.kind # "none" => log' = log
  PROVE  Words(f)'
<1>1. f.at \in Settled /\ f.kind # "none" => durable' = Len(log')
  BY LogGrows DEF Words
<1>2. Printed("fatal", f.no) # {} => Printed("fatal", f.no)' # {}
  BY PrintedStays
<1>3. ASSUME NEW n \in Printed("fatal", f.no), n <= durable
      PROVE  n \in Printed("fatal", f.no)' /\ n <= durable'
  <2>1. n \in Printed("fatal", f.no)' /\ n \in 1..Len(log)
    BY PrintedStays
  <2> QED  BY <1>3, <2>1, LogGrows
<1>4. handled_by[SIGABRT] = "default" => handled_by'[SIGABRT] = "default"
  BY DEF Around
<1> QED  BY <1>1, <1>2, <1>3, <1>4 DEF Words, Around

(* A thread whose innermost call is settled holds the mutex. *)
LEMMA SettledHolds ==
  ASSUME Stacks, NEW u \in Threads, stack[u] # <<>>,
         Top(u).at \in Locked, Top(u).kind # "none"
  PROVE  Holds(u)
BY TopIs, HoldsIs

(* A step that keeps the stacks and what is true of t keeps the invariant. *)
LEMMA StepKeeps ==
  ASSUME FatalInv, NEW t \in Threads, Around(t),
         \A u \in Threads : u # t => stack'[u] = stack[u],
         Stacks' /\ Shape' /\ OneHolds', Deaths',
         stack'[t] # <<>> => Words(Top(t))'
  PROVE  FatalInv'
<1>1. TypeOK /\ Stacks
  BY DEF FatalInv, TypeOK, Stacks
<1>2. TypeOK'
  <2>1. durable' \in 0..Len(log')
    BY <1>1, LogGrows
  <2>2. log' \in Seq(Entry)
    BY <1>1, LogGrows
  <2>3. options' \in [unsafe_signal_handler : BOOLEAN, caught : SUBSET Signals]
    BY <1>1 DEF TypeOK, Around
  <2> QED  BY <2>1, <2>2, <2>3 DEF TypeOK, Stacks, Around, LibraryCall
<1>3. Caught'
  BY <1>1 DEF FatalInv, Caught, Around, TypeOK
<1>4. LastWords'
  <2>1. ASSUME NEW u \in Threads, u # t, stack'[u] # <<>> PROVE Words(Top(u))'
    <3>1. PICK f : f = Top(u)
      OBVIOUS
    <3>2. stack'[u] = stack[u] /\ Top(u)' = f
      BY <2>1, <3>1 DEF Top
    <3>3. Words(f)
      BY <2>1, <3>1, <3>2 DEF FatalInv, LastWords
    <3>4. f.at \in Settled /\ f.kind # "none" => log' = log
      <4>1. ASSUME f.at \in Settled, f.kind # "none", log' # log PROVE FALSE
        <5>1. Holds(u)
          BY <1>1, <2>1, <3>1, <3>2, <4>1, SettledHolds DEF Settled, Locked
        <5>2. Holds(t)
          BY <4>1 DEF Around
        <5> QED  BY <2>1, <5>1, <5>2 DEF FatalInv, OneHolds
      <4> QED  BY <4>1
    <3>5. Words(f)'
      BY <1>1, <3>3, <3>4, WordsStay
    <3> QED  BY <3>2, <3>5 DEF Words, Printed
  <2> QED  BY <2>1 DEF LastWords
<1> QED  BY <1>2, <1>3, <1>4 DEF FatalInv

(* What is known of the innermost call of a thread. *)
LEMMA TopKnown ==
  ASSUME FatalInv, NEW t \in Threads, stack[t] # <<>>
  PROVE  /\ Stacks /\ Top(t) \in Frame /\ Top(t).kind \in KindsAt(Top(t).at)
         /\ Words(Top(t)) /\ Above(stack[t], Len(stack[t]))
         /\ Len(stack[t]) \in Nat \ {0} /\ Top(t) = stack[t][Len(stack[t])]
<1>1. Stacks
  BY DEF FatalInv, TypeOK, Stacks
<1>2. Len(stack[t]) \in Nat \ {0} /\ Top(t) = stack[t][Len(stack[t])] /\ Top(t) \in Frame
  BY <1>1, TopIs
<1>3. Len(stack[t]) \in 1..Len(stack[t])
  BY <1>2
<1> QED  BY <1>1, <1>2, <1>3 DEF FatalInv, Shape, LastWords

(* A call that goes on. *)
LEMMA GotoStep ==
  ASSUME FatalInv, NEW t \in Threads, stack[t] # <<>>, Around(t), death' = "no",
         NEW l \in Labels, Goto(t, l), GoesOn(t, Top(t), l),
         NEW g, g = [Top(t) EXCEPT !.at = l], Words(g)'
  PROVE  FatalInv'
<1>1. Stacks /\ Shape /\ OneHolds
  BY DEF FatalInv, TypeOK, Stacks
<1>2. Stacks' /\ Shape' /\ OneHolds'
  BY <1>1, GotoKeeps
<1>3. \A u \in Threads : u # t => stack'[u] = stack[u]
  BY <1>1, GotoIs
<1>4. Top(t)' = g
  BY <1>1, GotoIs
<1>5. Words(Top(t))'
  BY <1>4 DEF Words, Printed
<1>6. Deaths'
  BY DEF Deaths
<1> QED  BY <1>2, <1>3, <1>5, <1>6, StepKeeps

(* A call that ends: the signal_handler below it, if any, is at its last flush. *)
LEMMA PopStep ==
  ASSUME FatalInv, NEW t \in Threads, stack[t] # <<>>, Around(t), death' = "no",
         log' = log, Pop(t), Top(t).kind # "none",
         Top(t).kind = "signal" => Printed("fatal", Top(t).no) # {}
  PROVE  FatalInv'
<1>1. Stacks /\ Shape /\ OneHolds
  BY DEF FatalInv, TypeOK, Stacks
<1>2. Stacks' /\ Shape' /\ OneHolds'
  BY <1>1, PopKeeps
<1>3. \A u \in Threads : u # t => stack'[u] = stack[u]
  BY <1>1, PopIs
<1>4. ASSUME stack'[t] # <<>> PROVE Words(Top(t))'
  <2>1. PICK n : n = Len(stack[t])
    OBVIOUS
  <2>2. PICK g : g = stack[t][n - 1]
    OBVIOUS
  <2>3. n > 1 /\ Top(t)' = g
    BY <1>1, <1>4, <2>1, <2>2, PopIs
  <2>4. Top(t).at \notin InHandler
    BY TopKnown DEF KindsAt
  <2>5. Top(t).kind = "signal" /\ g.at = "flush_last" /\ g.no = Top(t).no
    BY <2>1, <2>2, <2>3, <2>4, TopKnown DEF Above
  <2>6. Printed("fatal", g.no)' # {}
    BY <2>5 DEF Printed
  <2>7. Words(g)'
    BY <2>5, <2>6 DEF Words, Settled, Delivered
  <2> QED  BY <2>3, <2>7 DEF Words, Printed
<1>5. Deaths'
  BY DEF Deaths
<1> QED  BY <1>2, <1>3, <1>4, <1>5, StepKeeps

(* A call that is made: by the program when t is in none, or by a signal. *)
LEMMA PushStep ==
  ASSUME FatalInv, NEW t \in Threads, Around(t), death' = "no",
         NEW f \in Frame, Push(t, f),
         f.kind \in KindsAt(f.at), f.kind # "signal",
         stack[t] = <<>> \/ f.at \in InHandler,
         f.at \in Locked => f.kind = "none" \/ MayLock(t),
         f.at \in {"lock", "add", "raise", "write"}, f.at = "raise" => f.kind = "none"
  PROVE  FatalInv'
<1>1. Stacks /\ Shape /\ OneHolds
  BY DEF FatalInv, TypeOK, Stacks
<1>2. Stacks' /\ Shape' /\ OneHolds'
  BY <1>1, PushKeeps
<1>3. \A u \in Threads : u # t => stack'[u] = stack[u]
  BY <1>1, PushIs
<1>4. Top(t)' = f
  BY <1>1, PushIs
<1>5. Words(f)'
  BY DEF Words, Settled, Delivered
<1>6. Words(Top(t))'
  BY <1>4, <1>5 DEF Words, Printed
<1>7. Deaths'
  BY DEF Deaths
<1> QED  BY <1>2, <1>3, <1>6, <1>7, StepKeeps

(* A step that leaves the calls as they are, and may end the process. *)
LEMMA StillStep ==
  ASSUME FatalInv, NEW t \in Threads, Around(t), Deaths', log' = log, stack' = stack
  PROVE  FatalInv'
<1>1. Stacks /\ Shape /\ OneHolds /\ TypeOK
  BY DEF FatalInv, TypeOK, Stacks
<1>2. Stacks' /\ Shape' /\ OneHolds'
  BY <1>1 DEF Stacks, Shape, Above, OneHolds, Holds
<1>3. ASSUME stack'[t] # <<>> PROVE Words(Top(t))'
  <2>1. PICK f : f = Top(t)
    OBVIOUS
  <2>2. Words(f)
    BY <1>3, <2>1 DEF FatalInv, LastWords
  <2>3. Words(f)'
    BY <1>1, <2>2, WordsStay
  <2>4. Top(t)' = f
    BY <2>1 DEF Top
  <2> QED  BY <2>3, <2>4 DEF Words, Printed
<1> QED  BY <1>2, <1>3, StepKeeps

-----------------------------------------------------------------------------
(* What TypeOK says of the variables that are not sequences. *)
LEMMA Typed ==
  ASSUME FatalInv
  PROVE  /\ log \in Seq(Entry) /\ durable \in 0..Len(log) /\ Len(log) \in Nat
         /\ durable \in durable..Len(log)
         /\ DOMAIN log = 1..Len(log)
         /\ options \in [unsafe_signal_handler : BOOLEAN, caught : SUBSET Signals]
         /\ handled_by \in [Signals -> {"loguru", "default"}]
         /\ LibraryCall
         /\ death \in {"no", "fatal", "signal", "uncaught"}
         /\ survived \in BOOLEAN
         /\ calls \in 0..MaxCalls /\ arrivals \in 0..MaxSignals
<1>1. log \in Seq(Entry) /\ durable \in 0..Len(log)
  BY DEF FatalInv, TypeOK
<1>2. Len(log) \in Nat /\ DOMAIN log = 1..Len(log)
  BY <1>1
<1>3. durable \in durable..Len(log)
  BY <1>1, <1>2
<1> QED  BY <1>1, <1>2, <1>3 DEF FatalInv, TypeOK, LibraryCall

(* A call of the C library is one of some thread. *)
LEMMA LibraryTyped ==
  ASSUME FatalInv, NEW t \in Threads, Stacks', UNCHANGED libc \/ CallLibrary(t)
  PROVE  LibraryCall'
<1>1. CASE UNCHANGED libc
  BY <1>1, Typed DEF LibraryCall
<1>2. CASE CallLibrary(t)
  <2>1. PICK s \in Seq(Frame) : s = stack'[t]
    BY DEF Stacks
  <2>2. Len(s) \in Nat /\ libc' = <<t, Len(s)>>
    BY <1>2, <2>1 DEF CallLibrary
  <2> QED  BY <2>2 DEF LibraryCall
<1> QED  BY <1>1, <1>2

(* A step that logs, flushes and does nothing else around its stack. *)
LEMMA LogStep ==
  ASSUME FatalInv, NEW t \in Threads,
         log' = log \/ (Holds(t) /\ \E e \in Entry : log' = Append(log, e)),
         durable' = durable \/ durable' = Len(log'),
         UNCHANGED libc \/ (Stacks' /\ CallLibrary(t)),
         UNCHANGED <<options, handled_by, death, survived, calls, arrivals>>
  PROVE  Around(t)
<1>1. durable' \in durable..Len(log')
  <2>1. CASE log' = log
    BY <2>1, Typed
  <2>2. CASE \E e \in Entry : log' = Append(log, e)
    <3>1. PICK e \in Entry : log' = Append(log, e)
      BY <2>2
    <3>2. PICK s \in Seq(Entry) : s = log
      BY Typed
    <3>3. Len(Append(s, e)) = Len(s) + 1 /\ Len(s) \in Nat
      BY AppendIs
    <3>4. Len(log') = Len(log) + 1
      BY <3>1, <3>2, <3>3
    <3> QED  BY <3>4, Typed
  <2> QED  BY <2>1, <2>2
<1>2. LibraryCall'
  BY LibraryTyped, Typed DEF LibraryCall
<1> QED  BY <1>1, <1>2, Typed DEF Around, LibraryCall

(* What Emit adds, and that it is there then. *)
LEMMA EmitIs ==
  ASSUME FatalInv, NEW t \in Threads, stack[t] # <<>>,
         NEW part \in {"plain", "trace", "context", "fatal"}, Emit(t, part),
         NEW no, no = Top(t).no
  PROVE  /\ \E e \in Entry : log' = Append(log, e)
         /\ Printed(part, no)' # {}
<1>1. PICK e : e = [part |-> part, by |-> t, no |-> Top(t).no]
  OBVIOUS
<1>2. e \in Entry /\ e.part = part /\ e.no = Top(t).no
  BY <1>1, TopKnown DEF Entry, Frame
<1>3. PICK s \in Seq(Entry) : s = log
  BY Typed
<1>4. PICK r : r = Append(s, e)
  OBVIOUS
<1>5. r \in Seq(Entry) /\ Len(r) = Len(s) + 1 /\ r[Len(s) + 1] = e /\ Len(s) \in Nat
  BY <1>2, <1>4, AppendIs
<1>6. DOMAIN r = 1..Len(r)
  BY <1>5
<1>7. log' = r /\ log' = Append(log, e)
  BY <1>1, <1>3, <1>4 DEF Emit
<1>8. Len(s) + 1 \in {n \in DOMAIN log' : log'[n].part = part /\ log'[n].no = e.no}
  BY <1>2, <1>5, <1>6, <1>7
<1>9. Printed(part, no)' # {}
  BY <1>2, <1>8 DEF Printed
<1> QED  BY <1>2, <1>7, <1>9

(***************************************************************************)
(* log_message, step by step.                                              *)
(***************************************************************************)
LEMMA LockStep ==
  ASSUME FatalInv, NEW t \in Threads, Lock(t), UNCHANGED options
  PROVE  FatalInv'
<1>1. PICK f : f = Top(t)
  OBVIOUS
<1>2. stack[t] # <<>> /\ death = "no" /\ f.at = "lock" /\ MayLock(t)
  BY <1>1 DEF Lock, At
<1>3. f \in Frame /\ f.kind \in {"plain", "fatal", "signal"}
  BY <1>1, <1>2, TopKnown DEF KindsAt, InHandler
<1>4. PICK l : l = IF f.kind = "plain" THEN "deliver" ELSE "trace"
  OBVIOUS
<1>5. /\ Goto(t, l) /\ (UNCHANGED libc \/ CallLibrary(t))
      /\ UNCHANGED <<options, log, durable, handled_by, death, survived, calls, arrivals>>
  BY <1>1, <1>4 DEF Lock, MayCallLibrary
<1>6. GoesOn(t, f, l) /\ l \in Labels
  BY <1>2, <1>3, <1>4 DEF GoesOn, KindsAt, InHandler, Locked, Labels
<1>7. PICK g : g = [f EXCEPT !.at = l]
  OBVIOUS
<1>8. g.at = l
  BY <1>3, <1>7 DEF Frame
<1>9. Words(g)'
  BY <1>4, <1>8 DEF Words, Settled, Delivered
<1>10. Around(t)
  <2>1. Stacks'
    BY <1>2, <1>5, <1>6, TopKnown, GotoIs
  <2> QED  BY <1>5, <2>1, LogStep
<1> QED  BY <1>1, <1>2, <1>5, <1>6, <1>7, <1>9, <1>10, GotoStep

(* The three steps that log: the trace, the context, and the message. *)
LEMMA TraceStep ==
  ASSUME FatalInv, NEW t \in Threads, StackTrace(t) \/ ErrorContext(t), UNCHANGED options
  PROVE  FatalInv'
<1>1. PICK f : f = Top(t)
  OBVIOUS
<1>2. PICK part, l :
        /\ stack[t] # <<>> /\ death = "no" /\ f.at = part
        /\ \/ part = "trace" /\ l = "context"
           \/ part = "context" /\ l = "deliver"
        /\ \/ UNCHANGED <<log, durable>>
           \/ Emit(t, part) /\ AutoFlush
        /\ Goto(t, l) /\ (UNCHANGED libc \/ CallLibrary(t))
        /\ UNCHANGED <<options, handled_by, death, survived, calls, arrivals>>
  <2>1. CASE StackTrace(t)
    BY <1>1, <2>1 DEF StackTrace, At
  <2>2. CASE ErrorContext(t)
    BY <1>1, <2>2 DEF ErrorContext, At, MayCallLibrary
  <2> QED  BY <2>1, <2>2
<1>3. f \in Frame /\ f.kind \in {"fatal", "signal"} /\ f.at \in Locked
  BY <1>1, <1>2, TopKnown DEF KindsAt, InHandler, Locked
<1>4. Holds(t)
  BY <1>1, <1>2, <1>3, TopKnown, SettledHolds
<1>5. GoesOn(t, f, l) /\ l \in Labels
  BY <1>2, <1>3 DEF GoesOn, KindsAt, InHandler, Locked, Labels
<1>6. PICK g : g = [f EXCEPT !.at = l]
  OBVIOUS
<1>7. g.at = l
  BY <1>3, <1>6 DEF Frame
<1>8. Words(g)'
  BY <1>2, <1>7 DEF Words, Settled, Delivered
<1>9. log' = log \/ (Holds(t) /\ \E e \in Entry : log' = Append(log, e))
  BY <1>2, <1>4, EmitIs
<1>10. durable' = durable \/ durable' = Len(log')
  BY <1>2 DEF AutoFlush
<1>11. Around(t)
  <2>1. Stacks'
    BY <1>2, <1>5, TopKnown, GotoIs
  <2> QED  BY <1>2, <1>9, <1>10, <2>1, LogStep
<1> QED  BY <1>1, <1>2, <1>5, <1>6, <1>8, <1>11, GotoStep

(* The message itself. *)
LEMMA DeliverStep ==
  ASSUME FatalInv, NEW t \in Threads, Deliver(t), UNCHANGED options
  PROVE  FatalInv'
<1>1. PICK f : f = Top(t)
  OBVIOUS
<1>2. stack[t] # <<>> /\ death = "no" /\ f.at = "deliver"
  BY <1>1 DEF Deliver, At
<1>3. f \in Frame /\ f.kind \in {"plain", "fatal", "signal"} /\ f.at \in Locked
  BY <1>1, <1>2, TopKnown DEF KindsAt, InHandler, Locked
<1>4. Holds(t)
  BY <1>1, <1>2, <1>3, TopKnown, SettledHolds
<1>5. PICK l : l = IF f.kind = "plain" THEN "unlock" ELSE "flush"
  OBVIOUS
<1>6. PICK part \in {"plain", "fatal"} : part = IF f.kind = "plain" THEN "plain" ELSE "fatal"
  OBVIOUS
<1>7. /\ Goto(t, l) /\ Emit(t, part) /\ AutoFlush
      /\ UNCHANGED <<options, handled_by, libc, death, survived, calls, arrivals>>
  BY <1>1, <1>5, <1>6 DEF Deliver
<1>8. GoesOn(t, f, l) /\ l \in Labels
  BY <1>2, <1>3, <1>5 DEF GoesOn, KindsAt, InHandler, Locked, Labels
<1>9. PICK g : g = [f EXCEPT !.at = l]
  OBVIOUS
<1>10. g.at = l /\ g.kind = f.kind /\ g.no = f.no
  BY <1>3, <1>9 DEF Frame
<1>11. PICK no : no = f.no
  OBVIOUS
<1>12. (\E e \in Entry : log' = Append(log, e)) /\ Printed(part, no)' # {}
  BY <1>1, <1>2, <1>7, <1>11, EmitIs
<1>13. Words(g)'
  <2>1. f.kind # "plain" => Printed("fatal", g.no)' # {}
    BY <1>6, <1>10, <1>11, <1>12
  <2> QED  BY <1>5, <1>10, <2>1 DEF Words, Settled, Delivered
<1>14. durable' = durable \/ durable' = Len(log')
  BY <1>7 DEF AutoFlush
<1>15. Around(t)
  BY <1>4, <1>7, <1>12, <1>14, LogStep
<1> QED  BY <1>1, <1>2, <1>7, <1>8, <1>9, <1>13, <1>15, GotoStep

(* What is flushed before the handler, and after it. *)
LEMMA FlushStep ==
  ASSUME FatalInv, NEW t \in Threads, Flush(t) \/ FlushAgain(t) \/ CallHandler(t),
         UNCHANGED options
  PROVE  FatalInv'
<1>1. PICK f : f = Top(t)
  OBVIOUS
<1>2. PICK l :
        /\ stack[t] # <<>> /\ death = "no" /\ f.at \in {"flush", "flush_again", "handler"}
        /\ l \in {"handler", "in_handler", AfterHandler(t)}
        /\ Goto(t, l)
        /\ durable' = Len(log) \/ (f.at = "handler" /\ durable' = durable)
        /\ UNCHANGED libc \/ CallLibrary(t)
        /\ UNCHANGED <<options, log, handled_by, death, survived, calls, arrivals>>
  <2>1. CASE Flush(t)
    BY <1>1, <2>1 DEF Flush, At, FlushAll
  <2>2. CASE FlushAgain(t)
    BY <1>1, <2>2 DEF FlushAgain, At, FlushAll
  <2>3. CASE CallHandler(t)
    <3>1. PICK l : l = IF HandlerMay = {} THEN AfterHandler(t) ELSE "in_handler"
      OBVIOUS
    <3>2. Goto(t, l) /\ (UNCHANGED libc \/ CallLibrary(t))
      BY <2>3, <3>1 DEF CallHandler, MayCallLibrary
    <3> QED  BY <1>1, <2>3, <3>1, <3>2 DEF CallHandler, At
  <2> QED  BY <2>1, <2>2, <2>3
<1>3. f \in Frame /\ f.kind \in {"fatal", "signal"} /\ Words(f)
  BY <1>1, <1>2, TopKnown DEF KindsAt, InHandler
<1>4. \/ l \in {"handler", "in_handler"}
      \/ l = "abort" /\ f.kind = "fatal"
      \/ l = "unlock" /\ f.kind = "signal"
  BY <1>1, <1>2, <1>3 DEF AfterHandler
<1>5. GoesOn(t, f, l) /\ l \in Labels
  BY <1>2, <1>3, <1>4 DEF GoesOn, KindsAt, InHandler, Locked, Labels
<1>6. PICK g : g = [f EXCEPT !.at = l]
  OBVIOUS
<1>7. g.at = l /\ g.kind = f.kind /\ g.no = f.no
  BY <1>3, <1>6 DEF Frame
<1>8. durable' = Len(log')
  BY <1>2, <1>3 DEF Words, Settled
<1>9. Printed("fatal", g.no)' # {}
  <2>1. Printed("fatal", f.no) # {}
    BY <1>2, <1>3 DEF Words, Settled, Delivered
  <2> QED  BY <1>2, <1>7, <2>1 DEF Printed
<1>10. Words(g)'
  BY <1>4, <1>7, <1>8, <1>9 DEF Words
<1>11. Around(t)
  <2>1. Stacks'
    BY <1>2, <1>5, TopKnown, GotoIs
  <2> QED  BY <1>2, <1>8, <2>1, LogStep
<1> QED  BY <1>1, <1>2, <1>5, <1>6, <1>10, <1>11, GotoStep

(* The fatal handler returns, having logged or not. *)
LEMMA HandlerReturnsStep ==
  ASSUME FatalInv, NEW t \in Threads, HandlerReturns(t), UNCHANGED options
  PROVE  FatalInv'
<1>1. PICK f : f = Top(t)
  OBVIOUS
<1>2. /\ stack[t] # <<>> /\ death = "no" /\ f.at = "in_handler"
      /\ \/ UNCHANGED <<log, durable>>
         \/ Emit(t, "plain") /\ AutoFlush
      /\ Goto(t, "flush_again")
      /\ UNCHANGED <<options, handled_by, libc, death, survived, calls, arrivals>>
  BY <1>1 DEF HandlerReturns, At
<1>3. f \in Frame /\ f.kind \in {"fatal", "signal"} /\ f.at \in Locked /\ Words(f)
  BY <1>1, <1>2, TopKnown DEF KindsAt, InHandler, Locked
<1>4. Holds(t)
  BY <1>1, <1>2, <1>3, TopKnown, SettledHolds
<1>5. GoesOn(t, f, "flush_again") /\ "flush_again" \in Labels
  BY <1>2, <1>3 DEF GoesOn, KindsAt, InHandler, Locked, Labels
<1>6. PICK g : g = [f EXCEPT !.at = "flush_again"]
  OBVIOUS
<1>7. g.at = "flush_again" /\ g.kind = f.kind /\ g.no = f.no
  BY <1>3, <1>6 DEF Frame
<1>8. log' = log \/ (Holds(t) /\ \E e \in Entry : log' = Append(log, e))
  BY <1>2, <1>4, EmitIs
<1>9. durable' = durable \/ durable' = Len(log')
  BY <1>2 DEF AutoFlush
<1>10. Around(t)
  BY <1>2, <1>8, <1>9, LogStep
<1>11. Words(g)'
  <2>1. Printed("fatal", f.no) # {}
    BY <1>2, <1>3 DEF Words, Settled, Delivered
  <2>2. PICK n : n \in Printed("fatal", f.no)
    BY <2>1
  <2>3. TypeOK
    BY DEF FatalInv
  <2>4. n \in Printed("fatal", f.no)'
    BY <1>10, <2>2, <2>3, PrintedStays
  <2>5. Printed("fatal", g.no)' # {}
    BY <1>7, <2>4 DEF Printed
  <2> QED  BY <1>7, <2>5 DEF Words, Settled
<1> QED  BY <1>1, <1>2, <1>5, <1>6, <1>10, <1>11, GotoStep

(* loguru stops catching SIGABRT. *)
LEMMA ResetStep ==
  ASSUME FatalInv, NEW t \in Threads, ResetSigabrt(t), UNCHANGED options
  PROVE  FatalInv'
<1>1. PICK f : f = Top(t)
  OBVIOUS
<1>2. /\ stack[t] # <<>> /\ death = "no" /\ f.at = "abort" /\ Goto(t, "raise")
      /\ handled_by' = IF SIGABRT \in options.caught
                       THEN [handled_by EXCEPT ![SIGABRT] = "default"] ELSE handled_by
      /\ UNCHANGED <<options, log, durable, libc, death, survived, calls, arrivals>>
  BY <1>1 DEF ResetSigabrt, At
<1>3. f \in Frame /\ f.kind = "fatal" /\ Words(f)
  BY <1>1, <1>2, TopKnown DEF KindsAt, InHandler
<1>4. GoesOn(t, f, "raise") /\ "raise" \in Labels
  BY <1>2, <1>3 DEF GoesOn, KindsAt, InHandler, Locked, Labels
<1>5. PICK g : g = [f EXCEPT !.at = "raise"]
  OBVIOUS
<1>6. g.at = "raise" /\ g.kind = f.kind /\ g.no = f.no
  BY <1>3, <1>5 DEF Frame
<1>7. /\ handled_by' \in [Signals -> {"loguru", "default"}] /\ handled_by'[SIGABRT] = "default"
      /\ \A s \in Signals : handled_by[s] = "default" => handled_by'[s] = "default"
  <2>1. handled_by \in [Signals -> {"loguru", "default"}] /\ SIGABRT \in Signals
    BY Typed
  <2>2. CASE SIGABRT \in options.caught
    BY <1>2, <2>1, <2>2
  <2>3. CASE SIGABRT \notin options.caught
    <3>1. handled_by[SIGABRT] # "loguru"
      BY <2>1, <2>3 DEF FatalInv, Caught
    <3>2. handled_by[SIGABRT] \in {"loguru", "default"}
      BY <2>1
    <3> QED  BY <1>2, <2>1, <2>3, <3>1, <3>2
  <2> QED  BY <2>2, <2>3
<1>8. Around(t)
  BY <1>2, <1>7, Typed DEF Around, LibraryCall
<1>9. Words(g)'
  <2>1. Printed("fatal", f.no) # {} /\ durable = Len(log)
    BY <1>2, <1>3 DEF Words, Settled, Delivered
  <2>2. Printed("fatal", g.no)' # {}
    BY <1>2, <1>6, <2>1 DEF Printed
  <2> QED  BY <1>2, <1>6, <1>7, <2>1, <2>2 DEF Words
<1> QED  BY <1>1, <1>2, <1>4, <1>5, <1>8, <1>9, GotoStep

(* abort() ends the process, or comes to signal_handler: not for loguru's own. *)
LEMMA RaiseStep ==
  ASSUME FatalInv, NEW t \in Threads, Raise(t), UNCHANGED options
  PROVE  FatalInv'
<1>1. PICK f : f = Top(t)
  OBVIOUS
<1>2. /\ stack[t] # <<>> /\ death = "no" /\ f.at = "raise"
      /\ UNCHANGED <<options, log, durable, handled_by, libc, survived, calls, arrivals>>
  BY <1>1 DEF Raise, At
<1>3. f \in Frame /\ f.kind \in {"fatal", "none"} /\ Words(f)
  BY <1>1, <1>2, TopKnown DEF KindsAt, InHandler
<1>4. CASE handled_by[SIGABRT] = "default"
  <2>1. stack' = stack /\ death' = IF f.kind = "fatal" THEN "fatal" ELSE "uncaught"
    BY <1>1, <1>4 DEF Raise, Die
  <2>2. Deaths'
    <3>1. ASSUME death' = "fatal" PROVE stack'[t] # <<>> /\ Top(t)'.at = "raise" /\ Top(t)'.kind = "fatal"
      <4>1. f.kind = "fatal"
        BY <2>1, <3>1
      <4> QED  BY <1>1, <1>2, <2>1, <4>1 DEF Top
    <3>2. death' # "signal"
      BY <2>1
    <3> QED  BY <3>1, <3>2 DEF Deaths
  <2>3. Around(t)
    BY <1>2, <2>1, Typed DEF Around, LibraryCall
  <2> QED  BY <1>2, <2>1, <2>2, <2>3, StillStep
<1>5. CASE handled_by[SIGABRT] # "default"
  <2>1. f.kind = "none"
    BY <1>2, <1>3, <1>5 DEF Words
  <2>2. PICK h : h = [at |-> "write", kind |-> "none", no |-> f.no, sig |-> SIGABRT]
    OBVIOUS
  <2>3. h \in Frame /\ h.at = "write" /\ h.kind = "none"
    BY <1>3, <2>2 DEF Frame, InHandler
  <2>4. CallThen(t, "raised", h) /\ death' = death
    BY <1>1, <1>5, <2>2 DEF Raise
  <2>5. Stacks /\ Shape /\ OneHolds
    BY DEF FatalInv, TypeOK, Stacks
  <2>6. "raised" \in Labels /\ h.kind \in KindsAt(h.at) /\ f.kind \in KindsAt("raised") /\ h.at \in InHandler /\ h.at \notin Locked
    BY <2>1, <2>3 DEF Labels, Locked, KindsAt, InHandler
  <2>7. f.at \notin InHandler
    BY <1>2 DEF InHandler
  <2>8. Stacks' /\ Shape' /\ OneHolds'
    BY <1>1, <1>2, <2>1, <2>3, <2>4, <2>5, <2>6, <2>7, CallThenKeeps
  <2>9. Top(t)' = h /\ \A u \in Threads : u # t => stack'[u] = stack[u]
    BY <1>2, <2>3, <2>4, <2>5, <2>6, CallThenIs, ZenonT(60)
  <2>10. Words(h)'
    BY <2>3 DEF Words, Settled, Delivered
  <2>11. Words(Top(t))'
    BY <2>9, <2>10 DEF Words, Printed
  <2>12. Around(t) /\ Deaths'
    BY <1>2, <2>4, Typed DEF Around, Deaths, LibraryCall
  <2> QED  BY <2>8, <2>9, <2>11, <2>12, StepKeeps
<1> QED  BY <1>4, <1>5

(* The end of log_message, or of a change of the callbacks. *)
LEMMA ReturnStep ==
  ASSUME FatalInv, NEW t \in Threads, Return(t) \/ HandlerThrows(t), UNCHANGED options
  PROVE  FatalInv'
<1>1. PICK f : f = Top(t)
  OBVIOUS
<1>2. /\ stack[t] # <<>> /\ death = "no" /\ f.at \in {"unlock", "change", "in_handler"}
      /\ Pop(t) /\ survived' \in BOOLEAN
      /\ UNCHANGED <<options, log, durable, handled_by, libc, death, calls, arrivals>>
  <2>1. CASE Return(t)
    <3>1. survived' \in BOOLEAN
      BY <2>1 DEF Return
    <3> QED  BY <1>1, <2>1, <3>1 DEF Return, At
  <2>2. CASE HandlerThrows(t)
    BY <1>1, <2>2, Typed DEF HandlerThrows, At
  <2> QED  BY <2>1, <2>2
<1>3. f \in Frame /\ f.kind \in {"plain", "change", "fatal", "signal"} /\ Words(f)
  BY <1>1, <1>2, TopKnown DEF KindsAt, InHandler
<1>4. f.kind = "signal" => Printed("fatal", f.no) # {}
  <2>1. f.kind = "signal" => f.at # "change"
    BY <1>1, <1>2, TopKnown DEF KindsAt, InHandler
  <2> QED  BY <1>2, <1>3, <2>1 DEF Words, Delivered, Settled
<1>5. Around(t)
  BY <1>2, Typed DEF Around, LibraryCall
<1> QED  BY <1>1, <1>2, <1>3, <1>4, <1>5, PopStep

(* The rest of a change of the callbacks. *)
LEMMA ChangeStep ==
  ASSUME FatalInv, NEW t \in Threads, OnCallbackChange(t), UNCHANGED options
  PROVE  FatalInv'
<1>1. PICK f : f = Top(t)
  OBVIOUS
<1>2. /\ stack[t] # <<>> /\ death = "no" /\ f.at = "add" /\ Goto(t, "change")
      /\ UNCHANGED <<options, log, durable, handled_by, libc, death, survived, calls, arrivals>>
  BY <1>1 DEF OnCallbackChange, At
<1>3. f \in Frame /\ f.kind = "change"
  BY <1>1, <1>2, TopKnown DEF KindsAt, InHandler
<1>4. GoesOn(t, f, "change") /\ "change" \in Labels
  BY <1>2, <1>3 DEF GoesOn, KindsAt, InHandler, Locked, Labels
<1>5. PICK g : g = [f EXCEPT !.at = "change"]
  OBVIOUS
<1>6. g.at = "change"
  BY <1>3, <1>5 DEF Frame
<1>7. Words(g)'
  BY <1>6 DEF Words, Settled, Delivered
<1>8. Around(t)
  BY <1>2, LogStep
<1> QED  BY <1>1, <1>2, <1>4, <1>5, <1>7, <1>8, GotoStep

(***************************************************************************)
(* signal_handler, step by step.                                           *)
(***************************************************************************)
LEMMA WriteStep ==
  ASSUME FatalInv, NEW t \in Threads, WriteToStderr(t) \/ HandlerFlushes(t), UNCHANGED options
  PROVE  FatalInv'
<1>1. PICK f : f = Top(t)
  OBVIOUS
<1>2. PICK l :
        /\ stack[t] # <<>> /\ death = "no"
        /\ \/ f.at = "write" /\ durable' = durable
              /\ (l = "flush_first" \/ (l = "default" /\ ~options.unsafe_signal_handler))
           \/ f.at = "flush_first" /\ l = "log" /\ durable' = Len(log)
           \/ f.at = "flush_last" /\ l = "default" /\ durable' = Len(log)
        /\ Goto(t, l) /\ (UNCHANGED libc \/ CallLibrary(t))
        /\ UNCHANGED <<options, log, handled_by, death, survived, calls, arrivals>>
  <2>1. CASE WriteToStderr(t)
    <3>1. PICK l : l = IF options.unsafe_signal_handler THEN "flush_first" ELSE "default"
      OBVIOUS
    <3>2. Goto(t, l)
      BY <2>1, <3>1 DEF WriteToStderr
    <3> QED  BY <1>1, <2>1, <3>1, <3>2 DEF WriteToStderr, At
  <2>2. CASE HandlerFlushes(t)
    <3>1. PICK l : l = IF At(t, "flush_first") THEN "log" ELSE "default"
      OBVIOUS
    <3>2. Goto(t, l) /\ (UNCHANGED libc \/ CallLibrary(t))
      BY <2>2, <3>1 DEF HandlerFlushes
    <3> QED  BY <1>1, <2>2, <3>1, <3>2 DEF HandlerFlushes, At, FlushAll
  <2> QED  BY <2>1, <2>2
<1>3. f \in Frame /\ f.kind = "none" /\ f.at \in InHandler /\ Words(f)
  BY <1>1, <1>2, TopKnown DEF KindsAt, InHandler
<1>4. GoesOn(t, f, l) /\ l \in Labels
  BY <1>2, <1>3 DEF GoesOn, KindsAt, InHandler, Locked, Labels
<1>5. PICK g : g = [f EXCEPT !.at = l]
  OBVIOUS
<1>6. g.at = l /\ g.kind = f.kind /\ g.no = f.no
  BY <1>3, <1>5 DEF Frame
<1>7. Around(t)
  <2>1. Stacks'
    BY <1>2, <1>4, TopKnown, GotoIs
  <2> QED  BY <1>2, <2>1, LogStep
<1>8. Words(g)'
  <2>1. CASE f.at = "flush_last" /\ l = "default" /\ durable' = Len(log)
    <3>1. PICK n : n \in Printed("fatal", f.no)
      BY <1>3, <2>1 DEF Words
    <3>2. n \in 1..Len(log) /\ n <= Len(log)
      BY <3>1, Typed DEF Printed
    <3>3. n \in Printed("fatal", g.no)' /\ n <= durable'
      BY <1>2, <1>6, <2>1, <3>1, <3>2 DEF Printed
    <3> QED  BY <1>6, <2>1, <3>3 DEF Words, Settled, Delivered
  <2>2. CASE l # "default" \/ ~options.unsafe_signal_handler
    BY <1>2, <1>6, <2>2 DEF Words, Settled, Delivered
  <2> QED  BY <1>2, <2>1, <2>2
<1> QED  BY <1>1, <1>2, <1>4, <1>5, <1>7, <1>8, GotoStep

(* It calls log_message. *)
LEMMA HandlerLogsStep ==
  ASSUME FatalInv, NEW t \in Threads, HandlerLogs(t), UNCHANGED options
  PROVE  FatalInv'
<1>1. PICK f : f = Top(t)
  OBVIOUS
<1>2. /\ stack[t] # <<>> /\ death = "no" /\ f.at = "log"
      /\ UNCHANGED <<options, log, durable, handled_by, libc, death, survived, calls, arrivals>>
  BY <1>1 DEF HandlerLogs, At
<1>3. f \in Frame /\ f.kind = "none"
  BY <1>1, <1>2, TopKnown DEF KindsAt, InHandler
<1>4. PICK h : h = LogFrame("signal", f.no)
  OBVIOUS
<1>5. h \in Frame /\ h.at = "lock" /\ h.kind = "signal" /\ h.no = f.no
  BY <1>3, <1>4 DEF Frame, LogFrame
<1>6. CallThen(t, "flush_last", h)
  BY <1>1, <1>4 DEF HandlerLogs
<1>7. Stacks /\ Shape /\ OneHolds
  BY DEF FatalInv, TypeOK, Stacks
<1>8. /\ "flush_last" \in Labels /\ h.kind \in KindsAt(h.at) /\ f.kind \in KindsAt("flush_last")
      /\ h.at \notin Locked /\ "flush_last" \in InHandler
  BY <1>3, <1>5 DEF Labels, Locked, KindsAt, InHandler
<1>9. Stacks' /\ Shape' /\ OneHolds'
  BY <1>1, <1>2, <1>3, <1>5, <1>6, <1>7, <1>8, CallThenKeeps
<1>10. Top(t)' = h /\ \A u \in Threads : u # t => stack'[u] = stack[u]
  <2>1. Stacks /\ "flush_last" \in Labels
    BY <1>7, <1>8
  <2> QED  BY ONLY <2>1, t \in Threads, <1>2, <1>5, <1>6, CallThenIs, ZenonT(60)
<1>11. Words(h)'
  BY <1>5 DEF Words, Settled, Delivered
<1>12. Words(Top(t))'
  BY <1>10, <1>11 DEF Words, Printed
<1>13. Around(t) /\ Deaths'
  BY <1>2, Typed DEF Around, Deaths, LibraryCall
<1> QED  BY <1>9, <1>10, <1>12, <1>13, StepKeeps

(* It sends the signal once more, to the default handler. *)
LEMMA DefaultStep ==
  ASSUME FatalInv, NEW t \in Threads, CallDefault(t), UNCHANGED options
  PROVE  FatalInv'
<1>1. /\ stack[t] # <<>> /\ Top(t).at = "default" /\ death' = "signal"
      /\ handled_by' = [handled_by EXCEPT ![Top(t).sig] = "default"]
      /\ UNCHANGED <<options, stack, log, durable, libc, survived, calls, arrivals>>
  BY DEF CallDefault, At, Die
<1>2. Deaths'
  BY <1>1 DEF Deaths, Top
<1>3. PICK s : s = Top(t).sig
  OBVIOUS
<1>4. /\ handled_by' \in [Signals -> {"loguru", "default"}]
      /\ \A x \in Signals : handled_by[x] = "default" => handled_by'[x] = "default"
  BY <1>1, <1>3, Typed
<1>5. Around(t)
  BY <1>1, <1>4, Typed DEF Around, LibraryCall
<1> QED  BY <1>1, <1>2, <1>5, StillStep

-----------------------------------------------------------------------------
(* What comes from outside: the program calls, and signals arrive. *)
LEMMA ArriveStep ==
  ASSUME FatalInv, NEW t \in Threads, Arrive(t)
  PROVE  FatalInv'
<1>0. Stacks /\ options' = options
  BY DEF FatalInv, TypeOK, Stacks, Arrive
<1>1. ASSUME NEW f \in Frame, Begin(t), Push(t, f), f.no \in {0, calls'},
             \/ f.at = "lock" /\ f.kind \in {"plain", "fatal"}
             \/ f.at = "raise" /\ f.kind = "none"
             \/ f.at = "add" /\ f.kind = "change" /\ MayLock(t),
             UNCHANGED libc \/ CallLibrary(t),
             UNCHANGED <<log, durable, handled_by, death, survived, arrivals>>
      PROVE  FatalInv'
  <2>1. stack[t] = <<>> /\ death' = "no" /\ calls' \in 0..MaxCalls
    BY <1>1, Typed DEF Begin, Idle
  <2>2. Around(t)
    <3>1. LibraryCall'
      BY <1>0, <1>1, PushIs, LibraryTyped
    <3> QED  BY <1>0, <1>1, <2>1, <3>1, Typed DEF Around, LibraryCall
  <2>3. f.kind \in KindsAt(f.at) /\ f.kind # "signal"
    BY <1>1 DEF KindsAt, InHandler
  <2>4. f.at \in Locked => f.kind = "none" \/ MayLock(t)
    BY <1>1 DEF Locked
  <2> QED  BY <1>1, <2>1, <2>2, <2>3, <2>4, PushStep
<1>2. ASSUME Begin(t) PROVE calls' \in 0..(MaxCalls + MaxSignals)
  BY <1>2, Typed DEF Begin
<1>3. CASE Log(t)
  <2>1. PICK f : f = LogFrame("plain", calls')
    OBVIOUS
  <2>2. /\ Begin(t) /\ Push(t, f) /\ CallLibrary(t)
        /\ UNCHANGED <<log, durable, handled_by, death, survived, arrivals>>
    BY <1>3, <2>1 DEF Log
  <2>3. f \in Frame /\ f.at = "lock" /\ f.kind = "plain" /\ f.no = calls'
    BY <1>2, <2>1, <2>2 DEF Frame, LogFrame
  <2> QED  BY <1>1, <2>2, <2>3
<1>4. CASE CheckFails(t) \/ (LogFatal(t) /\ ~CutoffOff)
  <2>1. PICK f : f = LogFrame("fatal", calls')
    OBVIOUS
  <2>2. /\ Begin(t) /\ Push(t, f) /\ CallLibrary(t)
        /\ UNCHANGED <<log, durable, handled_by, death, survived, arrivals>>
    BY <1>4, <2>1 DEF CheckFails, LogFatal
  <2>3. f \in Frame /\ f.at = "lock" /\ f.kind = "fatal" /\ f.no = calls'
    BY <1>2, <2>1, <2>2 DEF Frame, LogFrame
  <2> QED  BY <1>1, <2>2, <2>3
<1>5. CASE LogFatal(t) /\ CutoffOff
  <2>1. /\ Begin(t) /\ survived' = TRUE /\ stack' = stack
        /\ UNCHANGED <<log, durable, handled_by, libc, death, arrivals>>
    BY <1>5 DEF LogFatal
  <2>2. death' = "no" /\ calls' \in 0..MaxCalls
    BY <2>1, Typed DEF Begin, Idle
  <2>3. Around(t) /\ Deaths'
    BY <1>0, <2>1, <2>2, Typed DEF Around, Deaths, LibraryCall
  <2> QED  BY <2>1, <2>3, StillStep
<1>6. CASE ChangeCallbacks(t)
  <2>1. PICK f : f = [at |-> "add", kind |-> "change", no |-> 0, sig |-> SIGABRT]
    OBVIOUS
  <2>2. /\ Begin(t) /\ MayLock(t) /\ Push(t, f) /\ CallLibrary(t)
        /\ UNCHANGED <<log, durable, handled_by, death, survived, arrivals>>
    BY <1>6, <2>1 DEF ChangeCallbacks
  <2>3. f \in Frame /\ f.at = "add" /\ f.kind = "change" /\ f.no = 0
    BY <2>1 DEF Frame, Locked
  <2> QED  BY <1>1, <2>2, <2>3
<1>7. CASE StdAbort(t)
  <2>1. PICK f : f = [at |-> "raise", kind |-> "none", no |-> calls', sig |-> SIGABRT]
    OBVIOUS
  <2>2. Begin(t) /\ Push(t, f) /\ UNCHANGED <<log, durable, handled_by, libc, death, survived, arrivals>>
    BY <1>7, <2>1 DEF StdAbort
  <2>3. f \in Frame /\ f.at = "raise" /\ f.kind = "none" /\ f.no = calls'
    BY <1>2, <2>1, <2>2 DEF Frame, Locked
  <2> QED  BY <1>1, <2>2, <2>3
<1>8. CASE CallMalloc(t)
  <2>1. /\ Begin(t) /\ CallLibrary(t) /\ stack' = stack
        /\ UNCHANGED <<log, durable, handled_by, death, survived, arrivals>>
    BY <1>8 DEF CallMalloc
  <2>2. death' = "no" /\ calls' \in 0..MaxCalls
    BY <2>1, Typed DEF Begin, Idle
  <2>3. LibraryCall'
    BY <1>0, <2>1, LibraryTyped DEF Stacks
  <2>4. Around(t) /\ Deaths'
    BY <1>0, <2>1, <2>2, <2>3, Typed DEF Around, Deaths, LibraryCall
  <2> QED  BY <2>1, <2>4, StillStep
<1>9. CASE SignalArrives(t)
  <2>1. /\ death = "no" /\ arrivals' \in 0..MaxSignals
        /\ UNCHANGED <<log, durable, handled_by, libc, survived, calls>>
    BY <1>9, Typed DEF SignalArrives
  <2>2. PICK s \in Signals :
          \/ death' = "uncaught" /\ stack' = stack
          \/ /\ Push(t, [at |-> "write", kind |-> "none", no |-> MaxCalls + arrivals', sig |-> s])
             /\ death' = "no"
    BY <1>9, <2>1 DEF SignalArrives, Die
  <2>3. Around(t)
    BY <1>0, <2>1, <2>2, Typed DEF Around, LibraryCall
  <2>4. CASE death' = "uncaught" /\ stack' = stack
    <3>1. Deaths'
      BY <2>4 DEF Deaths
    <3> QED  BY <2>1, <2>3, <2>4, <3>1, StillStep
  <2>5. CASE death' = "no" /\ Push(t, [at |-> "write", kind |-> "none", no |-> MaxCalls + arrivals', sig |-> s])
    <3>1. PICK f : f = [at |-> "write", kind |-> "none", no |-> MaxCalls + arrivals', sig |-> s]
      OBVIOUS
    <3>2. MaxCalls + arrivals' \in 0..(MaxCalls + MaxSignals)
      <4>1. PICK a \in 0..MaxSignals : a = arrivals'
        BY <2>1
      <4>2. MaxCalls + a \in 0..(MaxCalls + MaxSignals)
        OBVIOUS
      <4> QED  BY <4>1, <4>2
    <3>3. f \in Frame /\ f.at = "write" /\ f.kind = "none"
      BY <3>1, <3>2 DEF Frame, InHandler
    <3>4. f.kind \in KindsAt(f.at) /\ f.at \in InHandler /\ f.at \notin Locked
      BY <3>3 DEF KindsAt, InHandler, Locked
    <3> QED  BY <2>3, <2>5, <3>1, <3>3, <3>4, PushStep
  <2> QED  BY <2>2, <2>4, <2>5
<1> QED  BY <1>3, <1>4, <1>5, <1>6, <1>7, <1>8, <1>9 DEF Arrive

(* At first no call is under way, and the log is empty. *)
LEMMA InvAtInit ==
  ASSUME Init
  PROVE  FatalInv
<1>1. \A t \in Threads : stack[t] = <<>>
  BY DEF Init
<1>2. TypeOK
  <2>1. stack \in [Threads -> Seq(Frame)] /\ log \in Seq(Entry)
    BY DEF Init
  <2>2. durable \in 0..Len(log) /\ calls \in 0..MaxCalls /\ arrivals \in 0..MaxSignals
    <3>1. log = <<>> /\ Len(<<>>) = 0 /\ durable = 0 /\ calls = 0 /\ arrivals = 0
      BY DEF Init
    <3> QED  BY <3>1
  <2> QED  BY <2>1, <2>2 DEF Init, TypeOK
<1>3. Shape
  <2>1. Len(<<>>) = 0
    OBVIOUS
  <2> QED  BY <1>1, <2>1 DEF Shape
<1>4. OneHolds
  <2>1. Stacks
    BY <1>2 DEF TypeOK, Stacks
  <2>2. \A t \in Threads : ~Holds(t)
    BY <1>1, <2>1, HoldsIs
  <2> QED  BY <2>2 DEF OneHolds
<1>5. Caught /\ LastWords /\ Deaths
  BY <1>1 DEF Init, Caught, LastWords, Deaths
<1> QED  BY <1>2, <1>3, <1>4, <1>5 DEF FatalInv

(* One step, and any behaviour. *)
LEMMA NextKeeps ==
  ASSUME FatalInv, [Next]_fvars
  PROVE  FatalInv'
<1>1. ASSUME NEW t \in Threads, Step(t) PROVE FatalInv'
  <2>1. UNCHANGED options
    BY <1>1 DEF Step
  <2>2. CASE Lock(t)
    BY <2>1, <2>2, LockStep
  <2>3. CASE StackTrace(t) \/ ErrorContext(t)
    BY <2>1, <2>3, TraceStep
  <2>4. CASE Deliver(t)
    BY <2>1, <2>4, DeliverStep
  <2>5. CASE Flush(t) \/ FlushAgain(t) \/ CallHandler(t)
    BY <2>1, <2>5, FlushStep
  <2>6. CASE HandlerReturns(t)
    BY <2>1, <2>6, HandlerReturnsStep
  <2>7. CASE ResetSigabrt(t)
    BY <2>1, <2>7, ResetStep
  <2>8. CASE Raise(t)
    BY <2>1, <2>8, RaiseStep
  <2>9. CASE Return(t) \/ HandlerThrows(t)
    BY <2>1, <2>9, ReturnStep
  <2>10. CASE WriteToStderr(t) \/ HandlerFlushes(t)
    BY <2>1, <2>10, WriteStep
  <2>11. CASE HandlerLogs(t)
    BY <2>1, <2>11, HandlerLogsStep
  <2>12. CASE CallDefault(t)
    BY <2>1, <2>12, DefaultStep
  <2>13. CASE LeaveLibrary(t)
    <3>1. /\ death' = "no" /\ libc' = NoOne /\ stack' = stack
          /\ UNCHANGED <<log, durable, handled_by, survived, calls, arrivals>>
      BY <2>13 DEF LeaveLibrary
    <3>2. Around(t) /\ Deaths'
      BY <2>1, <3>1, Typed DEF Around, Deaths, LibraryCall
    <3> QED  BY <3>1, <3>2, StillStep
  <2>14. CASE OnCallbackChange(t)
    BY <2>1, <2>14, ChangeStep
  <2> QED  BY <1>1, <2>2, <2>3, <2>4, <2>5, <2>6, <2>7, <2>8, <2>9, <2>10, <2>11, <2>12,
              <2>13, <2>14 DEF Step
<1>2. CASE UNCHANGED fvars
  <2>1. UNCHANGED <<options, stack, log, durable, handled_by, libc, death, survived, calls, arrivals>>
    BY <1>2 DEF fvars
  <2> QED  BY <2>1 DEF FatalInv, TypeOK, Shape, Above, OneHolds, Holds, Caught, LastWords, Words,
                       Printed, Top, Deaths
<1> QED  BY <1>1, <1>2, ArriveStep DEF Next

(* One thread holds s_mutex, the calls of a thread are those the code can   *)
(* be in, and Words and Deaths say what was flushed when.                   *)
THEOREM FatalInvariant == Spec => []FatalInv
BY InvAtInit, NextKeeps, PTL DEF Spec

(* Every variable of FatalPath keeps its type. *)
THEOREM TypeCorrect == Spec => []TypeOK
<1>1. FatalInv => TypeOK
  BY DEF FatalInv
<1> QED  BY <1>1, FatalInvariant, PTL

(* log_and_abort and signal_handler end the process only when the message   *)
(* about it, and with loguru's own abort everything else, was flushed; the  *)
(* fatal handler is called after that.                                      *)
THEOREM LastWordsCorrect == Spec => []LastWordsDurable
<1>1. ASSUME FatalInv PROVE LastWordsDurable
  <2>1. ASSUME NEW t \in Threads, At(t, "handler") PROVE durable = Len(log)
    <3>1. stack[t] # <<>> /\ Top(t).at = "handler"
      BY <2>1 DEF At
    <3>2. Top(t).kind # "none" /\ Words(Top(t))
      BY <1>1, <3>1, TopKnown DEF KindsAt, InHandler
    <3> QED  BY <3>1, <3>2 DEF Words, Settled
  <2>2. ASSUME death = "fatal"
        PROVE  /\ durable = Len(log)
               /\ \E t \in Threads : stack[t] # <<>> /\ Top(t).at = "raise"
                                     /\ Printed("fatal", Top(t).no) # {}
    <3>1. PICK t \in Threads : stack[t] # <<>> /\ Top(t).at = "raise" /\ Top(t).kind = "fatal"
      BY <1>1, <2>2 DEF FatalInv, Deaths
    <3>2. Words(Top(t))
      BY <1>1, <3>1, TopKnown
    <3> QED  BY <3>1, <3>2 DEF Words, Settled, Delivered
  <2>3. ASSUME death = "signal", options.unsafe_signal_handler
        PROVE  \E t \in Threads :
                 /\ stack[t] # <<>> /\ Top(t).at = "default"
                 /\ \E n \in Printed("fatal", Top(t).no) : n <= durable
    <3>1. PICK t \in Threads : stack[t] # <<>> /\ Top(t).at = "default"
      BY <1>1, <2>3 DEF FatalInv, Deaths
    <3>2. Words(Top(t))
      BY <1>1, <3>1, TopKnown
    <3> QED  BY <2>3, <3>1, <3>2 DEF Words
  <2> QED  BY <2>1, <2>2, <2>3 DEF LastWordsDurable
<1> QED  BY <1>1, FatalInvariant, PTL

(* The abort() at the end of log_and_abort never reaches signal_handler.    *)
THEOREM NoOwnAbortCorrect == Spec => []NoOwnAbortCaught
<1>1. ASSUME FatalInv PROVE NoOwnAbortCaught
  <2>1. SUFFICES ASSUME NEW t \in Threads, NEW n \in DOMAIN stack[t],
                        stack[t][n].at = "raised"
                 PROVE  stack[t][n].kind # "fatal"
    BY DEF NoOwnAbortCaught
  <2>2. PICK s \in Seq(Frame) : s = stack[t]
    BY <1>1 DEF FatalInv, TypeOK
  <2>3. DOMAIN s = 1..Len(s)
    OBVIOUS
  <2>4. stack[t][n].kind \in KindsAt("raised")
    BY <1>1, <2>1, <2>2, <2>3 DEF FatalInv, Shape
  <2> QED  BY <2>4 DEF KindsAt
<1> QED  BY <1>1, FatalInvariant, PTL

(* While g_stderr_verbosity is not OFF, no FATAL message returns to the     *)
(* program, whatever the fatal handler and the signals do.                  *)
THEOREM FatalNeverReturnsCorrect ==
  ~StderrOff => (Spec => []FatalNeverReturns)
<1> SUFFICES ASSUME ~StderrOff PROVE Spec => []FatalNeverReturns
  OBVIOUS
<1>1. Init => FatalNeverReturns
  BY DEF Init, FatalNeverReturns
<1>2. ASSUME FatalInv, FatalNeverReturns, [Next]_fvars
      PROVE  FatalNeverReturns'
  <2>1. ASSUME NEW t \in Threads, Return(t) PROVE ~survived'
    <3>1. stack[t] # <<>> /\ Top(t).at \in {"unlock", "change"}
      BY <2>1 DEF Return, At
    <3>2. Top(t).kind # "fatal"
      BY <1>2, <3>1, TopKnown DEF KindsAt, InHandler
    <3>3. survived' = (survived \/ Top(t).kind = "fatal")
      BY <2>1 DEF Return
    <3>4. ~survived
      BY <1>2 DEF FatalNeverReturns
    <3> QED  BY ONLY <3>2, <3>3, <3>4, Zenon
  <2>2. ASSUME NEW t \in Threads, LogFatal(t) PROVE survived' = survived
    BY <2>2 DEF LogFatal, CutoffOff
  <2>3. CASE \E t \in Threads : Step(t)
    <3>1. PICK t \in Threads : Step(t)
      BY <2>3
    <3>2. CASE Return(t)
      BY <2>1, <3>2 DEF FatalNeverReturns
    <3>3. CASE ~Return(t)
      BY <1>2, <3>1, <3>3 DEF FatalNeverReturns, Step, Lock, StackTrace, ErrorContext, Deliver, Flush, CallHandler,
            HandlerReturns, HandlerThrows, FlushAgain, ResetSigabrt, Raise, WriteToStderr,
            HandlerFlushes, HandlerLogs, CallDefault, LeaveLibrary, OnCallbackChange
    <3> QED  BY <3>2, <3>3
  <2>4. CASE \E t \in Threads : Arrive(t)
    <3>1. PICK t \in Threads : Arrive(t)
      BY <2>4
    <3>2. survived' = survived
      BY <2>2, <3>1 DEF Arrive, Log, CheckFails, ChangeCallbacks, StdAbort, CallMalloc,
            SignalArrives
    <3> QED  BY <1>2, <3>2 DEF FatalNeverReturns
  <2>5. CASE UNCHANGED fvars
    BY <1>2, <2>5 DEF fvars, FatalNeverReturns
  <2> QED  BY <1>2, <2>3, <2>4, <2>5 DEF Next
<1> QED  BY <1>1, <1>2, FatalInvariant, PTL DEF Spec

-----------------------------------------------------------------------------

(***************************************************************************)
(* The block of a FATAL message.  Numbers of messages are not used again,  *)
(* and the innermost calls of two threads have different ones.  A call that *)
(* is Silent has logged nothing; while one Speaks, holding the mutex, what *)
(* it logged is followed by lines of its own thread alone.                 *)
(***************************************************************************)
Used == (0..calls) \cup ((MaxCalls + 1)..(MaxCalls + arrivals))
Own(t) == stack[t] # <<>> /\ Top(t).kind # "change"
Silent(f) == \/ f.at \in {"lock", "trace", "write", "flush_first", "log"}
             \/ f.at = "raise" /\ f.kind = "none"
Speaks(f) == f.at \in Locked /\ f.kind \notin {"none", "change"}

NumberInv ==
  /\ \A t \in Threads : stack[t] # <<>> => Top(t).no \in Used
  /\ \A i \in 1..Len(log) : log[i].no \in Used
  /\ \A t, u \in Threads : Own(t) /\ Own(u) /\ Top(t).no = Top(u).no => t = u

SpeakInv ==
  \A t \in Threads : \A i \in 1..Len(log) :
    Own(t) /\ log[i].no = Top(t).no =>
      /\ ~Silent(Top(t))
      /\ Speaks(Top(t)) => \A j \in i..Len(log) : log[j].by = t

TogetherInv ==
  \A i, k \in 1..Len(log) :
    /\ i < k /\ log[i].no = log[k].no =>
         \A j \in i..k : log[j].by = log[i].by
    /\ log[i].no = log[k].no /\ log[i].part = "trace" /\ log[k].part = "fatal" => i < k

BlockInv == NumberInv /\ SpeakInv /\ TogetherInv

(***************************************************************************)
(* What a step of t does to its innermost call g, and to the log: the call *)
(* has a number that is new, or goes on with that of f.                    *)
(***************************************************************************)
NewNumber(no) == no \in Used' /\ no \notin Used
Continues(f, g, quiet) ==
  /\ f.kind # "change" /\ g.kind # "change" /\ g.no = f.no
  /\ Silent(g) => Silent(f) /\ quiet
  /\ Speaks(g) => Silent(f) \/ Speaks(f)
Says(t, part) ==
  /\ stack[t] # <<>> /\ Speaks(Top(t))
  /\ log' = Append(log, [part |-> part, by |-> t, no |-> Top(t).no])
  /\ part = "trace" => Silent(Top(t))
Steps(t) ==
  /\ \A u \in Threads : u # t => stack'[u] = stack[u]
  /\ Used \subseteq Used'
  /\ log' = log \/ \E part \in {"plain", "trace", "context", "fatal"} : Says(t, part)
  /\ stack'[t] # <<>> =>
       \/ Top(t)'.kind = "change" /\ Top(t)'.no \in Used'
       \/ NewNumber(Top(t)'.no) /\ log' = log
       \/ stack[t] # <<>> /\ Top(t)' = Top(t) /\ log' = log
       \/ stack[t] # <<>> /\ Continues(Top(t), Top(t)', log' = log)

(* What Says adds to the log. *)
LEMMA SaysIs ==
  ASSUME FatalInv, NEW t \in Threads, NEW part \in {"plain", "trace", "context", "fatal"},
         Says(t, part)
  PROVE  /\ Len(log) \in Nat /\ Len(log') = Len(log) + 1
         /\ \A n \in 1..Len(log) : log'[n] = log[n]
         /\ log'[Len(log) + 1].part = part /\ log'[Len(log) + 1].by = t
         /\ log'[Len(log) + 1].no = Top(t).no
<1>1. PICK e : e = [part |-> part, by |-> t, no |-> Top(t).no]
  OBVIOUS
<1>2. e \in Entry
  BY <1>1, TopKnown DEF Entry, Frame, Says
<1>3. PICK s \in Seq(Entry) : s = log
  BY Typed
<1>4. /\ Len(s) \in Nat /\ Len(Append(s, e)) = Len(s) + 1
      /\ Append(s, e)[Len(s) + 1] = e /\ \A n \in 1..Len(s) : Append(s, e)[n] = s[n]
  BY <1>2, AppendIs
<1>5. log' = Append(s, e)
  BY <1>1, <1>3 DEF Says
<1>6. e.part = part /\ e.by = t /\ e.no = Top(t).no
  BY <1>1
<1> QED  BY <1>3, <1>4, <1>5, <1>6

(* Only the thread that holds the mutex speaks. *)
LEMMA OneSpeaks ==
  ASSUME FatalInv, NEW t \in Threads, NEW u \in Threads,
         stack[t] # <<>>, Speaks(Top(t)), stack[u] # <<>>, Speaks(Top(u))
  PROVE  t = u
<1>1. Stacks
  BY DEF FatalInv, TypeOK, Stacks
<1>2. Holds(t) /\ Holds(u)
  BY <1>1, SettledHolds DEF Speaks
<1> QED  BY <1>2 DEF FatalInv, OneHolds

(* Such a step keeps what is known of the numbers. *)
LEMMA NumbersKept ==
  ASSUME FatalInv, NumberInv, NEW t \in Threads, Steps(t), 0 \in Used'
  PROVE  NumberInv'
<1>1. ASSUME NEW u \in Threads, u # t
      PROVE  stack'[u] = stack[u] /\ Top(u)' = Top(u) /\ Own(u)' = Own(u)
  BY <1>1 DEF Steps, Top, Own
<1>2. ASSUME stack'[t] # <<>>
      PROVE  /\ Top(t)'.no \in Used'
             /\ \/ Top(t)'.kind = "change"
                \/ Top(t)'.no \notin Used
                \/ Own(t) /\ Top(t)'.no = Top(t).no
  <2>1. CASE Top(t)'.kind = "change" /\ Top(t)'.no \in Used'
    BY <2>1
  <2>2. CASE NewNumber(Top(t)'.no)
    BY <2>2 DEF NewNumber
  <2>3. CASE stack[t] # <<>> /\ Top(t)' = Top(t)
    BY <2>3 DEF NumberInv, Steps, Own
  <2>4. CASE stack[t] # <<>> /\ Continues(Top(t), Top(t)', log' = log)
    BY <2>4 DEF NumberInv, Steps, Own, Continues
  <2> QED  BY <1>2, <2>1, <2>2, <2>3, <2>4 DEF Steps
<1>3. ASSUME NEW u \in Threads, stack'[u] # <<>> PROVE Top(u)'.no \in Used'
  BY <1>1, <1>2, <1>3 DEF NumberInv, Steps
<1>4. ASSUME NEW i \in 1..Len(log') PROVE log'[i].no \in Used'
  <2>1. CASE log' = log
    BY <2>1 DEF NumberInv, Steps
  <2>2. CASE \E part \in {"plain", "trace", "context", "fatal"} : Says(t, part)
    <3>1. PICK part \in {"plain", "trace", "context", "fatal"} : Says(t, part)
      BY <2>2
    <3>2. /\ Len(log) \in Nat /\ Len(log') = Len(log) + 1
          /\ \A n \in 1..Len(log) : log'[n] = log[n]
          /\ log'[Len(log) + 1].no = Top(t).no
      BY <3>1, SaysIs
    <3>3. i \in 1..Len(log) \/ i = Len(log) + 1
      BY <3>2
    <3>4. Top(t).no \in Used
      BY <3>1 DEF Says, NumberInv
    <3> QED  BY <3>2, <3>3, <3>4 DEF NumberInv, Steps
  <2> QED  BY <2>1, <2>2 DEF Steps
<1>5. ASSUME NEW u \in Threads, u # t, Own(u)', Own(t)', Top(u)'.no = Top(t)'.no PROVE FALSE
  <2>1. Own(u) /\ Top(u).no = Top(t)'.no /\ Top(u).no \in Used
    BY <1>1, <1>5 DEF NumberInv, Own
  <2>2. Own(t) /\ Top(t)'.no = Top(t).no
    BY <1>2, <1>5, <2>1 DEF Own
  <2> QED  BY <1>5, <2>1, <2>2 DEF NumberInv
<1>6. ASSUME NEW u \in Threads, NEW v \in Threads, Own(u)', Own(v)', Top(u)'.no = Top(v)'.no
      PROVE  u = v
  <2>1. CASE u # t /\ v # t
    BY <1>1, <1>6, <2>1 DEF NumberInv
  <2>2. CASE u = t \/ v = t
    BY <1>5, <1>6, <2>2
  <2> QED  BY <2>1, <2>2
<1> QED  BY <1>3, <1>4, <1>6 DEF NumberInv

(* Who speaks has said it alone. *)
LEMMA SpeakKept ==
  ASSUME FatalInv, NumberInv, SpeakInv, NEW t \in Threads, Steps(t)
  PROVE  SpeakInv'
<1>1. SUFFICES ASSUME NEW u \in Threads, NEW i \in 1..Len(log'),
                      Own(u)', log'[i].no = Top(u)'.no
               PROVE  /\ ~Silent(Top(u)')
                      /\ Speaks(Top(u)') => \A j \in i..Len(log') : log'[j].by = u
  BY DEF SpeakInv, Silent, Speaks
<1>2. Len(log) \in Nat
  BY Typed
<1>3. CASE log' = log
  <2>1. CASE u # t \/ (stack[t] # <<>> /\ Top(t)' = Top(t))
    <3>1. Own(u) /\ Top(u)' = Top(u)
      BY <1>1, <2>1 DEF Steps, Own, Top
    <3> QED  BY <1>1, <1>3, <3>1 DEF SpeakInv
  <2>2. CASE u = t /\ NewNumber(Top(t)'.no)
    <3>1. log[i].no \in Used
      BY <1>3 DEF NumberInv
    <3> QED  BY <1>1, <1>3, <2>2, <3>1 DEF NewNumber
  <2>3. CASE u = t /\ stack[t] # <<>> /\ Continues(Top(t), Top(t)', log' = log)
    <3>1. Own(t) /\ log[i].no = Top(t).no
      BY <1>1, <1>3, <2>3 DEF Continues, Own
    <3>2. ~Silent(Top(t)) /\ (Speaks(Top(t)) => \A j \in i..Len(log) : log[j].by = t)
      BY <1>3, <3>1 DEF SpeakInv
    <3> QED  BY <1>3, <2>3, <3>2 DEF Continues
  <2> QED  BY <1>1, <1>3, <2>1, <2>2, <2>3 DEF Steps, Own
<1>4. CASE log' # log
  <2>1. PICK part \in {"plain", "trace", "context", "fatal"} : Says(t, part)
    BY <1>4 DEF Steps
  <2>2. /\ Len(log') = Len(log) + 1 /\ \A n \in 1..Len(log) : log'[n] = log[n]
        /\ log'[Len(log) + 1].no = Top(t).no /\ log'[Len(log) + 1].by = t
    BY <2>1, SaysIs
  <2>3. i \in 1..Len(log) \/ i = Len(log) + 1
    BY <1>2, <2>2
  <2>4. Own(t)
    BY <2>1 DEF Says, Speaks, Own
  <2>5. CASE u # t
    <3>1. Own(u) /\ Top(u)' = Top(u)
      BY <1>1, <2>5 DEF Steps, Own, Top
    <3>2. i # Len(log) + 1
      BY <1>1, <2>2, <2>4, <2>5, <3>1 DEF NumberInv
    <3>3. ~Silent(Top(u))
      BY <1>1, <2>2, <2>3, <3>1, <3>2 DEF SpeakInv
    <3>4. ~Speaks(Top(u))
      BY <2>1, <2>5, <3>1, OneSpeaks DEF Says, Own
    <3> QED  BY <3>1, <3>3, <3>4
  <2>6. CASE u = t
    <3>1. Continues(Top(t), Top(t)', log' = log)
      BY <1>1, <1>4, <2>6 DEF Steps, Own
    <3>2. ~Silent(Top(t)')
      BY <1>4, <3>1 DEF Continues
    <3>3. \A j \in i..Len(log') : log'[j].by = t
      <4>1. CASE i = Len(log) + 1
        BY <1>2, <2>2, <4>1
      <4>2. CASE i \in 1..Len(log)
        <5>1. log[i].no = Top(t).no
          BY <1>1, <2>2, <2>6, <3>1, <4>2 DEF Continues
        <5>2. \A j \in i..Len(log) : log[j].by = t
          BY <2>1, <2>4, <4>2, <5>1 DEF SpeakInv, Says
        <5>3. ASSUME NEW j \in i..Len(log') PROVE log'[j].by = t
          <6>1. (j \in i..Len(log) /\ j \in 1..Len(log)) \/ j = Len(log) + 1
            BY <1>2, <2>2, <4>2
          <6> QED  BY <2>2, <5>2, <6>1
        <5> QED  BY <5>3
      <4> QED  BY <2>3, <4>1, <4>2
    <3> QED  BY <2>6, <3>2, <3>3
  <2> QED  BY <2>5, <2>6
<1> QED  BY <1>3, <1>4

(* The lines of a message stay together. *)
LEMMA TogetherKept ==
  ASSUME FatalInv, SpeakInv, TogetherInv, NEW t \in Threads, Steps(t)
  PROVE  TogetherInv'
<1>1. CASE log' = log
  BY <1>1 DEF TogetherInv
<1>2. CASE log' # log
  <2>1. PICK part \in {"plain", "trace", "context", "fatal"} : Says(t, part)
    BY <1>2 DEF Steps
  <2>2. PICK L \in Nat : L = Len(log)
    BY Typed
  <2>3. /\ Len(log') = L + 1 /\ \A n \in 1..L : log'[n] = log[n]
        /\ log'[L + 1].no = Top(t).no /\ log'[L + 1].by = t /\ log'[L + 1].part = part
    BY <2>1, <2>2, SaysIs
  <2>4. Own(t)
    BY <2>1 DEF Says, Speaks, Own
  <2>5. ASSUME NEW i \in 1..L, log[i].no = Top(t).no
        PROVE  ~Silent(Top(t)) /\ \A j \in i..L : log[j].by = t
    BY <2>1, <2>2, <2>4, <2>5 DEF SpeakInv, Says
  <2>6. ASSUME NEW i \in 1..(L + 1), NEW k \in 1..(L + 1), i < k, log'[i].no = log'[k].no,
               NEW j \in i..k
        PROVE  log'[j].by = log'[i].by
    <3>1. i \in 1..L /\ j \in 1..(L + 1) /\ (k \in 1..L \/ k = L + 1)
      BY <2>6
    <3>2. CASE k \in 1..L
      <4>1. j \in 1..L
        BY <3>1, <3>2
      <4> QED  BY <2>2, <2>3, <2>6, <3>1, <3>2, <4>1 DEF TogetherInv
    <3>3. CASE k = L + 1
      <4>1. log[i].no = Top(t).no
        BY <2>3, <2>6, <3>1, <3>3
      <4>2. \A x \in i..L : log[x].by = t
        BY <2>5, <3>1, <4>1
      <4>3. i \in i..L
        BY <3>1
      <4>4. (j \in i..L /\ j \in 1..L) \/ j = L + 1
        BY <3>1, <3>3
      <4> QED  BY <2>3, <3>1, <4>2, <4>3, <4>4
    <3> QED  BY <3>1, <3>2, <3>3
  <2>7. ASSUME NEW i \in 1..(L + 1), NEW k \in 1..(L + 1), log'[i].no = log'[k].no,
               log'[i].part = "trace", log'[k].part = "fatal"
        PROVE  i < k
    <3>1. (i \in 1..L \/ i = L + 1) /\ (k \in 1..L \/ k = L + 1)
      OBVIOUS
    <3>2. i # k
      BY <2>7
    <3>3. CASE i \in 1..L /\ k \in 1..L
      BY <2>2, <2>3, <2>7, <3>3 DEF TogetherInv
    <3>4. CASE i = L + 1 /\ k \in 1..L
      <4>1. log[k].no = Top(t).no /\ part = "trace"
        BY <2>3, <2>7, <3>4
      <4>2. ~Silent(Top(t))
        BY <2>5, <3>4, <4>1
      <4> QED  BY <2>1, <4>1, <4>2 DEF Says
    <3>5. CASE k = L + 1
      BY <3>1, <3>2, <3>5
    <3> QED  BY <3>1, <3>3, <3>4, <3>5
  <2> QED  BY <2>3, <2>6, <2>7 DEF TogetherInv
<1> QED  BY <1>1, <1>2

(* So it keeps all of it. *)
LEMMA BlockKept ==
  ASSUME FatalInv, BlockInv, NEW t \in Threads, Steps(t), 0 \in Used'
  PROVE  BlockInv'
BY NumbersKept, SpeakKept, TogetherKept DEF BlockInv

(***************************************************************************)
(* Every step is one of those.  First what a step does to the numbers.     *)
(***************************************************************************)
LEMMA UsedGrows ==
  ASSUME FatalInv, FatalInv', calls' \in {calls, calls + 1}, arrivals' \in {arrivals, arrivals + 1}
  PROVE  Used \subseteq Used' /\ 0 \in Used'
<1>1. PICK c \in Nat, d \in Nat, a \in Nat, b \in Nat :
        c = calls /\ d = calls' /\ a = arrivals /\ b = arrivals'
  BY DEF FatalInv, TypeOK
<1>2. c <= d /\ a <= b
  BY <1>1
<1>3. 0..c \subseteq 0..d /\ 0 \in 0..d
  BY <1>2
<1>4. (MaxCalls + 1)..(MaxCalls + a) \subseteq (MaxCalls + 1)..(MaxCalls + b)
  BY <1>2
<1>5. Used = (0..c) \cup ((MaxCalls + 1)..(MaxCalls + a))
  BY <1>1 DEF Used
<1>6. Used' = (0..d) \cup ((MaxCalls + 1)..(MaxCalls + b))
  BY <1>1 DEF Used
<1> QED  BY <1>3, <1>4, <1>5, <1>6

(* A call goes on. *)
LEMMA GotoSteps ==
  ASSUME FatalInv, FatalInv', NEW t \in Threads, stack[t] # <<>>, NEW l \in Labels, Goto(t, l),
         UNCHANGED <<calls, arrivals>>,
         NEW at, at = Top(t).at, Top(t).kind # "change",
         log' = log \/ \E part \in {"plain", "trace", "context", "fatal"} : Says(t, part),
         l \in {"lock", "trace", "write", "flush_first", "log"} =>
           at \in {"lock", "write", "flush_first"} /\ log' = log,
         l = "raise" => Top(t).kind # "none",
         l \in Locked => at = "lock" \/ at \in Locked
  PROVE  Steps(t)
<1>1. PICK f \in Frame : f = Top(t)
  BY TopKnown
<1>2. PICK g : g = [f EXCEPT !.at = l]
  OBVIOUS
<1>3. g.at = l /\ g.kind = f.kind /\ g.no = f.no
  BY <1>1, <1>2 DEF Frame
<1>4. Stacks
  BY DEF FatalInv, TypeOK, Stacks
<1>5. Top(t)' = g /\ \A u \in Threads : u # t => stack'[u] = stack[u]
  BY <1>1, <1>2, <1>4, GotoIs
<1>6. Continues(f, g, log' = log)
  <2>1. Silent(g) => Silent(f) /\ log' = log
    BY <1>1, <1>3 DEF Silent
  <2>2. Speaks(g) => Silent(f) \/ Speaks(f)
    BY <1>1, <1>3 DEF Speaks, Silent
  <2>3. f.kind # "change" /\ g.kind # "change"
    BY <1>1, <1>3
  <2> QED  BY <1>3, <2>1, <2>2, <2>3 DEF Continues
<1>7. Used \subseteq Used'
  BY UsedGrows
<1> QED  BY <1>1, <1>5, <1>6, <1>7 DEF Steps

(* A call is made, with a number of its own. *)
LEMMA PushSteps ==
  ASSUME FatalInv, FatalInv', NEW t \in Threads, NEW f \in Frame, Push(t, f), log' = log,
         calls' \in {calls, calls + 1}, arrivals' \in {arrivals, arrivals + 1},
         \/ f.kind = "change" /\ f.no = 0
         \/ f.no = calls' /\ calls' = calls + 1
         \/ f.no = MaxCalls + arrivals' /\ arrivals' = arrivals + 1 /\ calls' = calls
  PROVE  Steps(t)
<1>1. Stacks
  BY DEF FatalInv, TypeOK, Stacks
<1>2. Top(t)' = f /\ \A u \in Threads : u # t => stack'[u] = stack[u]
  BY <1>1, PushIs
<1>3. Used \subseteq Used' /\ 0 \in Used'
  BY UsedGrows
<1>4. (f.kind = "change" /\ f.no = 0) \/ NewNumber(f.no)
  <2>1. PICK c \in 0..MaxCalls, d \in 0..MaxCalls, a \in Nat, b \in Nat :
          c = calls /\ d = calls' /\ a = arrivals /\ b = arrivals'
    BY DEF FatalInv, TypeOK
  <2>2. Used = (0..c) \cup ((MaxCalls + 1)..(MaxCalls + a))
    BY <2>1 DEF Used
  <2>3. Used' = (0..d) \cup ((MaxCalls + 1)..(MaxCalls + b))
    BY <2>1 DEF Used
  <2>4. ASSUME d = c + 1 PROVE NewNumber(d)
    <3>1. d \in 0..d /\ d \notin 0..c /\ d \notin (MaxCalls + 1)..(MaxCalls + a)
      BY <2>4
    <3> QED  BY <2>2, <2>3, <3>1 DEF NewNumber
  <2>5. ASSUME b = a + 1 PROVE NewNumber(MaxCalls + b)
    <3>1. /\ MaxCalls + b \in (MaxCalls + 1)..(MaxCalls + b) /\ MaxCalls + b \notin 0..c
          /\ MaxCalls + b \notin (MaxCalls + 1)..(MaxCalls + a)
      BY <2>5
    <3> QED  BY <2>2, <2>3, <3>1 DEF NewNumber
  <2> QED  BY <2>1, <2>4, <2>5
<1> QED  BY <1>2, <1>3, <1>4 DEF Steps

(* A call ends, and the signal_handler that waits for it goes on. *)
LEMMA PopSteps ==
  ASSUME FatalInv, FatalInv', NEW t \in Threads, stack[t] # <<>>, Pop(t), log' = log,
         Top(t).kind # "none", UNCHANGED <<calls, arrivals>>
  PROVE  Steps(t)
<1>1. Stacks
  BY DEF FatalInv, TypeOK, Stacks
<1>2. \A u \in Threads : u # t => stack'[u] = stack[u]
  BY <1>1, PopIs
<1>3. Used \subseteq Used'
  BY UsedGrows
<1>4. ASSUME stack'[t] # <<>> PROVE Continues(Top(t), Top(t)', log' = log)
  <2>1. PICK n : n = Len(stack[t])
    OBVIOUS
  <2>2. PICK f, g : f = Top(t) /\ g = stack[t][n - 1]
    OBVIOUS
  <2>3. n > 1 /\ Top(t)' = g
    BY <1>1, <1>4, <2>1, <2>2, PopIs
  <2>4. f.at \notin InHandler
    BY <2>2, TopKnown DEF KindsAt
  <2>5. f.kind = "signal" /\ g.at = "flush_last" /\ g.no = f.no
    BY <2>1, <2>2, <2>3, <2>4, TopKnown DEF Above
  <2>6. n - 1 \in 1..n
    BY <2>1, <2>3, TopKnown
  <2>7. g.kind \in KindsAt(g.at)
    BY <2>1, <2>2, <2>6 DEF FatalInv, Shape
  <2>8. g.kind = "none"
    BY <2>5, <2>7 DEF KindsAt, InHandler
  <2>9. ~Silent(g) /\ ~Speaks(g)
    BY <2>5 DEF Silent, Speaks, Locked
  <2> QED  BY <2>2, <2>3, <2>5, <2>8, <2>9 DEF Continues
<1> QED  BY <1>2, <1>3, <1>4 DEF Steps

(* A call that has logged nothing makes another, with its own number. *)
LEMMA CallSteps ==
  ASSUME FatalInv, FatalInv', NEW t \in Threads, stack[t] # <<>>, log' = log,
         NEW l \in Labels, NEW g \in Frame, CallThen(t, l, g), UNCHANGED <<calls, arrivals>>,
         Silent(Top(t)), Top(t).kind # "change", g.kind # "change", g.no = Top(t).no
  PROVE  Steps(t)
<1>1. Stacks
  BY DEF FatalInv, TypeOK, Stacks
<1>2. Top(t)' = g /\ \A u \in Threads : u # t => stack'[u] = stack[u]
  BY <1>1, CallThenIs
<1>3. Used \subseteq Used'
  BY UsedGrows
<1> QED  BY <1>2, <1>3 DEF Steps, Continues

(* Nothing changes in the calls. *)
LEMMA StillSteps ==
  ASSUME FatalInv, FatalInv', NEW t \in Threads, stack' = stack, log' = log,
         calls' \in {calls, calls + 1}, arrivals' \in {arrivals, arrivals + 1}
  PROVE  Steps(t)
<1>1. Used \subseteq Used'
  BY UsedGrows
<1> QED  BY <1>1 DEF Steps, Top

(* What a call of kind "fatal", "signal" or "plain" logs while it is Locked. *)
LEMMA EmitSays ==
  ASSUME FatalInv, NEW t \in Threads, stack[t] # <<>>, Top(t).at \in Locked,
         Top(t).kind \in {"plain", "fatal", "signal"},
         NEW part \in {"plain", "trace", "context", "fatal"}, Emit(t, part),
         part = "trace" => Top(t).at = "trace"
  PROVE  Says(t, part)
BY DEF Says, Emit, Speaks, Silent

(* How a call of log_message goes on, from one label to the next. *)
MessageGoes(t, at, l) ==
  /\ stack[t] # <<>> /\ Goto(t, l) /\ UNCHANGED <<calls, arrivals>>
  /\ \/ at = "lock" /\ l \in {"deliver", "trace"} /\ log' = log
     \/ at = "trace" /\ l = "context" /\ (log' = log \/ Emit(t, "trace"))
     \/ at = "context" /\ l = "deliver" /\ (log' = log \/ Emit(t, "context"))
     \/ at = "deliver" /\ l \in {"unlock", "flush"} /\ (Emit(t, "plain") \/ Emit(t, "fatal"))
     \/ at = "in_handler" /\ l = "flush_again" /\ (log' = log \/ Emit(t, "plain"))
     \/ /\ at \in {"flush", "handler", "flush_again"} /\ log' = log
        /\ l \in {"handler", "in_handler", "abort", "unlock"}
     \/ at = "abort" /\ l = "raise" /\ log' = log

(* Each of its steps does. *)
LEMMA MessageGo ==
  ASSUME FatalInv, NEW t \in Threads,
         \/ Lock(t) \/ StackTrace(t) \/ ErrorContext(t) \/ Deliver(t) \/ Flush(t)
         \/ CallHandler(t) \/ HandlerReturns(t) \/ FlushAgain(t) \/ ResetSigabrt(t)
  PROVE  \E l : MessageGoes(t, Top(t).at, l)
<1>1. PICK at, kind : at = Top(t).at /\ kind = Top(t).kind
  OBVIOUS
<1> SUFFICES \E l : MessageGoes(t, at, l)
  BY <1>1
<1> USE DEF MessageGoes
<1>2. CASE Lock(t)
  <2>1. PICK l : l = IF kind = "plain" THEN "deliver" ELSE "trace"
    OBVIOUS
  <2>2. Goto(t, l)
    BY <1>1, <1>2, <2>1 DEF Lock
  <2> QED  BY <1>1, <1>2, <2>1, <2>2 DEF Lock, At
<1>3. CASE StackTrace(t)
  BY <1>1, <1>3 DEF StackTrace, At
<1>4. CASE ErrorContext(t)
  BY <1>1, <1>4 DEF ErrorContext, At
<1>5. CASE Deliver(t)
  <2>1. PICK l : l = IF kind = "plain" THEN "unlock" ELSE "flush"
    OBVIOUS
  <2>2. Goto(t, l) /\ (Emit(t, "plain") \/ Emit(t, "fatal"))
    BY <1>1, <1>5, <2>1 DEF Deliver
  <2> QED  BY <1>1, <1>5, <2>1, <2>2 DEF Deliver, At
<1>6. CASE Flush(t)
  BY <1>1, <1>6 DEF Flush, At
<1>7. AfterHandler(t) \in {"abort", "unlock"}
  BY DEF AfterHandler
<1>8. CASE CallHandler(t)
  <2>1. PICK l : l = IF HandlerMay = {} THEN AfterHandler(t) ELSE "in_handler"
    OBVIOUS
  <2>2. Goto(t, l)
    BY <1>8, <2>1 DEF CallHandler
  <2> QED  BY <1>1, <1>7, <1>8, <2>1, <2>2 DEF CallHandler, At
<1>9. CASE HandlerReturns(t)
  BY <1>1, <1>9 DEF HandlerReturns, At
<1>10. CASE FlushAgain(t)
  BY <1>1, <1>7, <1>10 DEF FlushAgain, At
<1>11. CASE ResetSigabrt(t)
  BY <1>1, <1>11 DEF ResetSigabrt, At
<1> QED  BY <1>1, <1>2, <1>3, <1>4, <1>5, <1>6, <1>8, <1>9, <1>10, <1>11

(* The steps of log_message. *)
LEMMA MessageSteps ==
  ASSUME FatalInv, FatalInv', NEW t \in Threads, NEW l, MessageGoes(t, Top(t).at, l)
  PROVE  Steps(t)
<1>1. PICK at, kind : at = Top(t).at /\ kind = Top(t).kind
  OBVIOUS
<1>2. MessageGoes(t, at, l)
  BY <1>1
<1> USE DEF MessageGoes
<1>3. kind \in {"plain", "fatal", "signal"} /\ (at = "abort" => kind = "fatal")
  BY <1>1, <1>2, TopKnown DEF KindsAt, InHandler
<1>4. l \in Labels
  BY <1>2 DEF Labels, Locked
<1>5. log' = log \/ \E part \in {"plain", "trace", "context", "fatal"} : Says(t, part)
  <2>1. ASSUME at \in Locked, NEW part \in {"plain", "trace", "context", "fatal"}, Emit(t, part),
               part = "trace" => at = "trace"
        PROVE  Says(t, part)
    BY <1>1, <1>2, <1>3, <2>1, EmitSays
  <2>2. CASE Emit(t, "trace") /\ at = "trace"
    BY <2>1, <2>2 DEF Locked
  <2>3. CASE (Emit(t, "plain") \/ Emit(t, "fatal") \/ Emit(t, "context")) /\ at \in Locked
    BY <2>1, <2>3
  <2> QED  BY <1>2, <2>2, <2>3 DEF Locked
<1>6. /\ l \in {"lock", "trace", "write", "flush_first", "log"} => at = "lock" /\ log' = log
      /\ at = "lock" \/ at \in Locked
      /\ l = "raise" => at = "abort"
  BY <1>2 DEF Locked
<1> QED  BY <1>1, <1>2, <1>3, <1>4, <1>5, <1>6, GotoSteps

(* The steps of signal_handler, of abort(), and what ends. *)
LEMMA HandlerSteps ==
  ASSUME FatalInv, FatalInv', NEW t \in Threads,
         \/ HandlerThrows(t) \/ Raise(t) \/ Return(t) \/ WriteToStderr(t) \/ HandlerFlushes(t)
         \/ HandlerLogs(t) \/ CallDefault(t) \/ LeaveLibrary(t)
  PROVE  Steps(t)
<1>1. PICK f : f = Top(t)
  OBVIOUS
<1>2. CASE HandlerThrows(t) \/ Return(t)
  <2>1. /\ stack[t] # <<>> /\ f.at \in {"unlock", "change", "in_handler"} /\ Pop(t)
        /\ log' = log /\ UNCHANGED <<calls, arrivals>>
    BY <1>1, <1>2 DEF HandlerThrows, Return, At
  <2>2. f.kind # "none"
    BY <1>1, <2>1, TopKnown DEF KindsAt, InHandler
  <2> QED  BY <1>1, <2>1, <2>2, PopSteps
<1>3. CASE Raise(t)
  <2>1. stack[t] # <<>> /\ f.at = "raise" /\ log' = log /\ UNCHANGED <<calls, arrivals>>
    BY <1>1, <1>3 DEF Raise, At
  <2>2. CASE handled_by[SIGABRT] = "default"
    BY <1>3, <2>1, <2>2, StillSteps DEF Raise
  <2>3. CASE handled_by[SIGABRT] # "default"
    <3>1. f \in Frame /\ f.kind = "none"
      BY <1>1, <2>1, <2>3, TopKnown DEF KindsAt, InHandler, Words
    <3>2. PICK g : g = [at |-> "write", kind |-> "none", no |-> f.no, sig |-> SIGABRT]
      OBVIOUS
    <3>3. g \in Frame /\ g.kind = "none" /\ g.no = f.no
      BY <3>1, <3>2 DEF Frame, InHandler
    <3>4. CallThen(t, "raised", g)
      BY <1>1, <1>3, <2>3, <3>2 DEF Raise
    <3>5. Silent(f) /\ "raised" \in Labels
      BY <2>1, <3>1 DEF Silent, Labels, Locked
    <3> QED  BY <1>1, <2>1, <3>1, <3>3, <3>4, <3>5, CallSteps
  <2> QED  BY <2>2, <2>3
<1>4. CASE WriteToStderr(t) \/ HandlerFlushes(t)
  <2>1. PICK l :
          /\ stack[t] # <<>> /\ Goto(t, l) /\ log' = log /\ UNCHANGED <<calls, arrivals>>
          /\ f.at \in {"write", "flush_first", "flush_last"}
          /\ l \in {"flush_first", "log", "default"} /\ (l # "default" => f.at # "flush_last")
    <3>1. CASE WriteToStderr(t)
      <4>1. PICK l : l = IF options.unsafe_signal_handler THEN "flush_first" ELSE "default"
        OBVIOUS
      <4>2. Goto(t, l)
        BY <3>1, <4>1 DEF WriteToStderr
      <4> QED  BY <1>1, <3>1, <4>1, <4>2 DEF WriteToStderr, At
    <3>2. CASE HandlerFlushes(t)
      <4>1. PICK l : l = IF At(t, "flush_first") THEN "log" ELSE "default"
        OBVIOUS
      <4>2. Goto(t, l)
        BY <3>2, <4>1 DEF HandlerFlushes
      <4> QED  BY <1>1, <3>2, <4>1, <4>2 DEF HandlerFlushes, At
    <3> QED  BY <1>4, <3>1, <3>2
  <2>2. f.kind = "none" /\ l \in Labels /\ l \notin Locked
    BY <1>1, <2>1, TopKnown DEF KindsAt, InHandler, Labels, Locked
  <2> QED  BY <1>1, <2>1, <2>2, GotoSteps
<1>5. CASE HandlerLogs(t)
  <2>1. stack[t] # <<>> /\ f.at = "log" /\ log' = log /\ UNCHANGED <<calls, arrivals>>
    BY <1>1, <1>5 DEF HandlerLogs, At
  <2>2. f \in Frame /\ f.kind = "none"
    BY <1>1, <2>1, TopKnown DEF KindsAt, InHandler
  <2>3. PICK g : g = LogFrame("signal", f.no)
    OBVIOUS
  <2>4. g \in Frame /\ g.kind = "signal" /\ g.no = f.no
    BY <2>2, <2>3 DEF Frame, LogFrame
  <2>5. CallThen(t, "flush_last", g)
    BY <1>1, <1>5, <2>3 DEF HandlerLogs
  <2>6. Silent(f) /\ "flush_last" \in Labels
    BY <2>1 DEF Silent, Labels, InHandler
  <2> QED  BY <1>1, <2>1, <2>2, <2>4, <2>5, <2>6, CallSteps
<1>6. CASE CallDefault(t)
  BY <1>6, StillSteps DEF CallDefault
<1>7. CASE LeaveLibrary(t)
  BY <1>7, StillSteps DEF LeaveLibrary
<1> QED  BY <1>2, <1>3, <1>4, <1>5, <1>6, <1>7

(* A change of the callbacks has no number that others could have. *)
LEMMA ChangeSteps ==
  ASSUME FatalInv, FatalInv', NumberInv, NEW t \in Threads, OnCallbackChange(t)
  PROVE  Steps(t)
<1>1. PICK f : f = Top(t)
  OBVIOUS
<1>2. /\ stack[t] # <<>> /\ f.at = "add" /\ Goto(t, "change")
      /\ log' = log /\ UNCHANGED <<calls, arrivals>>
  BY <1>1 DEF OnCallbackChange, At
<1>3. f \in Frame /\ f.kind = "change" /\ f.no \in Used
  BY <1>1, <1>2, TopKnown DEF KindsAt, InHandler, NumberInv
<1>4. PICK g : g = [f EXCEPT !.at = "change"]
  OBVIOUS
<1>5. g.kind = "change" /\ g.no = f.no
  BY <1>3, <1>4 DEF Frame
<1>6. Stacks /\ "change" \in Labels
  BY DEF FatalInv, TypeOK, Stacks, Labels, Locked
<1>7. Top(t)' = g /\ \A u \in Threads : u # t => stack'[u] = stack[u]
  BY <1>1, <1>2, <1>4, <1>6, GotoIs
<1>8. Used \subseteq Used'
  BY <1>2, UsedGrows
<1> QED  BY <1>2, <1>3, <1>5, <1>7, <1>8 DEF Steps

(* What comes from outside. *)
LEMMA ArriveSteps ==
  ASSUME FatalInv, FatalInv', NEW t \in Threads, Arrive(t)
  PROVE  Steps(t)
<1>1. ASSUME NEW f, Push(t, f), log' = log, calls' = calls + 1, arrivals' = arrivals,
             f = [at |-> f.at, kind |-> f.kind, no |-> f.no, sig |-> SIGABRT],
             f.at \in {"lock", "raise", "add"}, f.kind \in {"plain", "fatal", "none", "change"},
             \/ f.no = calls'
             \/ f.no = 0 /\ f.kind = "change"
      PROVE  Steps(t)
  <2>1. f.no \in 0..(MaxCalls + MaxSignals)
    <3>1. PICK c \in 0..MaxCalls : c = calls'
      BY DEF FatalInv, TypeOK
    <3> QED  BY <1>1, <3>1
  <2>2. f \in Frame
    BY <1>1, <2>1 DEF Frame, Locked
  <2> QED  BY <1>1, <2>2, PushSteps
<1>2. CASE Log(t)
  <2>1. PICK f : f = LogFrame("plain", calls')
    OBVIOUS
  <2> QED  BY <1>1, <1>2, <2>1 DEF Log, Begin, LogFrame
<1>3. CASE CheckFails(t) \/ (LogFatal(t) /\ ~CutoffOff)
  <2>1. PICK f : f = LogFrame("fatal", calls')
    OBVIOUS
  <2> QED  BY <1>1, <1>3, <2>1 DEF CheckFails, LogFatal, Begin, LogFrame
<1>4. CASE LogFatal(t) /\ CutoffOff
  BY <1>4, StillSteps DEF LogFatal, Begin
<1>5. CASE ChangeCallbacks(t)
  <2>1. PICK f : f = [at |-> "add", kind |-> "change", no |-> 0, sig |-> SIGABRT]
    OBVIOUS
  <2> QED  BY <1>1, <1>5, <2>1 DEF ChangeCallbacks, Begin
<1>6. CASE StdAbort(t)
  <2>1. PICK f : f = [at |-> "raise", kind |-> "none", no |-> calls', sig |-> SIGABRT]
    OBVIOUS
  <2> QED  BY <1>1, <1>6, <2>1 DEF StdAbort, Begin
<1>7. CASE CallMalloc(t)
  BY <1>7, StillSteps DEF CallMalloc, Begin
<1>8. CASE SignalArrives(t)
  <2>1. arrivals' = arrivals + 1 /\ log' = log /\ calls' = calls
    BY <1>8 DEF SignalArrives
  <2>2. PICK s \in Signals :
          \/ stack' = stack
          \/ Push(t, [at |-> "write", kind |-> "none", no |-> MaxCalls + arrivals', sig |-> s])
    BY <1>8 DEF SignalArrives
  <2>3. PICK f : f = [at |-> "write", kind |-> "none", no |-> MaxCalls + arrivals', sig |-> s]
    OBVIOUS
  <2>4. f \in Frame /\ f.no = MaxCalls + arrivals'
    <3>1. PICK a \in 0..MaxSignals : a = arrivals'
      BY DEF FatalInv, TypeOK
    <3>2. MaxCalls + a \in 0..(MaxCalls + MaxSignals)
      OBVIOUS
    <3> QED  BY <2>3, <3>1, <3>2 DEF Frame, InHandler
  <2>5. CASE stack' = stack
    BY <2>1, <2>5, StillSteps
  <2>6. CASE Push(t, f)
    BY <2>1, <2>4, <2>6, PushSteps
  <2> QED  BY <2>2, <2>3, <2>5, <2>6
<1> QED  BY <1>2, <1>3, <1>4, <1>5, <1>6, <1>7, <1>8 DEF Arrive

(* No message shares its number, and one that logs does so alone. *)
THEOREM BlockInvariant == Spec => [](FatalInv /\ BlockInv)
<1>1. Init => FatalInv /\ BlockInv
  <2>1. ASSUME Init PROVE FatalInv /\ \A t \in Threads : stack[t] = <<>>
    BY <2>1, InvAtInit DEF Init
  <2>2. ASSUME Init PROVE log = <<>> /\ Len(log) = 0
    BY <2>2 DEF Init
  <2> QED  BY <2>1, <2>2 DEF BlockInv, NumberInv, SpeakInv, TogetherInv, Own
<1>2. ASSUME FatalInv, BlockInv, [Next]_fvars PROVE (FatalInv /\ BlockInv)'
  <2>1. FatalInv'
    BY <1>2, NextKeeps
  <2>2. ASSUME NEW t \in Threads, Arrive(t) \/ Step(t) PROVE BlockInv'
    <3>1. Steps(t)
      BY <1>2, <2>1, <2>2, ArriveSteps, MessageGo, MessageSteps, HandlerSteps, ChangeSteps
         DEF Step, BlockInv
    <3>2. 0 \in Used'
      <4>1. calls' \in 0..MaxCalls
        BY <2>1 DEF FatalInv, TypeOK
      <4>2. PICK c \in 0..MaxCalls : c = calls'
        BY <4>1
      <4>3. 0 \in 0..c
        BY <4>2
      <4> QED  BY <4>2, <4>3 DEF Used
    <3> QED  BY <1>2, <3>1, <3>2, BlockKept
  <2>3. CASE UNCHANGED fvars
    BY <1>2, <2>1, <2>3 DEF fvars, BlockInv, NumberInv, SpeakInv, TogetherInv, Own, Used, Top, Silent, Speaks
  <2> QED  BY <1>2, <2>1, <2>2, <2>3 DEF Next
<1> QED  BY <1>1, <1>2, PTL DEF Spec

(* The trace, the context and the message of a FATAL log are not torn apart *)
(* by the lines of another thread, and come in this order.                  *)
THEOREM FatalBlockCorrect == Spec => []FatalBlock
<1>1. ASSUME FatalInv, BlockInv PROVE FatalBlock
  BY <1>1, Typed DEF BlockInv, TogetherInv, FatalBlock
<1> QED  BY <1>1, BlockInvariant, PTL

-----------------------------------------------------------------------------

(***************************************************************************)
(* A thread handles a signal once at a time: signal_handler blocks it.     *)
(* The program's own abort(), which a caught SIGABRT interrupts, is its    *)
(* outermost call.                                                         *)
(***************************************************************************)
HandlesOnce(s) ==
  /\ \A m, n \in 1..Len(s) :
       s[m].at \in InHandler /\ s[n].at \in InHandler /\ s[m].sig = s[n].sig => m = n
  /\ \A n \in 1..Len(s) : s[n].at = "raise" /\ s[n].kind = "none" => n = 1
SigInv == \A t \in Threads : HandlesOnce(stack[t])

(* It stays so if the calls above the k outermost handle no signal of      *)
(* those below, and none but the first is abort() of the program.          *)
LEMMA HandlesOnceKept ==
  ASSUME FatalInv, FatalInv', SigInv, NEW t \in Threads,
         \A u \in Threads : u # t => stack'[u] = stack[u],
         NEW k \in Nat, k <= Len(stack[t]), k <= Len(stack'[t]), Len(stack'[t]) <= k + 1,
         \A m \in 1..k : stack'[t][m] = stack[t][m],
         Len(stack'[t]) = k + 1 =>
           /\ stack'[t][k + 1].at \in InHandler =>
                \A m \in 1..k : stack[t][m].at \in InHandler => stack[t][m].sig # stack'[t][k + 1].sig
           /\ stack'[t][k + 1].at = "raise" /\ stack'[t][k + 1].kind = "none" => k = 0
  PROVE  SigInv'
<1>1. PICK s \in Seq(Frame), r \in Seq(Frame) : s = stack[t] /\ r = stack'[t]
  BY DEF FatalInv, TypeOK
<1>2. Len(s) \in Nat /\ Len(r) \in Nat
  OBVIOUS
<1>3. HandlesOnce(s)
  BY <1>1 DEF SigInv
<1>4. ASSUME NEW m \in 1..Len(r), NEW n \in 1..Len(r),
             r[m].at \in InHandler, r[n].at \in InHandler, r[m].sig = r[n].sig
      PROVE  m = n
  <2>1. (m \in 1..k \/ m = k + 1) /\ (n \in 1..k \/ n = k + 1)
    BY <1>1, <1>2
  <2>2. CASE m \in 1..k /\ n \in 1..k
    <3>1. r[m] = s[m] /\ r[n] = s[n] /\ m \in 1..Len(s) /\ n \in 1..Len(s)
      BY <1>1, <1>2, <2>2
    <3> QED  BY <1>3, <1>4, <3>1 DEF HandlesOnce
  <2>3. CASE m = k + 1 /\ n \in 1..k
    <3>1. r[n] = s[n] /\ Len(r) = k + 1
      BY <1>1, <1>2, <2>3
    <3> QED  BY <1>1, <1>4, <2>3, <3>1
  <2>4. CASE n = k + 1 /\ m \in 1..k
    <3>1. r[m] = s[m] /\ Len(r) = k + 1
      BY <1>1, <1>2, <2>4
    <3> QED  BY <1>1, <1>4, <2>4, <3>1
  <2> QED  BY <2>1, <2>2, <2>3, <2>4
<1>5. ASSUME NEW n \in 1..Len(r), r[n].at = "raise", r[n].kind = "none" PROVE n = 1
  <2>1. CASE n \in 1..k
    <3>1. r[n] = s[n] /\ n \in 1..Len(s)
      BY <1>1, <1>2, <2>1
    <3> QED  BY <1>3, <1>5, <3>1 DEF HandlesOnce
  <2>2. CASE n = k + 1
    <3>1. Len(r) = k + 1
      BY <1>1, <1>2, <2>2
    <3> QED  BY <1>1, <1>5, <2>2, <3>1
  <2> QED  BY <1>1, <1>2, <2>1, <2>2
<1>6. HandlesOnce(r)
  BY <1>4, <1>5 DEF HandlesOnce
<1> QED  BY <1>1, <1>6 DEF SigInv

(* A call goes on. *)
LEMMA SigGoto ==
  ASSUME FatalInv, FatalInv', SigInv, NEW t \in Threads, stack[t] # <<>>, NEW l \in Labels,
         Goto(t, l), l \in InHandler => Top(t).at \in InHandler,
         l = "raise" => Top(t).kind # "none"
  PROVE  SigInv'
<1>1. Stacks
  BY DEF FatalInv, TypeOK, Stacks
<1>2. PICK n \in Nat \ {0} : n = Len(stack[t])
  BY TopKnown
<1>3. PICK f \in Frame : f = Top(t) /\ f = stack[t][n]
  BY <1>2, TopKnown
<1>4. PICK g : g = [f EXCEPT !.at = l]
  OBVIOUS
<1>5. g.at = l /\ g.kind = f.kind /\ g.sig = f.sig
  BY <1>3, <1>4 DEF Frame
<1>6. /\ \A u \in Threads : u # t => stack'[u] = stack[u]
      /\ Len(stack'[t]) = n /\ stack'[t][n] = g
      /\ \A m \in 1..(n - 1) : stack'[t][m] = stack[t][m]
  <2>1. /\ \A u \in Threads : u # t => stack'[u] = stack[u]
        /\ Len(stack'[t]) = Len(stack[t])
        /\ \A m \in 1..(Len(stack[t]) - 1) : stack'[t][m] = stack[t][m]
        /\ stack'[t][Len(stack[t])] = [Top(t) EXCEPT !.at = l]
    BY <1>1, GotoIs
  <2> QED  BY <1>2, <1>3, <1>4, <2>1
<1>7. ASSUME l \in InHandler, NEW m \in 1..(n - 1), stack[t][m].at \in InHandler
      PROVE  stack[t][m].sig # g.sig
  <2>1. m \in 1..n /\ n \in 1..n /\ m # n
    OBVIOUS
  <2> QED  BY <1>2, <1>3, <1>5, <1>7, <2>1 DEF SigInv, HandlesOnce
<1>8. n - 1 \in Nat /\ (n - 1) + 1 = n
  OBVIOUS
<1>9. ASSUME g.at = "raise" /\ g.kind = "none" PROVE FALSE
  BY <1>3, <1>5, <1>9
<1>10. PICK k \in Nat : k = n - 1 /\ k + 1 = n
  BY <1>8
<1>11. k <= Len(stack[t]) /\ k <= Len(stack'[t]) /\ Len(stack'[t]) <= k + 1
  BY <1>2, <1>6, <1>10
<1> QED  BY <1>5, <1>6, <1>7, <1>9, <1>10, <1>11, HandlesOnceKept, ZenonT(60)

(* A call is made. *)
LEMMA SigPush ==
  ASSUME FatalInv, FatalInv', SigInv, NEW t \in Threads, NEW f \in Frame, Push(t, f),
         f.at \in InHandler => f.sig \notin Blocked(t),
         f.at = "raise" => stack[t] = <<>>
  PROVE  SigInv'
<1>1. Stacks
  BY DEF FatalInv, TypeOK, Stacks
<1>2. PICK s \in Seq(Frame) : s = stack[t]
  BY <1>1 DEF Stacks
<1>3. PICK k \in Nat : k = Len(s)
  OBVIOUS
<1>4. /\ \A u \in Threads : u # t => stack'[u] = stack[u]
      /\ Len(stack'[t]) = k + 1 /\ stack'[t][k + 1] = f
      /\ \A m \in 1..k : stack'[t][m] = stack[t][m]
  BY <1>1, <1>2, <1>3, PushIs
<1>5. ASSUME f.at \in InHandler, NEW m \in 1..k, stack[t][m].at \in InHandler
      PROVE  stack[t][m].sig # f.sig
  <2>1. m \in DOMAIN s
    BY <1>3
  <2> QED  BY <1>2, <1>5, <2>1 DEF Blocked
<1>6. f.at = "raise" => k = 0
  BY <1>2, <1>3
<1>7. k <= Len(stack[t]) /\ k <= Len(stack'[t]) /\ Len(stack'[t]) <= k + 1
  BY <1>2, <1>3, <1>4
<1> QED  BY <1>4, <1>5, <1>6, <1>7, HandlesOnceKept

(* A call ends. *)
LEMMA SigPop ==
  ASSUME FatalInv, FatalInv', SigInv, NEW t \in Threads, stack[t] # <<>>, Pop(t)
  PROVE  SigInv'
<1>1. Stacks
  BY DEF FatalInv, TypeOK, Stacks
<1>2. PICK n \in Nat \ {0} : n = Len(stack[t])
  BY TopKnown
<1>3. PICK k \in Nat : k = n - 1
  BY <1>2
<1>4. /\ \A u \in Threads : u # t => stack'[u] = stack[u]
      /\ Len(stack'[t]) = k /\ \A m \in 1..k : stack'[t][m] = stack[t][m]
  BY <1>1, <1>2, <1>3, PopIs
<1>5. k <= Len(stack[t]) /\ k <= Len(stack'[t]) /\ Len(stack'[t]) <= k + 1 /\ Len(stack'[t]) # k + 1
  BY <1>2, <1>3, <1>4
<1> QED  BY <1>4, <1>5, HandlesOnceKept

(***************************************************************************)
(* A call waits for another.  If the new one handles a signal, it is the   *)
(* SIGABRT of the program's own abort(), and nothing else is under way.    *)
(***************************************************************************)
LEMMA SigCall ==
  ASSUME FatalInv, FatalInv', SigInv, NEW t \in Threads, stack[t] # <<>>, NEW l \in Labels,
         NEW g \in Frame, CallThen(t, l, g),
         \/ Top(t).at \in InHandler /\ g.at = "lock" /\ l \in InHandler
         \/ Top(t).at = "raise" /\ Top(t).kind = "none" /\ l = "raised" /\ g.at \in InHandler
  PROVE  SigInv'
<1>1. Stacks
  BY DEF FatalInv, TypeOK, Stacks
<1>2. PICK n \in Nat \ {0} : n = Len(stack[t])
  BY TopKnown
<1>3. PICK f \in Frame : f = Top(t) /\ f = stack[t][n]
  BY <1>2, TopKnown
<1>4. PICK e : e = [f EXCEPT !.at = l]
  OBVIOUS
<1>5. e.at = l /\ e.sig = f.sig
  BY <1>3, <1>4 DEF Frame
<1>6. PICK s \in Seq(Frame), r \in Seq(Frame) : s = stack[t] /\ r = stack'[t]
  BY DEF FatalInv, TypeOK
<1>7. /\ \A u \in Threads : u # t => stack'[u] = stack[u]
      /\ Len(s) = n /\ Len(r) = n + 1 /\ r[n] = e /\ r[n + 1] = g /\ s[n] = f
      /\ \A m \in 1..(n - 1) : r[m] = s[m]
  <2>1. /\ \A u \in Threads : u # t => stack'[u] = stack[u]
        /\ Len(stack'[t]) = Len(stack[t]) + 1
        /\ \A m \in 1..(Len(stack[t]) - 1) : stack'[t][m] = stack[t][m]
        /\ stack'[t][Len(stack[t])] = [Top(t) EXCEPT !.at = l]
        /\ stack'[t][Len(stack[t]) + 1] = g
    BY <1>1, CallThenIs
  <2> QED  BY <1>2, <1>3, <1>4, <1>6, <2>1
<1>8. HandlesOnce(s)
  BY <1>6 DEF SigInv
<1>9. CASE f.at \in InHandler /\ g.at = "lock" /\ l \in InHandler
  <2>1. ASSUME NEW m \in 1..(n + 1), r[m].at \in InHandler \cup {"raise"}
        PROVE  m \in 1..n /\ s[m].sig = r[m].sig /\ (r[m] = s[m] \/ (m = n /\ r[m].at \in InHandler))
    <3>1. m # n + 1
      BY <1>7, <1>9, <2>1 DEF InHandler
    <3>2. m \in 1..(n - 1) \/ m = n
      BY <3>1
    <3> QED  BY <1>5, <1>7, <1>9, <3>1, <3>2
  <2>2. ASSUME NEW m \in 1..(n + 1), r[m].at \in InHandler
        PROVE  m \in 1..n /\ s[m].sig = r[m].sig /\ s[m].at \in InHandler
    BY <1>7, <1>9, <2>1, <2>2
  <2>3. ASSUME NEW m \in 1..(n + 1), r[m].at = "raise", r[m].kind = "none" PROVE m = 1
    <3>1. "raise" \notin InHandler
      BY DEF InHandler
    <3>2. m \in 1..n /\ r[m] = s[m]
      BY <2>1, <2>3, <3>1
    <3> QED  BY <1>7, <1>8, <2>3, <3>2 DEF HandlesOnce
  <2>4. HandlesOnce(r)
    BY <1>7, <1>8, <2>2, <2>3 DEF HandlesOnce
  <2> QED  BY <1>6, <1>7, <2>4 DEF SigInv
<1>10. CASE f.at = "raise" /\ f.kind = "none" /\ l = "raised" /\ g.at \in InHandler
  <2>1. n \in 1..n
    OBVIOUS
  <2>2. n = 1
    BY <1>7, <1>8, <1>10, <2>1 DEF HandlesOnce
  <2>3. Len(r) = 2 /\ r[1].at = "raised" /\ r[2].at \in InHandler
    BY <1>5, <1>7, <1>10, <2>2
  <2>4. HandlesOnce(r)
    BY <2>3 DEF HandlesOnce, InHandler
  <2> QED  BY <1>6, <1>7, <2>4 DEF SigInv
<1> QED  BY <1>3, <1>9, <1>10

(* Every step keeps it. *)
LEMMA SigStep ==
  ASSUME FatalInv, FatalInv', SigInv, NEW t \in Threads, Step(t)
  PROVE  SigInv'
<1>1. PICK f : f = Top(t)
  OBVIOUS
<1>2. ASSUME stack' = stack PROVE SigInv'
  BY <1>2 DEF SigInv
<1>3. ASSUME NEW l, MessageGoes(t, f.at, l) PROVE SigInv'
  <2>1. l \notin InHandler /\ l \in Labels /\ (l = "raise" => f.at = "abort")
    BY <1>3 DEF MessageGoes, InHandler, Labels, Locked
  <2>2. f.at = "abort" => f.kind # "none"
    BY <1>1, <1>3, TopKnown DEF MessageGoes, KindsAt, InHandler
  <2> QED  BY <1>1, <1>3, <2>1, <2>2, SigGoto DEF MessageGoes
<1>4. CASE HandlerThrows(t) \/ Return(t)
  <2>1. stack[t] # <<>> /\ Pop(t)
    BY <1>4 DEF HandlerThrows, Return, At
  <2> QED  BY <2>1, SigPop
<1>5. CASE Raise(t)
  <2>1. stack[t] # <<>> /\ f.at = "raise"
    BY <1>1, <1>5 DEF Raise, At
  <2>2. CASE handled_by[SIGABRT] = "default"
    BY <1>2, <1>5, <2>2 DEF Raise
  <2>3. CASE handled_by[SIGABRT] # "default"
    <3>1. f \in Frame /\ f.kind = "none"
      BY <1>1, <2>1, <2>3, TopKnown DEF KindsAt, InHandler, Words
    <3>2. PICK g : g = [at |-> "write", kind |-> "none", no |-> f.no, sig |-> SIGABRT]
      OBVIOUS
    <3>3. g \in Frame /\ g.at \in InHandler
      BY <3>1, <3>2 DEF Frame, InHandler
    <3>4. CallThen(t, "raised", g)
      BY <1>1, <1>5, <2>3, <3>2 DEF Raise
    <3>5. "raised" \in Labels
      BY DEF Labels, Locked
    <3> QED  BY <1>1, <2>1, <3>1, <3>3, <3>4, <3>5, SigCall
  <2> QED  BY <2>2, <2>3
<1>6. CASE WriteToStderr(t) \/ HandlerFlushes(t)
  <2>1. PICK l : l \in InHandler /\ stack[t] # <<>> /\ Goto(t, l) /\ f.at \in InHandler
    <3>1. CASE WriteToStderr(t)
      <4>1. PICK l : l = IF options.unsafe_signal_handler THEN "flush_first" ELSE "default"
        OBVIOUS
      <4>2. Goto(t, l)
        BY <3>1, <4>1 DEF WriteToStderr
      <4> QED  BY <1>1, <3>1, <4>1, <4>2 DEF WriteToStderr, At, InHandler
    <3>2. CASE HandlerFlushes(t)
      <4>1. PICK l : l = IF At(t, "flush_first") THEN "log" ELSE "default"
        OBVIOUS
      <4>2. Goto(t, l)
        BY <3>2, <4>1 DEF HandlerFlushes
      <4> QED  BY <1>1, <3>2, <4>1, <4>2 DEF HandlerFlushes, At, InHandler
    <3> QED  BY <1>6, <3>1, <3>2
  <2>2. l \in Labels /\ l # "raise"
    BY <2>1 DEF Labels, InHandler
  <2> QED  BY <1>1, <2>1, <2>2, SigGoto
<1>7. CASE HandlerLogs(t)
  <2>1. stack[t] # <<>> /\ f.at = "log"
    BY <1>1, <1>7 DEF HandlerLogs, At
  <2>2. f \in Frame
    BY <1>1, <2>1, TopKnown
  <2>3. PICK g : g = LogFrame("signal", f.no)
    OBVIOUS
  <2>4. g \in Frame /\ g.at = "lock"
    BY <2>2, <2>3 DEF Frame, LogFrame
  <2>5. CallThen(t, "flush_last", g)
    BY <1>1, <1>7, <2>3 DEF HandlerLogs
  <2>6. f.at \in InHandler /\ "flush_last" \in Labels /\ "flush_last" \in InHandler
    BY <2>1 DEF Labels, InHandler
  <2> QED  BY <1>1, <2>1, <2>4, <2>5, <2>6, SigCall
<1>8. CASE CallDefault(t) \/ LeaveLibrary(t)
  BY <1>2, <1>8 DEF CallDefault, LeaveLibrary
<1>9. CASE OnCallbackChange(t)
  <2>1. stack[t] # <<>> /\ Goto(t, "change") /\ "change" \in Labels /\ "change" \notin InHandler
    BY <1>9 DEF OnCallbackChange, At, Labels, Locked, InHandler
  <2> QED  BY <2>1, SigGoto
<1> QED  BY <1>1, <1>3, <1>4, <1>5, <1>6, <1>7, <1>8, <1>9, MessageGo DEF Step

(* And what comes from outside. *)
LEMMA SigArrive ==
  ASSUME FatalInv, FatalInv', SigInv, NEW t \in Threads, Arrive(t)
  PROVE  SigInv'
<1>1. ASSUME NEW f, Push(t, f), f.no \in 0..(MaxCalls + MaxSignals),
             f = [at |-> f.at, kind |-> f.kind, no |-> f.no, sig |-> SIGABRT],
             f.at \in {"lock", "raise", "add"}, f.kind \in {"plain", "fatal", "none", "change"},
             stack[t] = <<>>
      PROVE  SigInv'
  <2>1. f \in Frame /\ f.at \notin InHandler
    BY <1>1 DEF Frame, Locked, InHandler
  <2> QED  BY <1>1, <2>1, SigPush
<1>2. ASSUME Begin(t) PROVE stack[t] = <<>> /\ calls' \in 0..(MaxCalls + MaxSignals)
  <2>1. PICK c \in 0..MaxCalls : c = calls'
    BY DEF FatalInv, TypeOK
  <2> QED  BY <1>2, <2>1 DEF Begin, Idle
<1>3. ASSUME stack' = stack PROVE SigInv'
  BY <1>3 DEF SigInv
<1>4. CASE Log(t)
  <2>1. PICK f : f = LogFrame("plain", calls')
    OBVIOUS
  <2> QED  BY <1>1, <1>2, <1>4, <2>1 DEF Log, LogFrame
<1>5. CASE CheckFails(t) \/ (LogFatal(t) /\ ~CutoffOff)
  <2>1. PICK f : f = LogFrame("fatal", calls')
    OBVIOUS
  <2> QED  BY <1>1, <1>2, <1>5, <2>1 DEF CheckFails, LogFatal, LogFrame
<1>6. CASE (LogFatal(t) /\ CutoffOff) \/ CallMalloc(t)
  BY <1>3, <1>6 DEF LogFatal, CallMalloc
<1>7. CASE ChangeCallbacks(t)
  <2>1. PICK f : f = [at |-> "add", kind |-> "change", no |-> 0, sig |-> SIGABRT]
    OBVIOUS
  <2> QED  BY <1>1, <1>2, <1>7, <2>1 DEF ChangeCallbacks
<1>8. CASE StdAbort(t)
  <2>1. PICK f : f = [at |-> "raise", kind |-> "none", no |-> calls', sig |-> SIGABRT]
    OBVIOUS
  <2> QED  BY <1>1, <1>2, <1>8, <2>1 DEF StdAbort
<1>9. CASE SignalArrives(t)
  <2>1. PICK s \in Signals :
          \/ stack' = stack
          \/ /\ s \notin Blocked(t)
             /\ Push(t, [at |-> "write", kind |-> "none", no |-> MaxCalls + arrivals', sig |-> s])
    BY <1>9 DEF SignalArrives
  <2>2. PICK f : f = [at |-> "write", kind |-> "none", no |-> MaxCalls + arrivals', sig |-> s]
    OBVIOUS
  <2>3. f \in Frame /\ f.at = "write" /\ f.sig = s
    <3>1. PICK a \in 0..MaxSignals : a = arrivals'
      BY DEF FatalInv, TypeOK
    <3>2. MaxCalls + a \in 0..(MaxCalls + MaxSignals)
      OBVIOUS
    <3> QED  BY <2>2, <3>1, <3>2 DEF Frame, InHandler
  <2> QED  BY <1>3, <2>1, <2>2, <2>3, SigPush
<1> QED  BY <1>4, <1>5, <1>6, <1>7, <1>8, <1>9 DEF Arrive

(* No thread handles a signal while it handles the same one. *)
THEOREM SignalInvariant == Spec => [](FatalInv /\ SigInv)
<1>1. Init => FatalInv /\ SigInv
  <2>1. Len(<<>>) = 0
    OBVIOUS
  <2>2. HandlesOnce(<<>>)
    BY <2>1 DEF HandlesOnce
  <2>3. ASSUME Init PROVE SigInv
    BY <2>2, <2>3 DEF Init, SigInv
  <2> QED  BY <2>3, InvAtInit
<1>2. ASSUME FatalInv, SigInv, [Next]_fvars PROVE (FatalInv /\ SigInv)'
  <2>1. FatalInv'
    BY <1>2, NextKeeps
  <2>2. CASE UNCHANGED fvars
    BY <1>2, <2>1, <2>2 DEF fvars, SigInv
  <2> QED  BY <1>2, <2>1, <2>2, SigArrive, SigStep DEF Next
<1> QED  BY <1>1, <1>2, PTL DEF Spec

(* The fatal handler is entered at most once more for each signal that is  *)
(* handled, beside the call of log_and_abort.                              *)
THEOREM HandlerNestsCorrect == Spec => []HandlerNestsBoundedly
<1>1. ASSUME FatalInv, SigInv, NEW t \in Threads
      PROVE  Cardinality({n \in DOMAIN stack[t] : stack[t][n].at = "in_handler"})
               <= Cardinality({n \in DOMAIN stack[t] : stack[t][n].kind = "fatal"})
                  + Cardinality({stack[t][n].sig :
                                   n \in {m \in DOMAIN stack[t] : stack[t][m].at \in InHandler}})
  <2>1. PICK s \in Seq(Frame) : s = stack[t]
    BY <1>1 DEF FatalInv, TypeOK
  <2>2. DOMAIN s = 1..Len(s) /\ Len(s) \in Nat
    OBVIOUS
  <2>3. PICK E, A, H, G, Q :
          /\ E = {n \in 1..Len(s) : s[n].at = "in_handler"}
          /\ A = {n \in 1..Len(s) : s[n].kind = "fatal"}
          /\ H = {n \in 1..Len(s) : s[n].at \in InHandler}
          /\ G = E \ A
          /\ Q = {s[n].sig : n \in H}
    OBVIOUS
  <2>4. IsFiniteSet(1..Len(s))
    BY <2>2, FS_Interval
  <2>5. /\ E \in SUBSET (1..Len(s)) /\ A \in SUBSET (1..Len(s)) /\ H \in SUBSET (1..Len(s))
        /\ G \in SUBSET (1..Len(s))
    BY <2>3
  <2>6. IsFiniteSet(E) /\ IsFiniteSet(A) /\ IsFiniteSet(H) /\ IsFiniteSet(G)
    BY <2>4, <2>5, FS_Subset
  <2>7. IsFiniteSet(Q)
    <3>1. PICK q : q = [n \in H |-> s[n].sig]
      OBVIOUS
    <3>2. q \in Surjection(H, Q)
      BY <2>3, <3>1 DEF Surjection
    <3> QED  BY <2>6, <3>2, FS_Surjection
  <2>8. ASSUME NEW n \in G PROVE n > 1 /\ n - 1 \in H
    <3>1. n \in 1..Len(s) /\ s[n].at = "in_handler" /\ s[n].kind # "fatal"
      BY <2>3
    <3>2. s[n].kind \in KindsAt(s[n].at) /\ Above(s, n)
      BY <1>1, <2>1, <3>1 DEF FatalInv, Shape
    <3>3. s[n].kind = "signal" /\ s[n].at \notin InHandler
      BY <3>1, <3>2 DEF KindsAt, InHandler
    <3>4. n > 1 /\ s[n - 1].at = "flush_last"
      BY <3>2, <3>3 DEF Above
    <3>5. n - 1 \in 1..Len(s)
      BY <2>2, <3>1, <3>4
    <3> QED  BY <2>3, <3>4, <3>5 DEF InHandler
  <2>9. Cardinality(G) <= Cardinality(Q)
    <3>1. PICK g : g = [n \in G |-> s[n - 1].sig]
      OBVIOUS
    <3>2. g \in [G -> Q]
      BY <2>3, <2>8, <3>1
    <3>3. ASSUME NEW m \in G, NEW n \in G, g[m] = g[n] PROVE m = n
      <4>1. m - 1 \in H /\ n - 1 \in H /\ s[m - 1].sig = s[n - 1].sig
        BY <2>8, <3>1, <3>3
      <4>2. m - 1 = n - 1
        BY <1>1, <2>1, <2>3, <4>1 DEF SigInv, HandlesOnce
      <4>3. m \in Nat /\ n \in Nat
        BY <2>5
      <4> QED  BY <4>2, <4>3
    <3>4. g \in Injection(G, Q)
      BY <3>2, <3>3 DEF Injection, IsInjective
    <3> QED  BY <2>7, <3>4, FS_Injection
  <2>10. Cardinality(E) <= Cardinality(A \cup G)
    <3>1. E \in SUBSET (A \cup G) /\ IsFiniteSet(A \cup G)
      BY <2>3, <2>6, FS_Union
    <3> QED  BY <3>1, FS_Subset
  <2>11. Cardinality(A \cup G) = Cardinality(A) + Cardinality(G)
    <3>1. A \cap G = {}
      BY <2>3
    <3>2. /\ Cardinality(A \cup G) = Cardinality(A) + Cardinality(G) - Cardinality(A \cap G)
          /\ Cardinality(A) \in Nat /\ Cardinality(G) \in Nat
      BY <2>6, FS_Union, FS_CardinalityType
    <3>3. Cardinality(A \cap G) = 0
      BY <3>1, FS_EmptySet
    <3> QED  BY <3>2, <3>3
  <2>12. /\ Cardinality(E) \in Nat /\ Cardinality(A) \in Nat /\ Cardinality(G) \in Nat
         /\ Cardinality(Q) \in Nat
    BY <2>6, <2>7, FS_CardinalityType
  <2>13. Cardinality(E) <= Cardinality(A) + Cardinality(Q)
    BY <2>9, <2>10, <2>11, <2>12
  <2> QED  BY <2>1, <2>2, <2>3, <2>13
<1>2. FatalInv /\ SigInv => HandlerNestsBoundedly
  BY <1>1 DEF HandlerNestsBoundedly
<1> QED  BY <1>2, SignalInvariant, PTL

=============================================================================
