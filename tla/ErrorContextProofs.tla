------------------------- MODULE ErrorContextProofs -------------------------
(***************************************************************************)
(* get_error_context reads other threads' stack frames without a lock.  No *)
(* entry it reads is gone, and what it prints is what was open when it was *)
(* called, for any number of threads, contexts and handles within handles. *)
(* The lines of a stack trace come after it: they are texts as well.       *)
(***************************************************************************)
EXTENDS ErrorContext, StackTrace, SequenceTheorems, WellFoundedInduction, TLAPS

Calls    == [cursor : Addr \cup {Null}, found : Seq(Addr)]
IsSeq(s) == \E S : s \in Seq(S)

EcTypeOK ==
  /\ head \in [Threads -> Addr \cup {Null}]
  /\ previous \in [Addr -> Addr \cup {Null}]
  /\ data = [a \in Addr |-> data[a]]
  /\ \A a \in Addr : data[a].ec \in Addr \cup {Null}
  /\ handle = [t \in Threads |-> handle[t]]
  /\ \A t \in Threads : handle[t].ec \in Addr \cup {Null}
  /\ at \in [Threads -> {"run", "ctor", "dtor"}]
  /\ stack = [t \in Threads |-> stack[t]]
  /\ \A t \in Threads : IsSeq(stack[t]) /\ Depth(t) \in 0..MaxDepth
  /\ walk \in [Threads -> Seq(Calls)]

(* The list of a thread goes through its frames, innermost first. *)
Lists ==
  \A t \in Threads :
    /\ head[t] = IF Depth(t) = 0 THEN Null ELSE <<t, Depth(t)>>
    /\ \A k \in 1..Depth(t) :
         previous[<<t, k>>] = IF k = 1 THEN Null ELSE <<t, k - 1>>

(* A handle points to an entry that is there, and its scope does not end. *)
Pins ==
  /\ \A t \in Threads : handle[t].ec # Null => Alive(handle[t].ec)
  /\ \A b \in Addr : Alive(b) /\ data[b].ec # Null => Alive(data[b].ec)
  /\ \A t \in Threads : at[t] # "run" => Depth(t) > 0
  /\ \A t \in Threads : at[t] = "dtor" => ~Pinned(Top(t))

(***************************************************************************)
(* Each call of get_error_context_for began at an entry, its root, and is  *)
(* now at entries that are not newer.  The root is the newest of the       *)
(* thread's own, or where its handle points, or where the handle does that *)
(* an entry holds which the call around it has been at.                    *)
(***************************************************************************)
Below(x, r) == x[1] = r[1] /\ x[2] <= r[2]
Within(c, r) ==
  /\ c.cursor # Null => Below(c.cursor, r)
  /\ \A n \in 1..Len(c.found) : Below(c.found[n], r)
Root == Threads \X (0..MaxDepth)
Held(t, r, i) ==
  \/ i = 1 /\ (r[i] = handle[t].ec \/ r[i][1] = t)
  \/ i > 1 /\ \E b \in Addr : Below(b, r[i - 1]) /\ data[b].ec = r[i]
Roots(t, r) ==
  /\ r \in [1..Len(walk[t]) -> Root]
  /\ \A i \in 1..Len(walk[t]) :
       Alive(r[i]) /\ Within(walk[t][i], r[i]) /\ Held(t, r, i)
Rooted == \A t \in Threads : \E r : Roots(t, r)

AliveInv == EcTypeOK /\ Lists /\ Pins /\ Rooted

USE ErrorContextAssumption

(* A sequence of anything grows and shrinks at its end. *)
LEMMA Pushed ==
  ASSUME NEW s, IsSeq(s), NEW e
  PROVE  IsSeq(Append(s, e)) /\ Len(Append(s, e)) = Len(s) + 1 /\ Len(s) \in Nat
<1>1. PICK S : s \in Seq(S)
  BY DEF IsSeq
<1>2. PICK T : T = S \cup {e}
  OBVIOUS
<1>3. s \in Seq(T) /\ e \in T
  BY <1>1, <1>2
<1>4. Append(s, e) \in Seq(T) /\ Len(Append(s, e)) = Len(s) + 1 /\ Len(s) \in Nat
  BY ONLY <1>3
<1> QED  BY <1>4 DEF IsSeq

(* What Front and Last of a sequence that is not empty are. *)
LEMMA FrontIs ==
  ASSUME NEW S, NEW s \in Seq(S), Len(s) > 0
  PROVE  /\ Len(s) \in Nat \ {0}
         /\ Front(s) \in Seq(S) /\ Len(Front(s)) = Len(s) - 1
         /\ \A n \in 1..(Len(s) - 1) : Front(s)[n] = s[n]
         /\ Last(s) = s[Len(s)] /\ Last(s) \in S
<1>1. Len(s) \in Nat \ {0} /\ Last(s) = s[Len(s)]
  BY DEF Last
<1>2. Front(s) = SubSeq(s, 1, Len(s) - 1)
  BY DEF Front
<1>3. s[Len(s)] \in S
  BY <1>1
<1>4. ASSUME NEW k \in Nat, k < Len(s)
      PROVE  /\ SubSeq(s, 1, k) \in Seq(S) /\ Len(SubSeq(s, 1, k)) = k
             /\ \A n \in 1..k : SubSeq(s, 1, k)[n] = s[n]
  BY <1>4
<1>5. Len(s) - 1 \in Nat /\ Len(s) - 1 < Len(s)
  BY <1>1
<1>6. /\ SubSeq(s, 1, Len(s) - 1) \in Seq(S) /\ Len(SubSeq(s, 1, Len(s) - 1)) = Len(s) - 1
      /\ \A n \in 1..(Len(s) - 1) : SubSeq(s, 1, Len(s) - 1)[n] = s[n]
  BY ONLY <1>4, <1>5
<1> QED  BY <1>1, <1>2, <1>3, <1>6

(* The same of Front for a sequence whose elements are not known. *)
LEMMA Popped ==
  ASSUME NEW s, IsSeq(s), Len(s) > 0
  PROVE  IsSeq(Front(s)) /\ Len(Front(s)) = Len(s) - 1
<1>1. PICK S : s \in Seq(S)
  BY DEF IsSeq
<1>2. Front(s) \in Seq(S) /\ Len(Front(s)) = Len(s) - 1
  BY ONLY <1>1, FrontIs, Len(s) > 0
<1> QED  BY <1>2 DEF IsSeq

(* The walk of a thread that does not print, and whose roots stay alive. *)
LEMMA RootsKept ==
  ASSUME EcTypeOK, NEW t \in Threads, NEW r, Roots(t, r),
         walk'[t] = walk[t], walk[t] # <<>> => handle'[t] = handle[t],
         \A b \in Addr : Alive(b) => data'[b] = data[b],
         \A i \in 1..Len(walk[t]) : Alive(r[i])'
  PROVE  Roots(t, r)'
<1>1. r \in [1..Len(walk'[t]) -> Root]
  BY DEF Roots
<1>2. ASSUME NEW i \in 1..Len(walk[t]) PROVE Held(t, r, i)'
  <2>1. Held(t, r, i) /\ walk[t] # <<>>
    BY DEF Roots, EcTypeOK
  <2>2. CASE i = 1 /\ (r[i] = handle[t].ec \/ r[i][1] = t)
    BY <2>1, <2>2 DEF Held
  <2>3. CASE i > 1 /\ \E b \in Addr : Below(b, r[i - 1]) /\ data[b].ec = r[i]
    <3>1. PICK b \in Addr : Below(b, r[i - 1]) /\ data[b].ec = r[i]
      BY <2>3
    <3>2. i - 1 \in 1..Len(walk[t]) /\ Len(walk[t]) \in Nat
      BY <2>3 DEF EcTypeOK
    <3>3. Alive(r[i - 1]) /\ r[i - 1] \in Root
      BY <3>2 DEF Roots
    <3>4. Alive(b)
      <4>1. b[2] \in Nat /\ r[i - 1][2] \in Nat /\ r[i - 1][1] \in Threads
        BY <3>3 DEF Addr, Root
      <4>2. Depth(r[i - 1][1]) \in Nat
        BY <4>1 DEF EcTypeOK
      <4> QED  BY <3>1, <3>3, <4>1, <4>2 DEF Alive, Below
    <3> QED  BY <2>3, <3>1, <3>4 DEF Held
  <2> QED  BY <2>1, <2>2, <2>3 DEF Held
<1> QED  BY <1>1, <1>2 DEF Roots

(* An entry below an alive one is alive. *)
LEMMA BelowAlive ==
  ASSUME EcTypeOK, NEW a \in Addr, NEW r \in Root, Below(a, r), Alive(r)
  PROVE  Alive(a)
<1>1. a[2] \in Nat /\ r[2] \in Nat /\ r[1] \in Threads
  BY DEF Addr, Root
<1>2. Depth(r[1]) \in Nat
  BY <1>1 DEF EcTypeOK
<1> QED  BY <1>1, <1>2 DEF Alive, Below

(* Every walk keeps its roots in a step in which none of them ends. *)
LEMMA RootedKept ==
  ASSUME AliveInv, walk' = walk,
         \A t \in Threads : walk[t] # <<>> => handle'[t] = handle[t],
         \A b \in Addr : Alive(b) => data'[b] = data[b],
         \A t \in Threads : \A r : Roots(t, r) =>
           \A i \in 1..Len(walk[t]) : Alive(r[i])'
  PROVE  Rooted'
<1>1. SUFFICES ASSUME NEW t \in Threads
               PROVE  \E r : Roots(t, r)'
  BY DEF Rooted
<1>2. PICK r : Roots(t, r)
  BY DEF AliveInv, Rooted
<1>3. Roots(t, r)'
  BY <1>2, RootsKept DEF AliveInv
<1> QED  BY <1>3

(* Nothing of the contexts changes, and no handle of a thread that prints. *)
LEMMA RootedQuiet ==
  ASSUME AliveInv, UNCHANGED <<walk, data, stack>>,
         \A t \in Threads : walk[t] # <<>> => handle'[t] = handle[t]
  PROVE  Rooted'
<1>1. \A a : Alive(a)' = Alive(a)
  BY DEF Alive, Depth
<1>2. \A t \in Threads : \A r : Roots(t, r) => \A i \in 1..Len(walk[t]) : Alive(r[i])'
  BY <1>1 DEF Roots
<1> QED  BY <1>2, RootedKept

(* The steps of a thread that leave the contexts as they are. *)
LEMMA QuietKeepsAlive ==
  ASSUME AliveInv, NEW t \in Threads,
         \/ Constructed(t) \/ Destroy(t) \/ DropHandle(t)
         \/ \E u \in Threads : GiveHandle(t, u)
  PROVE  AliveInv'
<1>a. UNCHANGED <<walk, data, stack, head, previous>>
  BY DEF Constructed, Destroy, DropHandle, GiveHandle, walking, memory
<1>b. \A u : Depth(u)' = Depth(u)
  BY <1>a DEF Depth
<1>c. \A a : Alive(a)' = Alive(a)
  BY <1>a, <1>b DEF Alive
<1>d. \A u \in Threads : Top(u)' = Top(u)
  BY <1>b DEF Top
<1>e. EcTypeOK
  BY DEF AliveInv
<1>0. Lists'
  BY <1>a, <1>b DEF AliveInv, Lists
<1>1. CASE Constructed(t)
  <2>1. at' = [at EXCEPT ![t] = "run"] /\ handle' = handle
    BY <1>1 DEF Constructed
  <2>2. EcTypeOK'
    BY <1>a, <1>b, <2>1, <1>e DEF EcTypeOK
  <2>3. \A a : Pinned(a)' = Pinned(a)
    BY <1>a, <1>c, <2>1 DEF Pinned
  <2>4. Pins'
    BY <1>a, <1>b, <1>c, <1>d, <2>1, <2>3, <1>e DEF AliveInv, Pins, EcTypeOK
  <2>5. Rooted'
    BY <1>a, <2>1, RootedQuiet
  <2> QED  BY <1>0, <2>2, <2>4, <2>5 DEF AliveInv
<1>2. CASE Destroy(t)
  <2>1. at' = [at EXCEPT ![t] = "dtor"] /\ handle' = handle /\ Depth(t) > 0 /\ ~Pinned(Top(t))
    BY <1>2 DEF Destroy
  <2>2. EcTypeOK'
    BY <1>a, <1>b, <2>1, <1>e DEF EcTypeOK
  <2>3. \A a : Pinned(a)' = Pinned(a)
    BY <1>a, <1>c, <2>1 DEF Pinned
  <2>4. Pins'
    BY <1>a, <1>b, <1>c, <1>d, <2>1, <2>3, <1>e DEF AliveInv, Pins, EcTypeOK
  <2>5. Rooted'
    BY <1>a, <2>1, RootedQuiet
  <2> QED  BY <1>0, <2>2, <2>4, <2>5 DEF AliveInv
<1>3. CASE DropHandle(t)
  <2>1. /\ handle' = [handle EXCEPT ![t] = NoHandle] /\ at' = at
        /\ walk[t] = <<>>
    BY <1>3 DEF DropHandle, Runs
  <2>2. \A u \in Threads : handle'[u] = IF u = t THEN NoHandle ELSE handle[u]
    BY <2>1, <1>e DEF EcTypeOK
  <2>3. handle' = [u \in Threads |-> handle'[u]]
    BY <2>1, <1>e DEF EcTypeOK
  <2>4. EcTypeOK'
    BY <1>a, <1>b, <2>1, <2>2, <2>3, <1>e DEF EcTypeOK, NoHandle
  <2>5. \A a \in Threads \X Nat : Pinned(a)' => Pinned(a)
    BY <1>a, <1>c, <2>2 DEF Pinned, NoHandle
  <2>6. \A u \in Threads : Top(u) \in Threads \X Nat
    BY <1>e DEF Top, EcTypeOK
  <2>7. Pins'
    <3>1. ASSUME NEW u \in Threads, handle'[u].ec # Null PROVE Alive(handle[u].ec)'
      BY <1>c, <2>2, <3>1, SMTT(40) DEF AliveInv, Pins, NoHandle, Alive, Depth
    <3> QED  BY <1>a, <1>b, <1>c, <1>d, <2>1, <2>5, <2>6, <3>1 DEF AliveInv, Pins
  <2>8. Rooted'
    BY <1>a, <2>1, <2>2, RootedQuiet
  <2> QED  BY <1>0, <2>4, <2>7, <2>8 DEF AliveInv
<1>4. ASSUME NEW u \in Threads, GiveHandle(t, u) PROVE AliveInv'
  <2>1. /\ at' = at /\ walk[u] = <<>> /\ at[t] = "run" /\ Depth(t) > 0
        /\ handle' = [handle EXCEPT ![u] = [ec |-> head[t], text |-> Text(stack[t])]]
    BY <1>4 DEF GiveHandle, Runs
  <2>2. PICK h : h = [ec |-> head[t], text |-> Text(stack[t])]
    OBVIOUS
  <2>3. h.ec = head[t] /\ head[t] = Top(t)
    BY <2>1, <2>2, <1>e DEF AliveInv, Lists, Top, EcTypeOK
  <2>4. \A v \in Threads : handle'[v] = IF v = u THEN h ELSE handle[v]
    BY <2>1, <2>2, <1>e DEF EcTypeOK
  <2>5. handle' = [v \in Threads |-> handle'[v]]
    BY <2>1, <1>e DEF EcTypeOK
  <2>6. EcTypeOK'
    <3>1. h.ec \in Addr \cup {Null}
      BY <2>3, <1>e DEF EcTypeOK
    <3> QED  BY <1>a, <1>b, <2>1, <2>4, <2>5, <3>1, <1>e DEF EcTypeOK
  <2>7. \A a : Pinned(a)' => Pinned(a) \/ a = Top(t)
    BY <1>a, <1>c, <2>3, <2>4 DEF Pinned
  <2>8. \A v \in Threads : at[v] = "dtor" => Top(v) # Top(t)
    BY <2>1 DEF Top
  <2>9. Alive(Top(t))
    BY <1>e DEF Alive, Top, EcTypeOK
  <2>10. Pins'
    <3>1. ASSUME NEW v \in Threads, handle'[v].ec # Null PROVE Alive(handle[v].ec)'
      BY <1>a, <2>3, <2>4, <2>9, <3>1 DEF AliveInv, Pins, Alive, Depth
    <3> QED  BY <1>a, <1>b, <1>c, <1>d, <2>1, <2>7, <2>8, <3>1 DEF AliveInv, Pins
  <2>11. Rooted'
    BY <1>a, <2>1, <2>4, RootedQuiet
  <2> QED  BY <1>0, <2>6, <2>10, <2>11 DEF AliveInv
<1> QED  BY <1>1, <1>2, <1>3, <1>4

(* A thread that ends has no contexts left. *)
LEMMA ExitKeepsAlive ==
  ASSUME AliveInv, NEW t \in Threads, ThreadExit(t)
  PROVE  AliveInv'
<1>1. /\ UNCHANGED <<walk, data, stack, previous, at, handle>>
      /\ head' = [head EXCEPT ![t] = Null] /\ Depth(t) = 0
  BY DEF ThreadExit, walking, memory
<1>2. EcTypeOK
  BY DEF AliveInv
<1>3. \A u : Depth(u)' = Depth(u) /\ Top(u)' = Top(u)
  BY <1>1 DEF Depth, Top
<1>4. \A a : Alive(a)' = Alive(a) /\ Pinned(a)' = Pinned(a)
  BY <1>1 DEF Alive, Pinned, Depth
<1>5. EcTypeOK'
  BY <1>1, <1>2, <1>3 DEF EcTypeOK
<1>6. Lists'
  BY <1>1, <1>2, <1>3 DEF AliveInv, Lists, EcTypeOK
<1>7. Pins'
  BY <1>1, <1>3, <1>4 DEF AliveInv, Pins
<1>8. Rooted'
  BY <1>1, RootedQuiet
<1> QED  BY <1>5, <1>6, <1>7, <1>8 DEF AliveInv

(* A new context is at an address that was not alive. *)
LEMMA ConstructKeepsAlive ==
  ASSUME AliveInv, NEW t \in Threads, Construct(t)
  PROVE  AliveInv'
<1>1. EcTypeOK
  BY DEF AliveInv
<1>2. PICK a : a = <<t, Depth(t) + 1>>
  OBVIOUS
<1>3. PICK d \in {NoHandle, handle[t]} :
        /\ data' = [data EXCEPT ![a] = d]
        /\ stack' = [stack EXCEPT ![t] = Append(@, <<made + 1>> \o d.text)]
  BY <1>2 DEF Construct
<1>4. PICK e : e = <<made + 1>> \o d.text
  OBVIOUS
<1>5. /\ at[t] = "run" /\ walk[t] = <<>> /\ Depth(t) < MaxDepth
      /\ previous' = [previous EXCEPT ![a] = head[t]]
      /\ head' = [head EXCEPT ![t] = a]
      /\ at' = [at EXCEPT ![t] = "ctor"]
      /\ UNCHANGED <<handle, walk>>
  BY <1>2 DEF Construct, Link, Runs, walking
<1>6. Depth(t) \in Nat /\ a \in Addr /\ a[1] = t /\ a[2] = Depth(t) + 1 /\ a # Null
  BY <1>1, <1>2, <1>5 DEF EcTypeOK, Addr
<1>7. /\ stack' = [u \in Threads |-> stack'[u]]
      /\ stack'[t] = Append(stack[t], e)
      /\ \A u \in Threads : u # t => stack'[u] = stack[u]
  BY <1>1, <1>3, <1>4 DEF EcTypeOK
<1>8. IsSeq(stack'[t]) /\ Depth(t)' = Depth(t) + 1
  <2>1. IsSeq(stack[t])
    BY <1>1 DEF EcTypeOK
  <2>2. PICK s : s = stack[t]
    OBVIOUS
  <2>3. IsSeq(Append(s, e)) /\ Len(Append(s, e)) = Len(s) + 1
    BY <2>1, <2>2, Pushed
  <2> QED  BY <1>7, <2>2, <2>3 DEF Depth
<1>9. \A u \in Threads : Depth(u)' = IF u = t THEN Depth(t) + 1 ELSE Depth(u)
  BY <1>7, <1>8 DEF Depth
<1>10. \A b \in Root \cup Addr : Alive(b) => Alive(b)'
  <2>1. SUFFICES ASSUME NEW b \in Root \cup Addr, Alive(b) PROVE Alive(b)'
    OBVIOUS
  <2>2. b[1] \in Threads /\ b[2] \in Nat /\ b[2] <= Depth(b[1])
    BY <2>1 DEF Root, Addr, Alive
  <2>3. PICK u \in Threads : u = b[1]
    BY <2>2
  <2>4. Depth(u) \in Nat
    BY <1>1 DEF EcTypeOK
  <2>5. Depth(u)' \in Nat /\ Depth(u)' >= Depth(u)
    BY <1>6, <1>9, <2>4
  <2> QED  BY <2>2, <2>3, <2>4, <2>5 DEF Alive
<1>11. \A b \in Addr : Alive(b)' => Alive(b) \/ b = a
  BY <1>1, <1>2, <1>6, <1>9 DEF Alive, Addr, EcTypeOK
<1>12. ~Alive(a) /\ Alive(a)'
  BY <1>6, <1>9 DEF Alive
<1>13. /\ data' = [b \in Addr |-> data'[b]] /\ data'[a] = d
       /\ \A b \in Addr : b # a => data'[b] = data[b]
  BY <1>1, <1>3, <1>6 DEF EcTypeOK
<1>14. d.ec = Null \/ (d.ec = handle[t].ec /\ Alive(d.ec) /\ Pinned(d.ec) /\ d.ec \in Addr)
  BY <1>1 DEF AliveInv, Pins, Pinned, NoHandle, EcTypeOK
<1>15. EcTypeOK'
  <2>1. head' \in [Threads -> Addr \cup {Null}] /\ previous' \in [Addr -> Addr \cup {Null}]
    BY <1>1, <1>5, <1>6 DEF EcTypeOK
  <2>2. \A b \in Addr : data'[b].ec \in Addr \cup {Null}
    BY <1>1, <1>13, <1>14 DEF EcTypeOK
  <2>3. \A u \in Threads : IsSeq(stack'[u]) /\ Depth(u)' \in 0..MaxDepth
    <3>1. ASSUME NEW u \in Threads PROVE IsSeq(stack'[u])
      BY <1>1, <1>7, <1>8 DEF EcTypeOK
    <3>2. ASSUME NEW u \in Threads PROVE Depth(u)' \in 0..MaxDepth
      <4>1. Depth(u) \in 0..MaxDepth /\ Depth(t) + 1 \in 0..MaxDepth
        BY <1>1, <1>5, <1>6 DEF EcTypeOK
      <4> QED  BY <1>9, <4>1
    <3> QED  BY <3>1, <3>2
  <2>4. at' \in [Threads -> {"run", "ctor", "dtor"}]
    BY <1>1, <1>5 DEF EcTypeOK
  <2> QED  BY <1>1, <1>5, <1>7, <1>13, <2>1, <2>2, <2>3, <2>4 DEF EcTypeOK
<1>16. Lists'
  <2>1. ASSUME NEW u \in Threads, NEW k \in 1..Depth(u)', <<u, k>> # a
        PROVE  k \in 1..Depth(u) /\ <<u, k>> \in Addr /\ previous'[<<u, k>>] = previous[<<u, k>>]
    <3>1. Depth(u) \in 0..MaxDepth
      BY <1>1 DEF EcTypeOK
    <3>2. k \in 1..Depth(u)
      BY <1>2, <1>6, <1>9, <2>1, <3>1
    <3>3. <<u, k>> \in Addr
      BY <3>1, <3>2 DEF Addr
    <3> QED  BY <1>1, <1>5, <2>1, <3>2, <3>3 DEF EcTypeOK
  <2>2. previous'[a] = IF Depth(t) = 0 THEN Null ELSE <<t, Depth(t)>>
    BY <1>1, <1>5, <1>6 DEF AliveInv, Lists, EcTypeOK
  <2>3. ASSUME NEW u \in Threads, NEW k \in 1..Depth(u)'
        PROVE  previous'[<<u, k>>] = IF k = 1 THEN Null ELSE <<u, k - 1>>
    <3>1. CASE <<u, k>> = a
      <4>1. u = t /\ k = Depth(t) + 1
        BY <1>2, <3>1
      <4> QED  BY <1>2, <1>6, <2>2, <4>1
    <3>2. CASE <<u, k>> # a
      <4>1. k \in 1..Depth(u) /\ previous'[<<u, k>>] = previous[<<u, k>>]
        BY ONLY <2>1, <3>2, u \in Threads, k \in 1..Depth(u)'
      <4>2. previous[<<u, k>>] = IF k = 1 THEN Null ELSE <<u, k - 1>>
        BY <4>1 DEF AliveInv, Lists
      <4> QED  BY <4>1, <4>2
    <3> QED  BY <3>1, <3>2
  <2>4. ASSUME NEW u \in Threads
        PROVE  head'[u] = IF Depth(u)' = 0 THEN Null ELSE <<u, Depth(u)'>>
    <3>1. CASE u = t
      <4>1. head'[u] = a /\ Depth(u)' = Depth(t) + 1
        BY <1>1, <1>5, <1>9, <3>1 DEF EcTypeOK
      <4> QED  BY <1>2, <1>6, <3>1, <4>1
    <3>2. CASE u # t
      <4>1. head'[u] = head[u] /\ Depth(u)' = Depth(u)
        BY <1>1, <1>5, <1>9, <3>2 DEF EcTypeOK
      <4>2. head[u] = IF Depth(u) = 0 THEN Null ELSE <<u, Depth(u)>>
        BY DEF AliveInv, Lists
      <4> QED  BY <4>1, <4>2
    <3> QED  BY <3>1, <3>2
  <2> QED  BY <2>3, <2>4 DEF Lists
<1>17. Pins'
  <2>1. \A u \in Threads : handle'[u].ec # Null => Alive(handle[u].ec)'
    BY <1>1, <1>5, <1>10 DEF AliveInv, Pins, EcTypeOK
  <2>2. ASSUME NEW b \in Addr, Alive(b)', data'[b].ec # Null
        PROVE  Alive(data[b].ec)'
    <3>1. CASE b = a
      <4>1. Alive(d.ec) /\ d.ec \in Addr
        BY <1>13, <1>14, <2>2, <3>1
      <4>2. PICK x : x = d.ec
        OBVIOUS
      <4>3. Alive(x)' /\ x = data'[b].ec
        BY <1>10, <1>13, <3>1, <4>1, <4>2
      <4> QED  BY <4>3 DEF Alive, Depth
    <3>2. CASE b # a
      <4>1. Alive(data[b].ec) /\ data[b].ec \in Addr /\ data'[b] = data[b]
        BY <1>1, <1>11, <1>13, <2>2, <3>2 DEF AliveInv, Pins, EcTypeOK
      <4> QED  BY <1>10, <4>1
    <3> QED  BY <3>1, <3>2
  <2>3. \A u \in Threads : at'[u] # "run" => Depth(u)' > 0
    BY <1>1, <1>5, <1>6, <1>9 DEF AliveInv, Pins, EcTypeOK
  <2>4. ASSUME NEW u \in Threads, at'[u] = "dtor"
        PROVE  ~Pinned(Top(u))'
    <3>1. u # t /\ ~Pinned(Top(u))
      BY <1>1, <1>5, <2>4 DEF AliveInv, Pins, EcTypeOK
    <3>2. Depth(u)' = Depth(u)
      BY <1>9, <3>1
    <3>3. PICK x : x = Top(u)
      OBVIOUS
    <3>4. Top(u)' = x
      BY <3>2, <3>3 DEF Top
    <3>5. x # Null
      BY <1>1, <3>3 DEF Top, EcTypeOK
    <3>6. ~Pinned(x)'
      <4>1. \A v \in Threads : handle'[v].ec # x
        BY <1>5, <3>1, <3>3 DEF Pinned
      <4>2. ASSUME NEW b \in Addr, Alive(b)', data'[b].ec = x PROVE FALSE
        <5>1. b # a
          BY <1>13, <1>14, <3>1, <3>3, <3>5, <4>2
        <5> QED  BY <1>11, <1>13, <3>1, <3>3, <4>2, <5>1 DEF Pinned
      <4> QED  BY <4>1, <4>2 DEF Pinned
    <3> QED  BY <3>4, <3>6 DEF Pinned
  <2> QED  BY <2>1, <2>2, <2>3, <2>4 DEF Pins
<1>18. Rooted'
  <2>1. \A b \in Addr : Alive(b) => data'[b] = data[b]
    BY <1>12, <1>13
  <2>2. ASSUME NEW u \in Threads, NEW r, Roots(u, r), NEW i \in 1..Len(walk[u])
        PROVE  Alive(r[i])'
    BY <1>10, <2>2 DEF Roots
  <2> QED  BY <1>5, <2>1, <2>2, RootedKept
<1> QED  BY <1>15, <1>16, <1>17, <1>18 DEF AliveInv

(* The context whose scope ends is not pinned: neither a handle nor a walk *)
(* is left without what it points to.                                      *)
LEMMA DestroyedKeepsAlive ==
  ASSUME AliveInv, NEW t \in Threads, Destroyed(t)
  PROVE  AliveInv'
<1>1. EcTypeOK
  BY DEF AliveInv
<1>2. /\ at[t] = "dtor" /\ walk[t] = <<>>
      /\ head' = [head EXCEPT ![t] = previous[Top(t)]]
      /\ stack' = [stack EXCEPT ![t] = Front(@)]
      /\ at' = [at EXCEPT ![t] = "run"]
      /\ UNCHANGED <<previous, data, handle, walk>>
  BY DEF Destroyed, Unlink, memory, walking
<1>3. Depth(t) \in Nat \ {0} /\ Depth(t) <= MaxDepth /\ ~Pinned(Top(t))
  <2>1. at[t] # "run" /\ at[t] = "dtor"
    BY <1>2
  <2>2. Depth(t) > 0 /\ ~Pinned(Top(t))
    BY <2>1 DEF AliveInv, Pins
  <2>3. Depth(t) \in 0..MaxDepth
    BY <1>1 DEF EcTypeOK
  <2> QED  BY <2>2, <2>3
<1>4. /\ stack' = [u \in Threads |-> stack'[u]]
      /\ stack'[t] = Front(stack[t])
      /\ \A u \in Threads : u # t => stack'[u] = stack[u]
  BY <1>1, <1>2 DEF EcTypeOK
<1>5. IsSeq(stack'[t]) /\ Depth(t)' = Depth(t) - 1
  <2>1. PICK s : s = stack[t]
    OBVIOUS
  <2>2. IsSeq(s) /\ Len(s) > 0
    BY <1>1, <1>3, <2>1 DEF EcTypeOK, Depth
  <2>3. IsSeq(Front(s)) /\ Len(Front(s)) = Len(s) - 1
    BY <2>2, Popped
  <2> QED  BY <1>4, <2>1, <2>3 DEF Depth
<1>6. \A u \in Threads : Depth(u)' = IF u = t THEN Depth(t) - 1 ELSE Depth(u)
  BY <1>4, <1>5 DEF Depth
<1>7. ASSUME NEW b \in Root \cup Addr, Alive(b), b # Top(t)
      PROVE  Alive(b)'
  <2>1. b = <<b[1], b[2]>> /\ b[1] \in Threads /\ b[2] \in Nat /\ b[2] <= Depth(b[1])
    BY <1>7 DEF Root, Addr, Alive
  <2>2. CASE b[1] = t
    <3>1. b[2] # Depth(t)
      BY <1>7, <2>1, <2>2 DEF Top
    <3> QED  BY <1>3, <1>6, <2>1, <2>2, <3>1 DEF Alive
  <2>3. CASE b[1] # t
    BY <1>6, <2>1, <2>3 DEF Alive
  <2> QED  BY <2>2, <2>3
<1>8. ASSUME NEW b \in Addr, Alive(b)'
      PROVE  Alive(b)
  <2>1. b[1] \in Threads /\ b[2] \in Nat
    BY DEF Addr
  <2>2. PICK u \in Threads : u = b[1]
    BY <2>1
  <2>3. Depth(u) \in Nat
    BY <1>1 DEF EcTypeOK
  <2>4. Depth(u)' <= Depth(u) /\ Depth(u)' \in Nat
    BY <1>3, <1>6, <2>3
  <2> QED  BY <1>8, <2>1, <2>2, <2>3, <2>4 DEF Alive
<1>9. EcTypeOK'
  <2>1. Top(t) \in Addr
    BY <1>3 DEF Top, Addr
  <2>2. head' \in [Threads -> Addr \cup {Null}]
    BY <1>1, <1>2, <2>1 DEF EcTypeOK
  <2>3. ASSUME NEW u \in Threads PROVE IsSeq(stack'[u]) /\ Depth(u)' \in 0..MaxDepth
    <3>1. IsSeq(stack'[u])
      BY <1>1, <1>4, <1>5 DEF EcTypeOK
    <3>2. Depth(u) \in 0..MaxDepth /\ Depth(t) - 1 \in 0..MaxDepth
      BY <1>1, <1>3 DEF EcTypeOK
    <3> QED  BY <1>6, <3>1, <3>2
  <2>4. at' \in [Threads -> {"run", "ctor", "dtor"}]
    BY <1>1, <1>2 DEF EcTypeOK
  <2> QED  BY <1>1, <1>2, <1>4, <2>2, <2>3, <2>4 DEF EcTypeOK
<1>10. Lists'
  <2>1. previous[Top(t)] = IF Depth(t) = 1 THEN Null ELSE <<t, Depth(t) - 1>>
    BY <1>3 DEF AliveInv, Lists, Top
  <2>2. ASSUME NEW u \in Threads
        PROVE  head'[u] = IF Depth(u)' = 0 THEN Null ELSE <<u, Depth(u)'>>
    <3>1. CASE u = t
      <4>1. head'[u] = previous[Top(t)] /\ Depth(u)' = Depth(t) - 1
        BY <1>1, <1>2, <1>6, <3>1 DEF EcTypeOK
      <4> QED  BY <1>3, <2>1, <3>1, <4>1
    <3>2. CASE u # t
      <4>1. head'[u] = head[u] /\ Depth(u)' = Depth(u)
        BY <1>1, <1>2, <1>6, <3>2 DEF EcTypeOK
      <4>2. head[u] = IF Depth(u) = 0 THEN Null ELSE <<u, Depth(u)>>
        BY DEF AliveInv, Lists
      <4> QED  BY <4>1, <4>2
    <3> QED  BY <3>1, <3>2
  <2>3. ASSUME NEW u \in Threads, NEW k \in 1..Depth(u)'
        PROVE  previous'[<<u, k>>] = IF k = 1 THEN Null ELSE <<u, k - 1>>
    <3>1. Depth(u) \in Nat
      BY <1>1 DEF EcTypeOK
    <3>2. k \in 1..Depth(u)
      BY <1>3, <1>6, <2>3, <3>1
    <3> QED  BY <1>2, <3>2 DEF AliveInv, Lists
  <2> QED  BY <2>2, <2>3 DEF Lists
<1>11. Pins'
  <2>1. ASSUME NEW u \in Threads, handle'[u].ec # Null
        PROVE  Alive(handle[u].ec)'
    <3>1. PICK x : x = handle[u].ec
      OBVIOUS
    <3>2. x \in Addr /\ Alive(x) /\ x # Top(t)
      BY <1>1, <1>2, <1>3, <2>1, <3>1 DEF AliveInv, Pins, Pinned, EcTypeOK
    <3>3. Alive(x)' /\ handle'[u].ec = x
      BY <1>2, <1>7, <3>1, <3>2
    <3> QED  BY <3>3 DEF Alive, Depth
  <2>2. ASSUME NEW b \in Addr, Alive(b)', data'[b].ec # Null
        PROVE  Alive(data[b].ec)'
    <3>1. PICK x : x = data[b].ec
      OBVIOUS
    <3>2. x \in Addr /\ Alive(x) /\ x # Top(t)
      BY <1>1, <1>2, <1>3, <1>8, <2>2, <3>1 DEF AliveInv, Pins, Pinned, EcTypeOK
    <3>3. Alive(x)' /\ data'[b].ec = x
      BY <1>2, <1>7, <3>1, <3>2
    <3> QED  BY <3>3 DEF Alive, Depth
  <2>3. ASSUME NEW u \in Threads, at'[u] # "run"
        PROVE  Depth(u)' > 0 /\ u # t /\ at'[u] = at[u] /\ Depth(u)' = Depth(u)
    <3>1. u # t /\ at'[u] = at[u]
      BY <1>1, <1>2, <2>3 DEF EcTypeOK
    <3> QED  BY <1>6, <2>3, <3>1 DEF AliveInv, Pins
  <2>4. ASSUME NEW u \in Threads, at'[u] = "dtor"
        PROVE  ~Pinned(Top(u))'
    <3>1. PICK x : x = Top(u)
      OBVIOUS
    <3>2. Top(u)' = x /\ ~Pinned(x)
      BY <2>3, <2>4, <3>1 DEF AliveInv, Pins, Top
    <3>3. ~Pinned(x)'
      BY <1>2, <1>8, <3>2 DEF Pinned
    <3> QED  BY <3>2, <3>3 DEF Pinned
  <2> QED  BY <2>1, <2>2, <2>3, <2>4 DEF Pins
<1>12. Rooted'
  <2>1. ASSUME NEW u \in Threads, NEW r, Roots(u, r), NEW i \in 1..Len(walk[u])
        PROVE  Alive(r[i])'
    <3>1. r[i] \in Root /\ Alive(r[i]) /\ Held(u, r, i)
      BY <2>1 DEF Roots
    <3>2. u # t /\ Len(walk[u]) \in Nat
      BY <1>1, <1>2 DEF EcTypeOK
    <3>3. r[i] # Top(t)
      <4>1. CASE i = 1 /\ r[i] = handle[u].ec
        BY <1>3, <4>1 DEF Pinned
      <4>2. CASE i = 1 /\ r[i][1] = u
        BY <3>2, <4>2 DEF Top
      <4>3. CASE i > 1 /\ \E b \in Addr : Below(b, r[i - 1]) /\ data[b].ec = r[i]
        <5>1. PICK b \in Addr : Below(b, r[i - 1]) /\ data[b].ec = r[i]
          BY <4>3
        <5>2. i - 1 \in 1..Len(walk[u])
          BY <3>2, <4>3
        <5>3. r[i - 1] \in Root /\ Alive(r[i - 1])
          BY <2>1, <5>2 DEF Roots
        <5>4. Alive(b)
          BY <1>1, <5>1, <5>3, BelowAlive
        <5> QED  BY <1>3, <5>1, <5>4 DEF Pinned
      <4> QED  BY <3>1, <4>1, <4>2, <4>3 DEF Held
    <3> QED  BY <1>7, <3>1, <3>3
  <2> QED  BY <1>2, <2>1, RootedKept
<1> QED  BY <1>9, <1>10, <1>11, <1>12 DEF AliveInv

(* A walk begins at an entry that is alive. *)
LEMMA BeginKeepsAlive ==
  ASSUME AliveInv, NEW t \in Threads, GetErrorContext(t) \/ GetErrorContextFor(t)
  PROVE  AliveInv'
<1>1. EcTypeOK
  BY DEF AliveInv
<1>2. PICK ec : /\ Begin(t, ec, Text(stack[t])) \/ Begin(t, ec, handle[t].text)
                /\ ec = head[t] \/ ec = handle[t].ec
  BY DEF GetErrorContext, GetErrorContextFor
<1>3. PICK c : c = [cursor |-> ec, found |-> <<>>]
  OBVIOUS
<1>4. /\ walk[t] = <<>> /\ walk' = [walk EXCEPT ![t] = <<c>>]
      /\ UNCHANGED <<head, previous, data, at, handle, stack>>
  BY <1>2, <1>3 DEF Begin, memory
<1>5. c \in Calls
  BY <1>1, <1>2, <1>3 DEF Calls, EcTypeOK
<1>6. \A u : Depth(u)' = Depth(u) /\ Top(u)' = Top(u)
  BY <1>4 DEF Depth, Top
<1>7. \A a : Alive(a)' = Alive(a) /\ Pinned(a)' = Pinned(a)
  BY <1>4 DEF Alive, Pinned, Depth
<1>8. EcTypeOK'
  <2>1. <<c>> \in Seq(Calls)
    BY <1>5
  <2>2. walk' \in [Threads -> Seq(Calls)]
    BY <1>1, <1>4, <2>1 DEF EcTypeOK
  <2> QED  BY <1>1, <1>4, <1>6, <2>2 DEF EcTypeOK
<1>9. Lists' /\ Pins'
  BY <1>4, <1>6, <1>7 DEF AliveInv, Lists, Pins
<1>10. Rooted'
  <2>1. SUFFICES ASSUME NEW u \in Threads PROVE \E r : Roots(u, r)'
    BY DEF Rooted
  <2>2. CASE u # t
    <3>1. PICK r : Roots(u, r)
      BY DEF AliveInv, Rooted
    <3>2. walk'[u] = walk[u]
      BY <1>1, <1>4, <2>2 DEF EcTypeOK
    <3>3. \A i \in 1..Len(walk[u]) : Alive(r[i])'
      BY <1>7, <3>1 DEF Roots
    <3>4. Roots(u, r)'
      BY <1>1, <1>4, <3>1, <3>2, <3>3, RootsKept
    <3> QED  BY <3>4
  <2>3. CASE u = t
    <3>1. PICK x : x = IF ec = Null THEN <<t, Depth(t)>> ELSE ec
      OBVIOUS
    <3>2. Depth(t) \in 0..MaxDepth
      BY <1>1 DEF EcTypeOK
    <3>3. head[t] = IF Depth(t) = 0 THEN Null ELSE <<t, Depth(t)>>
      BY DEF AliveInv, Lists
    <3>4. x \in Root /\ Alive(x) /\ (x = handle[t].ec \/ x[1] = t)
      <4>1. CASE x = <<t, Depth(t)>>
        BY <3>2, <4>1 DEF Root, Alive
      <4>2. CASE x # <<t, Depth(t)>>
        <5>1. x = handle[t].ec /\ handle[t].ec # Null
          BY <1>2, <3>1, <3>3, <4>2
        <5>2. x \in Addr /\ Alive(x)
          BY <1>1, <5>1 DEF AliveInv, Pins, EcTypeOK
        <5> QED  BY <5>1, <5>2 DEF Addr, Root
      <4> QED  BY <4>1, <4>2
    <3>5. walk'[t] = <<c>> /\ Len(walk'[t]) = 1 /\ walk'[t][1] = c
      BY <1>1, <1>4 DEF EcTypeOK
    <3>6. Within(c, x)
      <4>1. c.cursor = ec /\ Len(c.found) = 0
        BY <1>3
      <4>2. ec # Null => Below(ec, x)
        <5>1. ec # Null => ec = x /\ x[2] \in Nat
          BY <3>1, <3>4 DEF Root
        <5> QED  BY <5>1 DEF Below
      <4> QED  BY <4>1, <4>2 DEF Within
    <3>7. PICK r : r = [i \in 1..Len(walk'[t]) |-> x]
      OBVIOUS
    <3>8. r \in [1..Len(walk'[t]) -> Root]
      BY <3>4, <3>7
    <3>9. ASSUME NEW i \in 1..Len(walk'[t])
          PROVE  Alive(r[i])' /\ Within(walk'[t][i], r[i]) /\ Held(t, r, i)'
      <4>1. i = 1 /\ r[i] = x
        BY <3>5, <3>7
      <4>2. Held(t, r, i)'
        BY <1>4, <3>4, <4>1 DEF Held
      <4> QED  BY <1>7, <3>4, <3>5, <3>6, <4>1, <4>2
    <3>10. Roots(t, r)'
      BY <3>8, <3>9 DEF Roots, Within, Below
    <3> QED  BY <2>3, <3>10
  <2> QED  BY <2>2, <2>3
<1> QED  BY <1>8, <1>9, <1>10 DEF AliveInv

(* What the innermost call becomes; the calls around it stay. *)
LEMMA WithCallIs ==
  ASSUME EcTypeOK, NEW t \in Threads, walk[t] # <<>>,
         NEW c \in Seq(Calls), WithCall(t, c)
  PROVE  /\ Call(t) = walk[t][Len(walk[t])] /\ Call(t) \in Calls
         /\ Len(walk[t]) \in Nat \ {0}
         /\ walk' \in [Threads -> Seq(Calls)]
         /\ \A u \in Threads : u # t => walk'[u] = walk[u]
         /\ Len(walk'[t]) = Len(walk[t]) - 1 + Len(c)
         /\ \A n \in 1..(Len(walk[t]) - 1) : walk'[t][n] = walk[t][n]
         /\ \A n \in 1..Len(c) : walk'[t][Len(walk[t]) - 1 + n] = c[n]
<1>1. PICK s : s = walk[t]
  OBVIOUS
<1>2. s \in Seq(Calls) /\ s # <<>>
  BY <1>1 DEF EcTypeOK
<1>3. Len(s) > 0
  BY <1>2
<1>4. /\ Len(s) \in Nat \ {0}
      /\ Front(s) \in Seq(Calls) /\ Len(Front(s)) = Len(s) - 1
      /\ \A n \in 1..(Len(s) - 1) : Front(s)[n] = s[n]
      /\ Last(s) = s[Len(s)] /\ Last(s) \in Calls
  BY ONLY <1>2, <1>3, FrontIs
<1>5. PICK f : f = Front(s)
  OBVIOUS
<1>6. f \in Seq(Calls) /\ Len(f) = Len(s) - 1 /\ \A n \in 1..(Len(s) - 1) : f[n] = s[n]
  BY <1>4, <1>5
<1>7. /\ f \o c \in Seq(Calls) /\ Len(f \o c) = Len(f) + Len(c)
      /\ \A n \in 1..Len(f) : (f \o c)[n] = f[n]
      /\ \A n \in 1..Len(c) : (f \o c)[Len(f) + n] = c[n]
  <2>0. Len(f) \in Nat /\ Len(c) \in Nat
    BY <1>6
  <2>1. /\ f \o c \in Seq(Calls) /\ Len(f \o c) = Len(f) + Len(c)
        /\ \A n \in 1..(Len(f) + Len(c)) :
             (f \o c)[n] = IF n <= Len(f) THEN f[n] ELSE c[n - Len(f)]
    BY ONLY <1>6, c \in Seq(Calls), ConcatProperties, Zenon
  <2>2. ASSUME NEW n \in 1..Len(c) PROVE (f \o c)[Len(f) + n] = c[n]
    <3>1. Len(f) + n \in 1..(Len(f) + Len(c)) /\ ~(Len(f) + n <= Len(f)) /\ (Len(f) + n) - Len(f) = n
      BY <2>0
    <3> QED  BY <2>1, <3>1
  <2>3. ASSUME NEW n \in 1..Len(f) PROVE (f \o c)[n] = f[n]
    <3>1. n \in 1..(Len(f) + Len(c)) /\ n <= Len(f)
      BY <2>0
    <3> QED  BY <2>1, <3>1
  <2> QED  BY <2>1, <2>2, <2>3
<1>8. walk' = [walk EXCEPT ![t] = f \o c]
  BY <1>1, <1>5 DEF WithCall
<1>9. walk' \in [Threads -> Seq(Calls)] /\ walk'[t] = f \o c /\ \A u \in Threads : u # t => walk'[u] = walk[u]
  BY <1>7, <1>8 DEF EcTypeOK
<1> QED  BY <1>1, <1>4, <1>6, <1>7, <1>9 DEF Call

(***************************************************************************)
(* What the calls that replace a call cc must be like: the first is still  *)
(* within the root of cc, and one nested in it has a root of its own,      *)
(* which an entry below that of cc holds.                                  *)
(***************************************************************************)
GoesTo(cc, c) ==
  /\ Len(c) <= 2
  /\ \A x \in Root :
       Alive(x) /\ Within(cc, x) =>
         /\ Len(c) >= 1 => Within(c[1], x)
         /\ Len(c) = 2 =>
              \E y \in Root : /\ Alive(y) /\ Within(c[2], y)
                             /\ \E b \in Addr : Below(b, x) /\ data[b].ec = y

(* Such a step keeps each walk within its roots. *)
LEMMA WalkKeepsAlive ==
  ASSUME AliveInv, NEW t \in Threads, walk[t] # <<>>,
         NEW c \in Seq(Calls), WithCall(t, c), GoesTo(Call(t), c),
         UNCHANGED <<head, previous, data, at, handle, stack>>
  PROVE  AliveInv'
<1>1. EcTypeOK
  BY DEF AliveInv
<1>2. PICK n : n = Len(walk[t])
  OBVIOUS
<1>3. /\ Call(t) = walk[t][n] /\ n \in Nat \ {0}
      /\ walk' \in [Threads -> Seq(Calls)]
      /\ \A u \in Threads : u # t => walk'[u] = walk[u]
      /\ Len(walk'[t]) = n - 1 + Len(c)
      /\ \A m \in 1..(n - 1) : walk'[t][m] = walk[t][m]
      /\ \A m \in 1..Len(c) : walk'[t][n - 1 + m] = c[m]
  BY <1>1, <1>2, WithCallIs
<1>4. \A u : Depth(u)' = Depth(u) /\ Top(u)' = Top(u)
  BY DEF Depth, Top
<1>5. \A a : Alive(a)' = Alive(a) /\ Pinned(a)' = Pinned(a)
  BY DEF Alive, Pinned, Depth
<1>6. EcTypeOK'
  BY <1>1, <1>3, <1>4 DEF EcTypeOK
<1>7. Lists' /\ Pins'
  BY <1>4, <1>5 DEF AliveInv, Lists, Pins
<1>8. ASSUME NEW u \in Threads, u # t PROVE \E r : Roots(u, r)'
  <2>1. PICK r : Roots(u, r)
    BY DEF AliveInv, Rooted
  <2>2. walk'[u] = walk[u]
    BY <1>3, <1>8
  <2>3. \A i \in 1..Len(walk[u]) : Alive(r[i])'
    BY <1>5, <2>1 DEF Roots
  <2>4. Roots(u, r)'
    BY <1>1, <2>1, <2>2, <2>3, RootsKept
  <2> QED  BY <2>4
<1>9. \E r : Roots(t, r)'
  <2>1. PICK r : Roots(t, r)
    BY DEF AliveInv, Rooted
  <2>2. /\ r \in [1..n -> Root]
        /\ \A i \in 1..n : Alive(r[i]) /\ Within(walk[t][i], r[i]) /\ Held(t, r, i)
    BY <1>2, <2>1 DEF Roots
  <2>3. r[n] \in Root /\ Alive(r[n]) /\ Within(Call(t), r[n])
    BY <1>3, <2>2
  <2>4. Len(c) \in {0, 1, 2}
    <3>1. Len(c) \in Nat /\ Len(c) <= 2
      BY DEF GoesTo
    <3>2. PICK k \in Nat : k = Len(c) /\ k <= 2
      BY <3>1
    <3>3. k \in {0, 1, 2}
      BY <3>2
    <3> QED  BY <3>2, <3>3
  <2>5. Len(c) >= 1 => Within(c[1], r[n])
    BY <2>3 DEF GoesTo
  <2>6. PICK y : Len(c) = 2 => /\ y \in Root /\ Alive(y) /\ Within(c[2], y)
                              /\ \E b \in Addr : Below(b, r[n]) /\ data[b].ec = y
    BY <2>3 DEF GoesTo
  <2>7. PICK q : q = [i \in 1..(n - 1 + Len(c)) |-> IF i <= n THEN r[i] ELSE y]
    OBVIOUS
  <2>8. \A i \in 1..(n - 1 + Len(c)) :
          /\ i <= n => i \in 1..n /\ q[i] = r[i]
          /\ i > n => i = n + 1 /\ Len(c) = 2 /\ q[i] = y
    <3>1. SUFFICES ASSUME NEW i \in 1..(n - 1 + Len(c))
                   PROVE  /\ i <= n => i \in 1..n /\ q[i] = r[i]
                          /\ i > n => i = n + 1 /\ Len(c) = 2 /\ q[i] = y
      OBVIOUS
    <3>2. q[i] = IF i <= n THEN r[i] ELSE y
      BY <2>7
    <3>0. PICK k \in {0, 1, 2} : k = Len(c)
      BY <2>4
    <3>3. i \in Nat /\ i >= 1 /\ i <= n - 1 + k
      BY <1>3, <3>0
    <3>4. i <= n => i \in 1..n
      BY <1>3, <3>3
    <3>5. i > n => i = n + 1 /\ Len(c) = 2 /\ ~(i <= n)
      <4>1. n \in Nat /\ i \in Nat
        BY <1>3, <3>3
      <4>2. i > n => i = n + 1 /\ k = 2 /\ ~(i <= n)
        BY ONLY <3>3, <4>1, k \in {0, 1, 2}
      <4> QED  BY <3>0, <4>2
    <3> QED  BY <3>2, <3>4, <3>5
  <2>9. q \in [1..Len(walk'[t]) -> Root]
    <3>1. \A i \in 1..(n - 1 + Len(c)) : q[i] \in Root
      <4>1. SUFFICES ASSUME NEW i \in 1..(n - 1 + Len(c)) PROVE q[i] \in Root
        OBVIOUS
      <4>2. i \in Nat /\ n \in Nat
        BY <1>3
      <4>3. CASE i <= n
        BY <2>2, <2>8, <4>3
      <4>4. CASE i > n
        BY <2>6, <2>8, <4>4
      <4> QED  BY <4>2, <4>3, <4>4
    <3>2. q = [i \in 1..(n - 1 + Len(c)) |-> q[i]]
      BY <2>7
    <3> QED  BY <1>3, <3>1, <3>2
  <2>10. ASSUME NEW i \in 1..Len(walk'[t])
         PROVE  Alive(q[i]) /\ Within(walk'[t][i], q[i]) /\ Held(t, q, i)
    <3>1. i \in 1..(n - 1 + Len(c)) /\ i \in Nat
      BY <1>3
    <3>2. CASE i <= n
      <4>1. i \in 1..n /\ q[i] = r[i]
        BY <2>8, <3>1, <3>2
      <4>2. Held(t, q, i)
        <5>1. Held(t, r, i)
          BY <2>2, <4>1
        <5>2. CASE i = 1
          BY <4>1, <5>1, <5>2 DEF Held
        <5>3. CASE i > 1
          <6>1. i - 1 \in 1..(n - 1 + Len(c)) /\ i - 1 <= n
            BY <1>3, <2>4, <3>1, <3>2, <5>3
          <6>2. q[i - 1] = r[i - 1]
            BY <2>8, <6>1
          <6> QED  BY <4>1, <5>1, <5>3, <6>2 DEF Held
        <5> QED  BY <4>1, <5>2, <5>3
      <4>3. CASE i < n
        <5>1. i \in 1..(n - 1)
          BY <1>3, <4>1, <4>3
        <5> QED  BY <1>3, <2>2, <4>1, <4>2, <5>1
      <4>4. CASE i = n
        <5>1. Len(c) >= 1 /\ 1 \in 1..Len(c) /\ n - 1 + 1 = n
          BY <1>3, <2>4, <3>1, <4>4
        <5>2. walk'[t][i] = c[1]
          BY <1>3, <4>4, <5>1
        <5> QED  BY <2>2, <2>5, <4>1, <4>2, <4>4, <5>1, <5>2
      <4> QED  BY <1>3, <3>1, <3>2, <4>3, <4>4
    <3>3. CASE i > n
      <4>1. i = n + 1 /\ Len(c) = 2 /\ q[i] = y
        BY <2>8, <3>1, <3>3
      <4>2. 2 \in 1..Len(c) /\ n - 1 + 2 = i /\ i - 1 = n /\ n \in 1..(n - 1 + Len(c)) /\ i > 1
        BY <1>3, <4>1
      <4>3. walk'[t][i] = c[2] /\ q[i - 1] = r[n]
        <5>1. walk'[t][n - 1 + 2] = c[2]
          BY <1>3, <4>2
        <5>2. q[n] = r[n]
          BY <1>3, <2>8, <4>2
        <5> QED  BY <4>2, <5>1, <5>2
      <4>4. Held(t, q, i)
        BY <2>6, <4>1, <4>2, <4>3 DEF Held
      <4> QED  BY <2>6, <4>1, <4>3, <4>4
    <3> QED  BY <1>3, <3>1, <3>2, <3>3
  <2>11. Roots(t, q)'
    BY <1>5, <2>9, <2>10 DEF Roots, Held, Within, Below
  <2> QED  BY <2>11
<1>10. Rooted'
  BY <1>8, <1>9 DEF Rooted
<1> QED  BY <1>6, <1>7, <1>10 DEF AliveInv

(* Collect goes one entry down the list. *)
LEMMA CollectKeepsAlive ==
  ASSUME AliveInv, NEW t \in Threads, Collect(t)
  PROVE  AliveInv'
<1>1. EcTypeOK
  BY DEF AliveInv
<1>2. PICK cc : cc = Call(t)
  OBVIOUS
<1>3. cc \in Calls
  <2>1. <<>> \in Seq(Calls) /\ walk[t] \in Seq(Calls) /\ walk[t] # <<>> /\ Len(walk[t]) > 0
    BY <1>1 DEF Collect, EcTypeOK
  <2> QED  BY <2>1, <1>2, FrontIs DEF Call
<1>4. PICK c : c = Reversed(cc)
  OBVIOUS
<1>5. PICK a : a = cc.cursor
  OBVIOUS
<1>6. /\ walk[t] # <<>> /\ a # Null /\ WithCall(t, <<c>>)
      /\ UNCHANGED <<head, previous, data, at, handle, stack>>
  BY <1>2, <1>4, <1>5 DEF Collect, Unmoved, memory
<1>7. /\ a \in Addr /\ cc.found \in Seq(Addr)
      /\ c = [cursor |-> previous[a], found |-> <<a>> \o cc.found]
  BY <1>3, <1>4, <1>5, <1>6 DEF Calls, Reversed
<1>8. /\ <<a>> \o cc.found \in Seq(Addr) /\ Len(<<a>> \o cc.found) = 1 + Len(cc.found)
      /\ Len(cc.found) \in Nat
      /\ \A n \in 1..(1 + Len(cc.found)) :
           (<<a>> \o cc.found)[n] = IF n <= 1 THEN a ELSE cc.found[n - 1]
  <2>1. <<a>> \in Seq(Addr) /\ Len(<<a>>) = 1 /\ <<a>>[1] = a /\ Len(cc.found) \in Nat
    BY <1>7
  <2>2. /\ <<a>> \o cc.found \in Seq(Addr)
        /\ Len(<<a>> \o cc.found) = Len(<<a>>) + Len(cc.found)
        /\ \A n \in 1..(Len(<<a>>) + Len(cc.found)) :
             (<<a>> \o cc.found)[n] =
                IF n <= Len(<<a>>) THEN <<a>>[n] ELSE cc.found[n - Len(<<a>>)]
    BY ONLY <1>7, <2>1, ConcatProperties, Zenon
  <2>3. ASSUME NEW n \in 1..(1 + Len(cc.found))
        PROVE  (<<a>> \o cc.found)[n] = IF n <= 1 THEN a ELSE cc.found[n - 1]
    <3>1. n <= 1 => n = 1
      BY <2>1
    <3> QED  BY <2>1, <2>2, <3>1
  <2> QED  BY <2>1, <2>2, <2>3
<1>9. <<c>> \in Seq(Calls) /\ Len(<<c>>) = 1 /\ <<c>>[1] = c
  <2>1. c \in Calls
    BY <1>1, <1>7, <1>8 DEF Calls, EcTypeOK
  <2> QED  BY <2>1
<1>10. ASSUME NEW x \in Root, Alive(x), Within(cc, x)
       PROVE  Within(c, x)
  <2>1. Below(a, x) /\ \A n \in 1..Len(cc.found) : Below(cc.found[n], x)
    BY <1>5, <1>6, <1>10 DEF Within
  <2>2. Alive(a)
    BY <1>1, <1>7, <1>10, <2>1, BelowAlive
  <2>3. PICK u \in Threads, k \in 1..MaxDepth : a = <<u, k>>
    BY <1>7 DEF Addr
  <2>4. k \in 1..Depth(u) /\ Depth(u) \in Nat
    BY <1>1, <2>2, <2>3 DEF Alive, EcTypeOK
  <2>5. previous[a] = IF k = 1 THEN Null ELSE <<u, k - 1>>
    BY <2>3, <2>4 DEF AliveInv, Lists
  <2>6. previous[a] # Null => Below(previous[a], x)
    <3>1. x[2] \in Nat /\ k <= x[2] /\ u = x[1]
      BY <2>1, <2>3 DEF Below, Root
    <3> QED  BY <2>5, <3>1 DEF Below
  <2>7. ASSUME NEW n \in 1..(1 + Len(cc.found))
        PROVE  Below((<<a>> \o cc.found)[n], x)
    <3>1. n > 1 => n - 1 \in 1..Len(cc.found)
      BY <1>8
    <3> QED  BY <1>8, <2>1, <3>1
  <2> QED  BY <1>7, <1>8, <2>6, <2>7 DEF Within
<1>11. GoesTo(Call(t), <<c>>)
  BY <1>2, <1>9, <1>10 DEF GoesTo
<1> QED  BY <1>6, <1>9, <1>11, WalkKeepsAlive

(* Return leaves the calls around it. *)
LEMMA ReturnKeepsAlive ==
  ASSUME AliveInv, NEW t \in Threads, Return(t)
  PROVE  AliveInv'
<1>1. /\ walk[t] # <<>> /\ WithCall(t, <<>>)
      /\ UNCHANGED <<head, previous, data, at, handle, stack>>
  BY DEF Return, Done, Unmoved, memory
<1>2. <<>> \in Seq(Calls) /\ GoesTo(Call(t), <<>>)
  BY DEF GoesTo
<1> QED  BY <1>1, <1>2, WalkKeepsAlive

(* PrintValue takes an entry from those found, and may begin a call at where *)
(* the handle it holds points.                                               *)
LEMMA PrintKeepsAlive ==
  ASSUME AliveInv, NEW t \in Threads, PrintValue(t)
  PROVE  AliveInv'
<1>1. EcTypeOK
  BY DEF AliveInv
<1>2. PICK cc : cc = Call(t)
  OBVIOUS
<1>3. cc \in Calls
  <2>1. walk[t] \in Seq(Calls) /\ walk[t] # <<>> /\ Len(walk[t]) > 0
    BY <1>1 DEF PrintValue, EcTypeOK
  <2> QED  BY <2>1, <1>2, FrontIs DEF Call
<1>4. PICK a : a = Head(cc.found)
  OBVIOUS
<1>5. PICK rest : rest = [cc EXCEPT !.found = Tail(@)]
  OBVIOUS
<1>6. /\ walk[t] # <<>> /\ cc.cursor = Null /\ cc.found # <<>>
      /\ UNCHANGED <<head, previous, data, at, handle, stack>>
      /\ WithCall(t, Nested(a, rest)) \/ walk' = walk
  BY <1>2, <1>4, <1>5 DEF PrintValue, Unmoved, memory
<1>7. /\ cc.found \in Seq(Addr) /\ a = cc.found[1] /\ a \in Addr
      /\ Len(cc.found) \in Nat \ {0}
      /\ Tail(cc.found) \in Seq(Addr) /\ Len(Tail(cc.found)) = Len(cc.found) - 1
      /\ \A n \in 1..(Len(cc.found) - 1) : Tail(cc.found)[n] = cc.found[n + 1]
  <2>1. cc.found \in Seq(Addr) /\ cc.found # <<>>
    BY <1>3, <1>6 DEF Calls
  <2>2. PICK s \in Seq(Addr) : s = cc.found /\ s # <<>>
    BY <2>1
  <2>3. Len(s) \in Nat \ {0} /\ Head(s) = s[1] /\ s[1] \in Addr
    BY <2>2
  <2>4. Tail(s) \in Seq(Addr) /\ Len(Tail(s)) = Len(s) - 1
    BY <2>2, <2>3
  <2>5. \A n \in 1..(Len(s) - 1) : Tail(s)[n] = s[n + 1]
    BY <2>2, <2>3
  <2> QED  BY <1>4, <2>2, <2>3, <2>4, <2>5
<1>8. rest = [cursor |-> Null, found |-> Tail(cc.found)] /\ rest \in Calls
  BY <1>3, <1>5, <1>6, <1>7 DEF Calls
<1>9. ASSUME NEW x \in Root, Alive(x), Within(cc, x)
      PROVE  Within(rest, x) /\ Below(a, x) /\ Alive(a)
  <2>1. \A n \in 1..Len(cc.found) : Below(cc.found[n], x)
    BY <1>9 DEF Within
  <2>2. Below(a, x)
    BY <1>7, <2>1
  <2>3. ASSUME NEW n \in 1..Len(rest.found) PROVE Below(rest.found[n], x)
    <3>1. n + 1 \in 1..Len(cc.found) /\ n \in 1..(Len(cc.found) - 1)
      BY <1>7, <1>8
    <3>2. rest.found[n] = cc.found[n + 1]
      BY <1>7, <1>8, <3>1
    <3> QED  BY <2>1, <3>1, <3>2
  <2>4. rest.cursor = Null
    BY <1>8
  <2> QED  BY <1>1, <1>7, <1>9, <2>2, <2>3, <2>4, BelowAlive DEF Within
<1>10. CASE walk' = walk
  <2>1. \A u : Depth(u)' = Depth(u) /\ Top(u)' = Top(u)
    BY <1>6 DEF Depth, Top
  <2>2. \A b : Alive(b)' = Alive(b) /\ Pinned(b)' = Pinned(b)
    BY <1>6 DEF Alive, Pinned, Depth
  <2>3. EcTypeOK'
    BY <1>1, <1>6, <1>10, <2>1 DEF EcTypeOK
  <2>4. Lists' /\ Pins'
    BY <1>6, <2>1, <2>2 DEF AliveInv, Lists, Pins
  <2>5. Rooted'
    BY <1>6, <1>10, RootedQuiet
  <2> QED  BY <2>3, <2>4, <2>5 DEF AliveInv
<1>11. CASE WithCall(t, <<rest>>)
  <2>1. <<rest>> \in Seq(Calls) /\ Len(<<rest>>) = 1 /\ <<rest>>[1] = rest
    BY <1>8
  <2>2. GoesTo(Call(t), <<rest>>)
    BY <1>2, <1>9, <2>1 DEF GoesTo
  <2> QED  BY <1>6, <1>11, <2>1, <2>2, WalkKeepsAlive
<1>12. CASE data[a].ec # Null /\ WithCall(t, Nested(a, rest))
  <2>1. PICK y : y = data[a].ec
    OBVIOUS
  <2>2. PICK d : d = [cursor |-> y, found |-> <<>>]
    OBVIOUS
  <2>3. y \in Addr
    BY <1>1, <1>7, <1>12, <2>1 DEF EcTypeOK
  <2>4. d \in Calls /\ d.cursor = y /\ d.found = <<>>
    BY <2>2, <2>3 DEF Calls
  <2>5. Nested(a, rest) = <<rest, d>>
    BY <1>12, <2>1, <2>2 DEF Nested
  <2>6. /\ <<rest, d>> \in Seq(Calls) /\ Len(<<rest, d>>) = 2
        /\ <<rest, d>>[1] = rest /\ <<rest, d>>[2] = d
    BY <1>8, <2>4
  <2>7. y \in Root /\ Within(d, y)
    <3>1. y[2] \in Nat
      BY <2>3 DEF Addr
    <3> QED  BY <2>3, <2>4, <3>1 DEF Addr, Root, Within, Below
  <2>8. ASSUME NEW x \in Root, Alive(x), Within(cc, x)
        PROVE  Alive(y) /\ \E b \in Addr : Below(b, x) /\ data[b].ec = y
    BY <1>7, <1>9, <1>12, <2>1, <2>8 DEF AliveInv, Pins
  <2>9. GoesTo(Call(t), <<rest, d>>)
    BY <1>2, <1>9, <2>6, <2>7, <2>8 DEF GoesTo
  <2> QED  BY <1>6, <1>12, <2>5, <2>6, <2>9, WalkKeepsAlive
<1> QED  BY <1>6, <1>10, <1>11, <1>12 DEF Nested

(* At first there are no contexts, no handles and no walks. *)
LEMMA AliveAtInit ==
  ASSUME Init
  PROVE  AliveInv
<1>1. \A t \in Threads : stack[t] = <<>> /\ walk[t] = <<>> /\ at[t] = "run"
  BY DEF Init
<1>2. \A t \in Threads : IsSeq(stack[t]) /\ Depth(t) = 0 /\ Len(walk[t]) = 0
  <2>1. <<>> \in Seq({}) /\ Len(<<>>) = 0
    OBVIOUS
  <2> QED  BY <1>1, <2>1 DEF IsSeq, Depth
<1>3. EcTypeOK
  <2>1. 0 \in 0..MaxDepth
    OBVIOUS
  <2>2. walk \in [Threads -> Seq(Calls)]
    BY DEF Init
  <2>3. at \in [Threads -> {"run", "ctor", "dtor"}]
    BY DEF Init
  <2>4. \A a \in Addr : data[a].ec = Null
    BY DEF Init, NoHandle
  <2>5. \A t \in Threads : handle[t].ec = Null
    BY DEF Init, NoHandle
  <2>6. /\ data = [a \in Addr |-> data[a]] /\ handle = [t \in Threads |-> handle[t]]
        /\ stack = [t \in Threads |-> stack[t]]
    BY DEF Init
  <2>7. head \in [Threads -> Addr \cup {Null}] /\ previous \in [Addr -> Addr \cup {Null}]
    BY DEF Init
  <2> QED  BY <1>2, <2>1, <2>2, <2>3, <2>4, <2>5, <2>6, <2>7 DEF EcTypeOK
<1>4. Lists
  BY <1>2 DEF Lists, Init
<1>5. Pins
  <2>1. \A a \in Addr : data[a].ec = Null
    BY DEF Init, NoHandle
  <2>2. \A t \in Threads : handle[t].ec = Null
    BY DEF Init, NoHandle
  <2> QED  BY <1>1, <2>1, <2>2 DEF Pins
<1>6. Rooted
  <2>1. ASSUME NEW t \in Threads PROVE \E r : Roots(t, r)
    <3>1. PICK r : r = [i \in 1..Len(walk[t]) |-> <<t, 0>>]
      OBVIOUS
    <3>2. r \in [1..Len(walk[t]) -> Root] /\ ~(\E i : i \in 1..Len(walk[t]))
      BY <1>2, <3>1
    <3>3. Roots(t, r)
      BY <3>2 DEF Roots
    <3> QED  BY <3>3
  <2> QED  BY <2>1 DEF Rooted
<1> QED  BY <1>3, <1>4, <1>5, <1>6 DEF AliveInv

(* Where every walk has its roots, it is at entries that are alive. *)
LEMMA RootedReads ==
  ASSUME AliveInv
  PROVE  ReadsAlive
<1>1. EcTypeOK
  BY DEF AliveInv
<1>2. SUFFICES ASSUME NEW t \in Threads, NEW i \in DOMAIN walk[t],
                      NEW a \in {walk[t][i].cursor} \cup Range(walk[t][i].found),
                      a # Null
               PROVE  Alive(a)
  BY DEF ReadsAlive
<1>3. PICK r : Roots(t, r)
  BY DEF AliveInv, Rooted
<1>4. i \in 1..Len(walk[t]) /\ walk[t][i] \in Calls
  <2>1. walk[t] \in Seq(Calls)
    BY <1>1 DEF EcTypeOK
  <2> QED  BY <2>1
<1>5. r[i] \in Root /\ Alive(r[i]) /\ Within(walk[t][i], r[i])
  BY <1>3, <1>4 DEF Roots
<1>6. CASE a = walk[t][i].cursor
  <2>1. a \in Addr /\ Below(a, r[i])
    BY <1>2, <1>4, <1>5, <1>6 DEF Calls, Within
  <2> QED  BY <1>1, <1>5, <2>1, BelowAlive
<1>7. CASE a \in Range(walk[t][i].found)
  <2>1. PICK f \in Seq(Addr) : f = walk[t][i].found
    BY <1>4 DEF Calls
  <2>2. DOMAIN f = 1..Len(f)
    OBVIOUS
  <2>3. PICK n \in 1..Len(f) : a = f[n]
    BY <1>7, <2>1, <2>2 DEF Range
  <2>4. a \in Addr /\ Below(a, r[i])
    BY <1>5, <2>1, <2>3 DEF Within
  <2> QED  BY <1>1, <1>5, <2>4, BelowAlive
<1> QED  BY <1>2, <1>6, <1>7

(* Each thread's list goes through its frames, no handle is left without    *)
(* what it points to, and each walk stays under its roots.                  *)
THEOREM AliveInvariant == Spec => []AliveInv
<1>1. ASSUME AliveInv, Next PROVE AliveInv'
  <2>1. PICK t \in Threads :
          \/ Construct(t) \/ Constructed(t) \/ Destroy(t) \/ Destroyed(t)
          \/ \E u \in Threads : GiveHandle(t, u)
          \/ DropHandle(t) \/ ThreadExit(t)
          \/ GetErrorContext(t) \/ GetErrorContextFor(t)
          \/ Collect(t) \/ PrintValue(t) \/ Return(t)
    BY <1>1 DEF Next, Walks
  <2>2. CASE Construct(t)
    BY <1>1, <2>2, ConstructKeepsAlive
  <2>3. CASE \/ Constructed(t) \/ Destroy(t) \/ DropHandle(t)
             \/ \E u \in Threads : GiveHandle(t, u)
    BY <1>1, <2>3, QuietKeepsAlive
  <2>4. CASE Destroyed(t)
    BY <1>1, <2>4, DestroyedKeepsAlive
  <2>5. CASE ThreadExit(t)
    BY <1>1, <2>5, ExitKeepsAlive
  <2>6. CASE GetErrorContext(t) \/ GetErrorContextFor(t)
    BY <1>1, <2>6, BeginKeepsAlive
  <2>7. CASE Collect(t)
    BY <1>1, <2>7, CollectKeepsAlive
  <2>8. CASE PrintValue(t)
    BY <1>1, <2>8, PrintKeepsAlive
  <2>9. CASE Return(t)
    BY <1>1, <2>9, ReturnKeepsAlive
  <2> QED  BY <2>1, <2>2, <2>3, <2>4, <2>5, <2>6, <2>7, <2>8, <2>9
<1>2. ASSUME AliveInv, UNCHANGED evars PROVE AliveInv'
  <2>1. UNCHANGED <<head, previous, data, handle, at, stack, walk>>
    BY <1>2 DEF evars, memory, walking
  <2>2. \A u : Depth(u)' = Depth(u) /\ Top(u)' = Top(u)
    BY <2>1 DEF Depth, Top
  <2>3. \A b : Alive(b)' = Alive(b) /\ Pinned(b)' = Pinned(b)
    BY <2>1 DEF Alive, Pinned, Depth
  <2>4. EcTypeOK'
    BY <1>2, <2>1, <2>2 DEF AliveInv, EcTypeOK
  <2>5. Lists' /\ Pins'
    BY <1>2, <2>1, <2>2, <2>3 DEF AliveInv, Lists, Pins
  <2>6. Rooted'
    BY <1>2, <2>1, RootedQuiet
  <2> QED  BY <2>4, <2>5, <2>6 DEF AliveInv
<1> QED  BY <1>1, <1>2, AliveAtInit, PTL DEF Spec

(* get_error_context and get_error_context_for take no lock, and yet never  *)
(* follow a pointer to a context whose scope has ended (1759-1785).         *)
THEOREM ReadsAliveCorrect == Spec => []ReadsAlive
<1>1. AliveInv => ReadsAlive
  BY RootedReads
<1> QED  BY <1>1, AliveInvariant, PTL

-----------------------------------------------------------------------------
(* One text after the other: the provers see no further than these facts.   *)
Then(v, w) == v \o w

(* A text and another make a text.                                          *)
LEMMA ThenType ==
  ASSUME NEW S, NEW v \in Seq(S), NEW w \in Seq(S)
  PROVE  Then(v, w) \in Seq(S)
BY ConcatProperties DEF Then

(* The empty text adds nothing.                                             *)
LEMMA ThenEmpty ==
  ASSUME NEW S, NEW v \in Seq(S)
  PROVE  Then(v, <<>>) = v /\ Then(<<>>, v) = v /\ <<>> \in Seq(S)
BY ConcatEmptySeq DEF Then

(* Of three texts it does not matter which two are put together first.      *)
LEMMA ThenAssociative ==
  ASSUME NEW S, NEW v \in Seq(S), NEW w \in Seq(S), NEW z \in Seq(S)
  PROVE  Then(Then(v, w), z) = Then(v, Then(w, z))
BY ConcatAssociative, SMTT(40) DEF Then

(* The same beginning, or the same end, can be taken off.                   *)
LEMMA ThenCancel ==
  ASSUME NEW S, NEW v \in Seq(S), NEW w \in Seq(S), NEW z \in Seq(S)
  PROVE  /\ Then(v, w) = Then(v, z) => w = z
         /\ Then(w, v) = Then(z, v) => w = z
<1>1. v \o w = v \o z => w = z
  BY ConcatSimplifications
<1>2. w \o v = z \o v => w = z
  BY ConcatSimplifications
<1> QED  BY <1>1, <1>2 DEF Then

(* A text is a beginning of what it is continued to.                        *)
LEMMA ThenBegins ==
  ASSUME NEW S, NEW v \in Seq(S), NEW w \in Seq(S)
  PROVE  IsPrefix(v, Then(v, w))
<1>1. /\ Len(v \o w) = Len(v) + Len(w) /\ Len(v) \in Nat /\ Len(w) \in Nat
      /\ v \o w \in Seq(S)
      /\ \A i \in 1..Len(v) : (v \o w)[i] = v[i]
  BY ConcatProperties
<1>2. ASSUME NEW c \in Seq(S), Len(c) >= Len(v), \A i \in 1..Len(v) : c[i] = v[i]
      PROVE  Len(v) <= Len(c) /\ SubSeq(c, 1, Len(v)) = SubSeq(v, 1, Len(v))
  BY <1>2, SMT
<1>3. Len(v) <= Len(v \o w) /\ SubSeq(v \o w, 1, Len(v)) = SubSeq(v, 1, Len(v))
  <2>1. PICK c \in Seq(S) : c = v \o w
    BY <1>1
  <2>2. Len(c) >= Len(v) /\ \A i \in 1..Len(v) : c[i] = v[i]
    BY <1>1, <2>1, SMT
  <2> QED  BY <1>2, <2>1, <2>2
<1> QED  BY <1>3, Zenon DEF IsPrefix, Then

(* To append is to put a text of one entry after it.                        *)
LEMMA ThenAppend ==
  ASSUME NEW S, NEW v \in Seq(S), NEW e \in S
  PROVE  Append(v, e) = Then(v, <<e>>) /\ <<e>> \in Seq(S)
<1>1. Append(v, e) = v \o <<e>>
  BY AppendIsConcat
<1>2. <<e>> \in Seq(S)
  OBVIOUS
<1> QED  BY <1>1, <1>2 DEF Then


-----------------------------------------------------------------------------
Less == {p \in Nat \X Nat : p[1] < p[2]}

(* Induction over numbers up to n, as a fact about sets.                    *)
LEMMA Inductive ==
  ASSUME NEW N \in Nat, NEW T, 0 \in T,
         \A k \in 0..(N - 1) : k \in T => k + 1 \in T
  PROVE  \A k \in 0..N : k \in T
<1> DEFINE U == {k \in 0..N : k \notin T}
<1> SUFFICES ASSUME U # {} PROVE FALSE
  OBVIOUS
<1>1. IsWellFoundedOn(Less, Nat)
  <2>1. IsWellFoundedOn(OpToRel(<, Nat), Nat)
    BY NatLessThanWellFounded
  <2>2. OpToRel(<, Nat) = Less
    BY Zenon DEF OpToRel, Less
  <2> QED  BY <2>1, <2>2, Zenon
<1>2. U \in SUBSET Nat
  BY SMT
<1>3. PICK k \in U : \A m \in U : <<m, k>> \notin Less
  <2> HIDE DEF U
  <2> QED  BY <1>1, <1>2, WFMin
<1>4. k \in 0..N /\ k \notin T /\ k # 0
  OBVIOUS
<1>5. k - 1 \in 0..(N - 1) /\ k - 1 + 1 = k /\ k - 1 \in 0..N /\ k - 1 < k
  BY <1>4, SMT
<1>6. k - 1 \notin T
  BY <1>4, <1>5, Zenon
<1>7. k - 1 \in U
  BY <1>5, <1>6
<1>8. <<k - 1, k>> \in Less
  <2>1. <<k - 1, k>> \in Nat \X Nat /\ <<k - 1, k>>[1] < <<k - 1, k>>[2]
    BY <1>4, <1>5, SMT
  <2> QED  BY <2>1 DEF Less
<1> QED  BY <1>3, <1>7, <1>8

(* The first k members of a sequence.                                       *)
LEMMA Beginning ==
  ASSUME NEW S, NEW s \in Seq(S), NEW k \in 0..Len(s)
  PROVE  /\ SubSeq(s, 1, k) \in Seq(S) /\ Len(SubSeq(s, 1, k)) = k
         /\ \A i \in 1..k : SubSeq(s, 1, k)[i] = s[i]
<1>1. 1 \in Int /\ k \in Int /\ k - 1 + 1 = k /\ Len(s) \in Nat
  BY SMT
<1>2. \A i \in 1..k : s[i] \in S /\ 1 + i - 1 = i
  BY <1>1, SMT
<1>3. /\ SubSeq(s, 1, k) \in Seq(S)
      /\ Len(SubSeq(s, 1, k)) = IF 1 <= k THEN k - 1 + 1 ELSE 0
      /\ \A i \in 1..(k - 1 + 1) : SubSeq(s, 1, k)[i] = s[1 + i - 1]
  BY <1>1, <1>2, SubSeqProperties
<1> QED  BY <1>1, <1>2, <1>3

(***************************************************************************)
(* FlattenSeq.                                                             *)
(***************************************************************************)
Joined(s, f, i)   == IF i = 1 THEN s[i] ELSE f[i - 1] \o s[i]
Flattens(f, s, n) == f = [i \in 1..n |-> Joined(s, f, i)]

(* The recursion of FlattenSeq defines something, whatever the length.     *)
LEMMA FlattenExists ==
  ASSUME NEW n \in Nat, NEW s
  PROVE  \E f : Flattens(f, s, n)
<1> USE DEF Flattens
<1> DEFINE T == {m \in Nat : \E f : Flattens(f, s, m)}
<1>1. 0 \in T
  <2> DEFINE g == [i \in 1..0 |-> <<>>]
  <2>1. Flattens(g, s, 0)
    BY SMT
  <2> QED  BY <2>1
<1>2. ASSUME NEW m \in 0..(n - 1), m \in T PROVE m + 1 \in T
  <2>0. m \in Nat /\ m + 1 \in Nat
    BY SMT
  <2>1. PICK f : Flattens(f, s, m)
    BY <1>2
  <2> DEFINE g == [i \in 1..(m + 1) |-> Joined(s, f, i)]
  <2>2. ASSUME NEW i \in 1..m PROVE g[i] = f[i]
    <3>1. i \in 1..(m + 1)
      BY <2>0, SMT
    <3>2. f[i] = Joined(s, f, i)
      BY <2>1, Zenon
    <3> QED  BY <3>1, <3>2, Zenon
  <2>3. ASSUME NEW i \in 1..(m + 1) PROVE Joined(s, f, i) = Joined(s, g, i)
    <3>1. i # 1 => i - 1 \in 1..m
      BY <2>0, SMT
    <3> HIDE DEF g
    <3> QED  BY <2>2, <3>1, Zenon DEF Joined
  <2>4. g = [i \in 1..(m + 1) |-> Joined(s, g, i)]
    BY <2>3, Zenon
  <2>5. \E h : Flattens(h, s, m + 1)
    BY <2>4, Zenon
  <2> QED  BY <2>0, <2>5
<1>3. \A m \in 0..n : m \in T
  <2> HIDE DEF T
  <2> QED  BY <1>1, <1>2, Inductive
<1> QED  BY <1>3, SMT

(* The value there is decided by the members up to there.                   *)
LEMMA FlattenSame ==
  ASSUME NEW m \in Nat, NEW n \in Nat, NEW s, NEW z, NEW f, NEW g,
         Flattens(f, s, m), Flattens(g, z, n),
         NEW k \in Nat, k <= m, k <= n, \A i \in 1..k : s[i] = z[i]
  PROVE  \A i \in 1..k : f[i] = g[i]
<1> DEFINE T == {0} \cup {i \in 1..k : f[i] = g[i]}
<1>1. ASSUME NEW j \in 0..(k - 1), j \in T PROVE j + 1 \in T
  <2>1. j + 1 \in 1..k /\ j + 1 \in 1..m /\ j + 1 \in 1..n /\ (j + 1 # 1 => j \in 1..k)
        /\ j + 1 - 1 = j /\ (j \in 1..k => j # 0)
    BY SMT
  <2>2. PICK e : e = j + 1
    OBVIOUS
  <2>3. f[e] = Joined(s, f, e) /\ g[e] = Joined(z, g, e)
    BY <2>1, <2>2, Zenon DEF Flattens
  <2>4. e # 1 => f[e - 1] = g[e - 1]
    BY <1>1, <2>1, <2>2
  <2>5. s[e] = z[e]
    BY <2>1, <2>2
  <2>6. f[e] = g[e]
    BY <2>3, <2>4, <2>5, Zenon DEF Joined
  <2> QED  BY <2>1, <2>2, <2>6
<1>2. \A i \in 0..k : i \in T
  <2>1. 0 \in T
    OBVIOUS
  <2> HIDE DEF T
  <2> QED  BY <1>1, <2>1, Inductive
<1>3. ASSUME NEW i \in 1..k PROVE f[i] = g[i]
  <2>1. i \in 0..k /\ i # 0
    BY SMT
  <2> QED  BY <1>2, <2>1
<1> QED  BY <1>3

(* FlattenSeq is the last value of such a function.                         *)
LEMMA FlattenIs ==
  ASSUME NEW S, NEW s \in Seq(S), Len(s) # 0
  PROVE  \E f : Flattens(f, s, Len(s)) /\ FlattenSeq(s) = f[Len(s)]
<1> DEFINE Good(f) == f = [i \in 1..Len(s) |-> IF i = 1 THEN s[i] ELSE f[i - 1] \o s[i]]
           c == CHOOSE f : Good(f)
<1>0. Len(s) \in Nat
  OBVIOUS
<1>1. \E f : Good(f)
  <2>1. PICK f : Flattens(f, s, Len(s))
    BY <1>0, FlattenExists
  <2>2. Good(f)
    BY <2>1, Zenon DEF Joined, Flattens
  <2> QED  BY <2>2
<1>2. Good(c)
  BY <1>1, Zenon
<1>3. FlattenSeq(s) = c[Len(s)]
  BY Zenon DEF FlattenSeq
<1>4. Flattens(c, s, Len(s))
  BY <1>2, Zenon DEF Joined, Flattens
<1> QED  BY <1>3, <1>4, Zenon

(* The text of the first k of the words s.                                  *)
UpTo(s, k) == Text(SubSeq(s, 1, k))

(* What it makes of the first k members and of one more.                    *)
LEMMA FlattenOneMore ==
  ASSUME NEW S, NEW s, s \in Seq(Seq(S)), NEW k \in 1..Len(s),
         UpTo(s, k - 1) \in Seq(S)
  PROVE  UpTo(s, k) = Then(UpTo(s, k - 1), s[k])
<1>0. PICK p, e : p = UpTo(s, k - 1) /\ e = s[k] /\ e \in Seq(S)
  OBVIOUS
<1>1. PICK a, b : a = SubSeq(s, 1, k) /\ b = SubSeq(s, 1, k - 1)
  OBVIOUS
<1>2. k \in Nat /\ k - 1 \in Nat
  BY SMT
<1>3. /\ a \in Seq(Seq(S)) /\ Len(a) = k /\ \A i \in 1..k : a[i] = s[i]
      /\ b \in Seq(Seq(S)) /\ Len(b) = k - 1 /\ \A i \in 1..(k - 1) : b[i] = s[i]
  <2>1. k \in 0..Len(s) /\ k - 1 \in 0..Len(s)
    BY SMT
  <2> QED  BY <1>1, <2>1, Beginning
<1>4. PICK f : Flattens(f, a, k) /\ Text(a) = f[k]
  BY <1>2, <1>3, FlattenIs, k # 0 DEF Text
<1>5. p = Text(b) /\ UpTo(s, k) = Text(a)
  BY <1>0, <1>1, Zenon DEF UpTo
<1>6. CASE k = 1
  <2>1. Text(a) = e
    <3>1. 1 \in 1..k
      BY <1>2, <1>6, SMT
    <3>2. f[1] = a[1]
      BY <1>4, <3>1, Zenon DEF Joined, Flattens
    <3> QED  BY <1>0, <1>3, <1>4, <1>6, <3>1, <3>2
  <2>2. Text(b) = <<>>
    <3>1. Len(b) = 0 /\ b = <<>>
      BY <1>3, <1>6, SMT
    <3> QED  BY <3>1, Zenon DEF Text, FlattenSeq
  <2>3. Then(<<>>, e) = e
    BY <1>0, ThenEmpty, Zenon
  <2> QED  BY <1>0, <1>5, <2>1, <2>2, <2>3, Zenon
<1>7. CASE k # 1
  <2>1. k \in 1..k /\ k - 1 # 0 /\ k - 1 \in 1..(k - 1) /\ k - 1 <= k /\ k - 1 <= k - 1
        /\ 1..(k - 1) \subseteq 1..k
    BY <1>2, <1>7, SMT
  <2>2. f[k] = f[k - 1] \o a[k]
    BY <1>4, <1>7, <2>1, Zenon DEF Joined, Flattens
  <2>3. PICK g : Flattens(g, b, k - 1) /\ Text(b) = g[k - 1]
    BY <1>3, <2>1, FlattenIs DEF Text
  <2>4. \A i \in 1..(k - 1) : a[i] = b[i]
    BY <1>3, <2>1
  <2>5. f[k - 1] = g[k - 1]
    <3>0. PICK j : j = k - 1
      OBVIOUS
    <3>1. /\ Flattens(f, a, k) /\ Flattens(g, b, j) /\ \A i \in 1..j : a[i] = b[i]
          /\ k \in Nat /\ j \in Nat /\ j <= k /\ j <= j
      BY <1>2, <1>4, <2>1, <2>3, <2>4, <3>0
    <3>2. \A i \in 1..j : f[i] = g[i]
      BY ONLY <3>1, FlattenSame
    <3> QED  BY <2>1, <3>0, <3>2
  <2>6. f[k - 1] = p
    BY <1>5, <2>3, <2>5, Zenon
  <2>7. a[k] = e
    BY <1>0, <1>3, <2>1, Zenon
  <2> QED  BY <1>0, <1>4, <1>5, <2>2, <2>6, <2>7, Zenon DEF Then
<1> QED  BY <1>6, <1>7

(* A text of words is a text.                                               *)
LEMMA FlattenType ==
  ASSUME NEW S, NEW s, s \in Seq(Seq(S)), NEW k \in 0..Len(s)
  PROVE  UpTo(s, k) \in Seq(S) /\ UpTo(s, 0) = <<>>
<1> DEFINE T == {n \in 0..Len(s) : UpTo(s, n) \in Seq(S)}
<1>0. Len(s) \in Nat
  OBVIOUS
<1>a. UpTo(s, 0) = <<>>
  <2>1. SubSeq(s, 1, 0) = <<>>
    BY SubSeqEmpty, SMT
  <2> QED  BY <2>1, Len(<<>>) = 0, Zenon DEF UpTo, Text, FlattenSeq
<1>1. 0 \in T
  <2>1. 0 \in 0..Len(s) /\ <<>> \in Seq(S)
    BY <1>0
  <2> QED  BY <1>a, <2>1
<1>2. ASSUME NEW n \in 0..(Len(s) - 1), n \in T PROVE n + 1 \in T
  <2>1. n + 1 \in 1..Len(s) /\ n + 1 \in 0..Len(s) /\ n + 1 - 1 = n
    BY <1>0, SMT
  <2>2. PICK j : j = n + 1
    OBVIOUS
  <2>3. j \in 1..Len(s) /\ UpTo(s, j - 1) \in Seq(S) /\ s[j] \in Seq(S)
    BY <1>2, <2>1, <2>2
  <2>4. UpTo(s, j) = Then(UpTo(s, j - 1), s[j])
    BY <2>3, FlattenOneMore, Zenon
  <2>5. UpTo(s, j) \in Seq(S)
    BY <2>3, <2>4, ThenType, Zenon
  <2> QED  BY <2>1, <2>2, <2>5
<1>3. \A n \in 0..Len(s) : n \in T
  <2> HIDE DEF T
  <2> QED  BY <1>0, <1>1, <1>2, Inductive
<1> QED  BY <1>a, <1>3

(* What is left of a text after the first k words.                          *)
LEMMA FlattenGrows ==
  ASSUME NEW S, NEW s, s \in Seq(Seq(S)), NEW k \in 0..Len(s), NEW m \in k..Len(s)
  PROVE  \E w \in Seq(S) : UpTo(s, m) = Then(UpTo(s, k), w)
<1> DEFINE T == {n \in 0..(Len(s) - k) : \E w \in Seq(S) : UpTo(s, k + n) = Then(UpTo(s, k), w)}
<1>0. /\ Len(s) \in Nat /\ Len(s) - k \in Nat
      /\ m - k \in 0..(Len(s) - k) /\ k + (m - k) = m
  BY SMT
<1>a. UpTo(s, k) \in Seq(S)
  BY FlattenType
<1>1. 0 \in T
  <2>1. 0 \in 0..(Len(s) - k) /\ k + 0 = k
    BY <1>0, SMT
  <2>2. UpTo(s, k) = Then(UpTo(s, k), <<>>) /\ <<>> \in Seq(S)
    BY <1>a, ThenEmpty
  <2> QED  BY <2>1, <2>2
<1>2. ASSUME NEW n \in 0..(Len(s) - k - 1), n \in T PROVE n + 1 \in T
  <2> HIDE DEF T
  <2>1. PICK j : j = k + n + 1
    OBVIOUS
  <2>2. /\ j \in 1..Len(s) /\ n + 1 \in 0..(Len(s) - k) /\ j - 1 = k + n
        /\ k + (n + 1) = j /\ k + n \in 0..Len(s)
    <3>1. Len(s) \in Nat /\ k \in 0..Len(s) /\ n \in 0..(Len(s) - k - 1)
      BY <1>0
    <3> QED  BY ONLY <2>1, <3>1, SMT
  <2>3. UpTo(s, k + n) \in Seq(S)
    BY <2>2, FlattenType
  <2>4. s[j] \in Seq(S)
    BY <2>2, SMTT(40)
  <2>5. PICK w \in Seq(S) : UpTo(s, k + n) = Then(UpTo(s, k), w)
    BY <1>2 DEF T
  <2>6. UpTo(s, j) = Then(UpTo(s, k + n), s[j])
    <3>1. UpTo(s, k + n) = UpTo(s, j - 1)
      BY <2>2, Zenon
    <3>2. UpTo(s, j - 1) \in Seq(S)
      BY <2>3, <3>1, Zenon
    <3> QED  BY <2>2, <3>1, <3>2, FlattenOneMore, Zenon
  <2>7. UpTo(s, j) = Then(UpTo(s, k), Then(w, s[j]))
    <3>1. PICK a, e : a = UpTo(s, k) /\ e = s[j] /\ a \in Seq(S) /\ e \in Seq(S)
      BY <1>a, <2>4
    <3>2. Then(Then(a, w), e) = Then(a, Then(w, e))
      BY ONLY ThenAssociative, <2>5, <3>1, SMT
    <3> QED  BY <2>5, <2>6, <3>1, <3>2, Zenon
  <2>8. Then(w, s[j]) \in Seq(S)
    BY <2>4, ThenType, Zenon
  <2>9. \E v \in Seq(S) : UpTo(s, k + (n + 1)) = Then(UpTo(s, k), v)
    BY <2>2, <2>7, <2>8, Zenon
  <2> QED  BY <2>2, <2>9 DEF T
<1>3. \A n \in 0..(Len(s) - k) : n \in T
  <2>1. Len(s) - k - 1 = (Len(s) - k) - 1
    BY <1>0, SMT
  <2> HIDE DEF T
  <2> QED  BY <1>0, <1>1, <1>2, <2>1, Inductive
<1>4. \E w \in Seq(S) : UpTo(s, k + (m - k)) = Then(UpTo(s, k), w)
  BY <1>0, <1>3
<1> QED  BY <1>0, <1>4, Zenon


-----------------------------------------------------------------------------
(* The text of the first k contexts of a thread, and of those a pointer into *)
(* a thread's list stands for.                                               *)
Prefix(u, k) == UpTo(stack[u], k)
ListText(ec) == IF ec = Null THEN <<>> ELSE Prefix(ec[1], ec[2])

TextTypes ==
  /\ number = [a \in Addr |-> number[a]] /\ \A a \in Addr : number[a] \in Nat
  /\ made \in Nat
  /\ data \in [Addr -> [ec : Addr \cup {Null}, text : Seq(Nat)]]
  /\ handle \in [Threads -> [ec : Addr \cup {Null}, text : Seq(Nat)]]
  /\ stack \in [Threads -> Seq(Seq(Nat))]
  /\ printed \in [Threads -> Seq(Nat)]
  /\ asked \in [Threads -> Seq(Nat)]

(* A handle still stands for the text it was taken for, and a context for   *)
(* its own entry followed by that of the handle it holds.                   *)
TextInv ==
  /\ TextTypes
  /\ \A t \in Threads : handle[t].text = ListText(handle[t].ec)
  /\ \A a \in Addr : Alive(a) =>
       /\ stack[a[1]][a[2]] = Then(<<number[a]>>, data[a].text)
       /\ data[a].text = ListText(data[a].ec)

(* Only the newest context of a thread can be without its derived part, and *)
(* then nothing points to it.                                               *)
WholeInv ==
  /\ \A a \in Addr : Alive(a) =>
       a \in whole \/ \E t \in Threads : at[t] # "run" /\ a = Top(t)
  /\ \A t \in Threads : at[t] # "run" => ~Pinned(Top(t))

(***************************************************************************)
(* A call that began at x has found the last of x's contexts, down to where *)
(* its cursor is or, when it prints, to what is left; w is the text it will *)
(* still print.                                                            *)
(***************************************************************************)
Left(c, x) == IF c.cursor = Null THEN x[2] - Len(c.found) ELSE 0
Goes(c, x, w) ==
  /\ Len(c.found) <= x[2]
  /\ \A k \in 1..Len(c.found) : c.found[k] = <<x[1], x[2] - Len(c.found) + k>>
  /\ c.cursor # Null => c.cursor = <<x[1], x[2] - Len(c.found)>>
  /\ Prefix(x[1], x[2]) = Then(Prefix(x[1], Left(c, x)), w)

(* Where call i began: at the handle of the thread, at the newest context   *)
(* of its own, or where a context of the call around it points.             *)
Holder(t, r, i) ==
  \/ i = 1 /\ (r[1] = handle[t].ec \/ r[1] = Top(t))
  \/ i > 1 /\ \E b \in Addr : Below(b, r[i - 1]) /\ data[b].ec = r[i]

(* The calls wk of a thread, each with its root, what it will print, and    *)
(* what it and those around it will.                                        *)
Frames(t, wk, r, y, q) ==
  /\ q[0] = <<>> /\ <<>> \in Seq(Nat)
  /\ \A i \in 1..Len(wk) :
       /\ r[i] \in Root /\ Alive(r[i]) /\ Holder(t, r, i)
       /\ y[i] \in Seq(Nat) /\ Goes(wk[i], r[i], y[i])
       /\ q[i] \in Seq(Nat) /\ q[i] = Then(y[i], q[i - 1])

(* What was asked for is what is printed and what the calls will print.     *)
Printing(t, wk, p, a) ==
  IF Len(wk) = 0 THEN p = <<>> /\ a = <<>>
  ELSE \E r, y, q : /\ Frames(t, wk, r, y, q)
                    /\ a = Prefix(r[1][1], r[1][2])
                    /\ a = Then(p, q[Len(wk)])

PrintInv == \A t \in Threads : Printing(t, walk[t], printed[t], asked[t])

(* Where a call inside n others may begin.                                  *)
MayBegin(t, r, n, x) ==
  IF n = 0 THEN x = handle[t].ec \/ x = Top(t)
  ELSE \E b \in Addr : Below(b, r[n]) /\ data[b].ec = x

(* The innermost call of a thread becomes another one, at the same root:    *)
(* the calls around it keep their roots and what they will print.           *)
LEMMA FrameReplaced ==
  ASSUME NEW t, NEW wk, NEW r, NEW y, NEW q, Frames(t, wk, r, y, q),
         NEW n \in Nat, n = Len(wk), n > 0, NEW z, Len(z) = n,
         \A i \in 1..(n - 1) : z[i] = wk[i],
         NEW w \in Seq(Nat), Goes(z[n], r[n], w)
  PROVE  \E v, p : /\ Frames(t, z, r, v, p)
                   /\ p[n] = Then(w, q[n - 1])
<1> DEFINE v == [i \in 1..n |-> IF i = n THEN w ELSE y[i]]
           p == [i \in 0..n |-> IF i = n THEN Then(w, q[n - 1]) ELSE q[i]]
<1>1. q[n - 1] \in Seq(Nat)
  <2>1. CASE n = 1
    <3>1. n - 1 = 0
      BY <2>1
    <3> QED  BY <3>1, Zenon DEF Frames
  <2>2. CASE n # 1
    <3>1. n - 1 \in 1..n
      BY <2>2, SMT
    <3> QED  BY <3>1 DEF Frames
  <2> QED  BY <2>1, <2>2
<1>2. Then(w, q[n - 1]) \in Seq(Nat)
  BY <1>1, ThenType
<1>3. ASSUME NEW i \in 1..n
      PROVE  /\ v[i] \in Seq(Nat) /\ Goes(z[i], r[i], v[i])
             /\ p[i] \in Seq(Nat) /\ p[i] = Then(v[i], p[i - 1])
  <2>1. /\ i \in 0..n /\ i - 1 \in 0..n /\ i - 1 # n /\ p[i - 1] = q[i - 1]
    BY SMT
  <2>2. CASE i = n
    BY <1>2, <2>1, <2>2
  <2>3. CASE i # n
    <3>1. i \in 1..(n - 1) /\ v[i] = y[i] /\ p[i] = q[i]
      BY <2>1, <2>3, SMT
    <3> HIDE DEF v, p
    <3> QED  BY <2>1, <3>1, Zenon DEF Frames
  <2> QED  BY <2>2, <2>3
<1>4. p[0] = <<>> /\ <<>> \in Seq(Nat) /\ p[n] = Then(w, q[n - 1])
  <2>1. 0 \in 0..n /\ n \in 0..n /\ 0 # n
    BY SMT
  <2> QED  BY <2>1, Zenon DEF Frames
<1> HIDE DEF v, p
<1>5. Frames(t, z, r, v, p)
  BY <1>3, <1>4, Zenon DEF Frames
<1> QED  BY <1>4, <1>5

(* z is the calls wk, n of them, and one more at x that will print w.       *)
Enters(t, wk, r, y, q, n, z, x, w) ==
  /\ Frames(t, wk, r, y, q) /\ n \in Nat /\ n = Len(wk) /\ Len(z) = n + 1
  /\ \A i \in 1..n : z[i] = wk[i]
  /\ q[n] \in Seq(Nat) /\ x \in Root /\ Alive(x) /\ w \in Seq(Nat)
  /\ Goes(z[n + 1], x, w) /\ MayBegin(t, r, n, x)
(* It has its root at x, and the first of the calls keeps its own.          *)
Entered(t, r, q, n, z, x, w) ==
  \E s, v, p : /\ Frames(t, z, s, v, p)
               /\ p[n + 1] = Then(w, q[n])
               /\ s[n + 1] = x /\ (n > 0 => s[1] = r[1])

(* A call that begins inside all others, at x: they keep their roots and    *)
(* what they will print, and it prints its own text first.                  *)
LEMMA FramePushed ==
  ASSUME NEW t, NEW wk, NEW r, NEW y, NEW q, NEW n, NEW z, NEW x, NEW w,
         Enters(t, wk, r, y, q, n, z, x, w)
  PROVE  Entered(t, r, q, n, z, x, w)
<1>0. /\ Frames(t, wk, r, y, q) /\ n \in Nat /\ n = Len(wk) /\ Len(z) = n + 1
      /\ \A i \in 1..n : z[i] = wk[i]
      /\ q[n] \in Seq(Nat) /\ x \in Root /\ Alive(x) /\ w \in Seq(Nat)
      /\ Goes(z[n + 1], x, w) /\ MayBegin(t, r, n, x)
  BY Zenon DEF Enters
<1> DEFINE s == [i \in 1..(n + 1) |-> IF i = n + 1 THEN x ELSE r[i]]
           v == [i \in 1..(n + 1) |-> IF i = n + 1 THEN w ELSE y[i]]
           p == [i \in 0..(n + 1) |-> IF i = n + 1 THEN Then(w, q[n]) ELSE q[i]]
<1>1. Then(w, q[n]) \in Seq(Nat)
  BY <1>0, ThenType
<1>2. ASSUME NEW i \in 1..n
      PROVE  /\ s[i] = r[i] /\ v[i] = y[i] /\ p[i] = q[i] /\ p[i - 1] = q[i - 1]
             /\ i > 1 => s[i - 1] = r[i - 1]
  <2>1. /\ i \in 1..(n + 1) /\ i \in 0..(n + 1) /\ i - 1 \in 0..(n + 1)
        /\ i # n + 1 /\ i - 1 # n + 1 /\ (i > 1 => i - 1 \in 1..(n + 1))
    BY <1>0, SMT
  <2> QED  BY <1>0, <2>1, Zenon
<1>3. s[n + 1] = x /\ v[n + 1] = w /\ p[n + 1] = Then(w, q[n]) /\ p[n] = q[n] /\ (n > 0 => s[n] = r[n])
  <2>1. n + 1 \in 1..(n + 1) /\ n + 1 \in 0..(n + 1) /\ n \in 0..(n + 1) /\ n # n + 1
        /\ (n > 0 => n \in 1..(n + 1))
    BY <1>0, SMT
  <2> QED  BY <1>0, <2>1, Zenon
<1>4. p[0] = <<>> /\ <<>> \in Seq(Nat)
  <2>1. 0 \in 0..(n + 1) /\ 0 # n + 1
    BY <1>0, SMT
  <2> QED  BY <1>0, <2>1, Zenon DEF Frames
<1>5. n > 0 => s[1] = r[1]
  <2>1. n > 0 => 1 \in 1..(n + 1) /\ 1 # n + 1
    BY <1>0, SMT
  <2> QED  BY <1>0, <2>1, Zenon
<1> HIDE DEF s, v, p
<1>6. ASSUME NEW i \in 1..n
      PROVE  /\ s[i] \in Root /\ Alive(s[i]) /\ Holder(t, s, i)
             /\ v[i] \in Seq(Nat) /\ Goes(z[i], s[i], v[i])
             /\ p[i] \in Seq(Nat) /\ p[i] = Then(v[i], p[i - 1])
  <2>1. /\ r[i] \in Root /\ Alive(r[i]) /\ Holder(t, r, i)
        /\ y[i] \in Seq(Nat) /\ Goes(wk[i], r[i], y[i])
        /\ q[i] \in Seq(Nat) /\ q[i] = Then(y[i], q[i - 1])
    BY <1>0, Zenon DEF Frames
  <2>2. Holder(t, s, i)
    <3>1. CASE i = 1
      <4>1. s[1] = r[1]
        BY <1>0, <1>2, <3>1, Zenon
      <4>2. r[1] = handle[t].ec \/ r[1] = Top(t)
        BY <1>0, <2>1, <3>1, SMT DEF Holder
      <4> QED  BY <1>0, <3>1, <4>1, <4>2, Zenon DEF Holder
    <3>2. CASE i > 1
      BY <1>0, <1>2, <2>1, <3>2, SMT DEF Holder
    <3> QED  BY <1>0, <3>1, <3>2, SMT
  <2> QED  BY <1>0, <1>2, <2>1, <2>2, Zenon
<1>7. Holder(t, s, n + 1)
  <2>1. CASE n = 0
    <3>1. n + 1 = 1
      BY <1>0, <2>1, SMT
    <3> QED  BY <1>0, <1>3, <2>1, <3>1, Zenon DEF Holder, MayBegin
  <2>2. CASE n > 0
    <3>1. PICK b \in Addr : Below(b, r[n]) /\ data[b].ec = x
      BY <1>0, <2>2 DEF MayBegin
    <3>2. PICK j : j = n + 1
      OBVIOUS
    <3>3. j > 1 /\ \E c \in Addr : Below(c, s[j - 1]) /\ data[c].ec = s[j]
      <4>1. j - 1 = n /\ j > 1
        BY <1>0, <2>2, <3>2, SMT
      <4>2. s[j - 1] = r[n] /\ s[j] = x
        BY <1>0, <1>3, <2>2, <3>2, <4>1, Zenon
      <4>3. Below(b, s[j - 1]) /\ data[b].ec = s[j]
        BY <1>0, <3>1, <4>2, Zenon
      <4> QED  BY <1>0, <4>1, <4>3, Zenon
    <3>4. Holder(t, s, j)
      BY <1>0, <3>3, Zenon DEF Holder
    <3> QED  BY <1>0, <3>2, <3>4, Zenon
  <2> QED  BY <1>0, <2>1, <2>2, SMT
<1>8. ASSUME NEW i \in 1..(n + 1)
      PROVE  /\ s[i] \in Root /\ Alive(s[i]) /\ Holder(t, s, i)
             /\ v[i] \in Seq(Nat) /\ Goes(z[i], s[i], v[i])
             /\ p[i] \in Seq(Nat) /\ p[i] = Then(v[i], p[i - 1])
  <2>1. CASE i = n + 1
    <3>1. i - 1 = n
      BY <1>0, <2>1, SMT
    <3>2. s[i] = x /\ v[i] = w /\ p[i] = Then(w, q[n]) /\ p[i - 1] = q[n]
      BY <1>0, <1>3, <2>1, <3>1, Zenon
    <3>3. Goes(z[i], x, w) /\ Holder(t, s, i)
      BY <1>0, <1>7, <2>1, Zenon
    <3> QED  BY <1>0, <1>1, <3>2, <3>3, Zenon
  <2>2. CASE i # n + 1
    <3>1. i \in 1..n
      BY <1>0, <2>2, SMT
    <3> QED  BY <1>0, <1>6, <3>1, Zenon
  <2> QED  BY <1>0, <2>1, <2>2
<1>9. Frames(t, z, s, v, p)
  BY <1>0, <1>4, <1>8, Zenon DEF Frames
<1> QED  BY <1>3, <1>5, <1>9, Zenon DEF Entered

(* The innermost calls return: those around them are as they were.          *)
LEMMA FramePopped ==
  ASSUME NEW t, NEW wk, NEW r, NEW y, NEW q, Frames(t, wk, r, y, q),
         NEW n \in Nat, n <= Len(wk), Len(wk) \in Nat, NEW z, Len(z) = n,
         \A i \in 1..n : z[i] = wk[i]
  PROVE  Frames(t, z, r, y, q)
<1>1. 1..n \subseteq 1..Len(wk)
  BY SMT
<1> QED  BY <1>1, Zenon DEF Frames

(* The root of a call is pinned, or the newest of the thread's own.         *)
LEMMA RootPinned ==
  ASSUME AliveInv, NEW t \in Threads, NEW wk, Len(wk) \in Nat,
         NEW r, NEW y, NEW q, Frames(t, wk, r, y, q), NEW i \in 1..Len(wk)
  PROVE  Pinned(r[i]) \/ (i = 1 /\ r[i] = Top(t))
<1>1. CASE i = 1
  BY <1>1, SMT DEF Frames, Holder, Pinned
<1>2. CASE i # 1
  <2>1. i - 1 \in 1..Len(wk) /\ i > 1
    BY <1>2, SMT
  <2>2. PICK b \in Addr : Below(b, r[i - 1]) /\ data[b].ec = r[i]
    BY <2>1, <1>2, Zenon DEF Frames, Holder
  <2>3. r[i - 1] \in Root /\ Alive(r[i - 1])
    BY <2>1, Zenon DEF Frames
  <2>4. Alive(b)
    BY <2>2, <2>3, BelowAlive DEF AliveInv
  <2> QED  BY <2>2, <2>4, Zenon DEF Pinned
<1> QED  BY <1>1, <1>2

-----------------------------------------------------------------------------
(* The first contexts of a thread, where they stay, have the same text.     *)
LEMMA PrefixKept ==
  ASSUME NEW u, stack[u] \in Seq(Seq(Nat)), stack'[u] \in Seq(Seq(Nat)),
         NEW k \in Nat, k <= Len(stack[u]), k <= Len(stack'[u]),
         \A i \in 1..k : stack'[u][i] = stack[u][i]
  PROVE  /\ Prefix(u, k)' = Prefix(u, k)
         /\ Prefix(u, k) \in Seq(Nat)
<1>1. PICK s \in Seq(Seq(Nat)), z \in Seq(Seq(Nat)) : s = stack[u] /\ z = stack'[u]
  OBVIOUS
<1>2. /\ SubSeq(s, 1, k) \in Seq(Seq(Nat)) /\ SubSeq(z, 1, k) \in Seq(Seq(Nat))
      /\ Len(SubSeq(s, 1, k)) = k /\ Len(SubSeq(z, 1, k)) = k
      /\ \A i \in 1..k : SubSeq(s, 1, k)[i] = s[i] /\ SubSeq(z, 1, k)[i] = z[i]
  <2>1. k \in 0..Len(s) /\ k \in 0..Len(z)
    BY <1>1
  <2>2. /\ SubSeq(s, 1, k) \in Seq(Seq(Nat)) /\ Len(SubSeq(s, 1, k)) = k
        /\ \A i \in 1..k : SubSeq(s, 1, k)[i] = s[i]
    BY <2>1, Beginning
  <2>3. /\ SubSeq(z, 1, k) \in Seq(Seq(Nat)) /\ Len(SubSeq(z, 1, k)) = k
        /\ \A i \in 1..k : SubSeq(z, 1, k)[i] = z[i]
    BY <2>1, Beginning
  <2> QED  BY <2>2, <2>3
<1>3. SubSeq(s, 1, k) = SubSeq(z, 1, k)
  <2>1. PICK a \in Seq(Seq(Nat)), b \in Seq(Seq(Nat)) : a = SubSeq(s, 1, k) /\ b = SubSeq(z, 1, k)
    BY <1>2
  <2>2. Len(a) = Len(b) /\ \A i \in 1..Len(a) : a[i] = b[i]
    BY <1>1, <1>2, <2>1
  <2>3. a = b
    BY <2>2, SeqEqual
  <2> QED  BY <2>1, <2>3
<1>4. UpTo(s, k) \in Seq(Nat)
  <2>1. k \in 0..Len(s)
    BY <1>1, SMT
  <2> QED  BY <2>1, FlattenType
<1> QED  BY <1>1, <1>3, <1>4, Zenon DEF Prefix, UpTo

(* A text of contexts that are there is a text.                             *)
LEMMA PrefixType ==
  ASSUME NEW u, stack[u] \in Seq(Seq(Nat)), NEW k \in 0..Len(stack[u])
  PROVE  Prefix(u, k) \in Seq(Nat)
BY FlattenType DEF Prefix

(* The walk of a thread for which nothing changes that it depends on.       *)
LEMMA PrintingKept ==
  ASSUME AliveInv, NEW t \in Threads, NEW wk \in Seq(Calls), NEW p, NEW a,
         Printing(t, wk, p, a),
         wk # <<>> =>
           /\ handle'[t] = handle[t] /\ Top(t)' = Top(t)
           /\ \A x \in Root : Alive(x) /\ (Pinned(x) \/ x = Top(t)) => Alive(x)',
         \A b \in Addr : Alive(b) => data'[b] = data[b],
         \A x \in Root : \A k \in 0..x[2] :
           Alive(x) /\ Alive(x)' => Prefix(x[1], k)' = Prefix(x[1], k)
  PROVE  Printing(t, wk, p, a)'
<1>0. Len(wk) \in Nat
  OBVIOUS
<1>1. CASE Len(wk) = 0
  BY <1>1 DEF Printing
<1>2. CASE Len(wk) # 0
  <2>0. wk # <<>> /\ 1 \in 1..Len(wk)
    BY <1>0, <1>2, SMT
  <2>1. PICK r, y, q : /\ Frames(t, wk, r, y, q)
                       /\ a = Prefix(r[1][1], r[1][2])
                       /\ a = Then(p, q[Len(wk)])
    BY <1>2 DEF Printing
  <2>2. ASSUME NEW i \in 1..Len(wk)
        PROVE  /\ r[i] \in Root /\ Alive(r[i]) /\ Holder(t, r, i)
               /\ y[i] \in Seq(Nat) /\ Goes(wk[i], r[i], y[i])
               /\ q[i] \in Seq(Nat) /\ q[i] = Then(y[i], q[i - 1])
    BY <2>1, Zenon DEF Frames
  <2>3. ASSUME NEW i \in 1..Len(wk) PROVE Alive(r[i])'
    <3>1. Pinned(r[i]) \/ (i = 1 /\ r[i] = Top(t))
      BY <1>0, <2>1, RootPinned
    <3> QED  BY <2>0, <2>2, <3>1
  <2>4. ASSUME NEW i \in 1..Len(wk) PROVE Goes(wk[i], r[i], y[i])'
    <3>1. PICK x \in Root : x = r[i]
      BY <2>2
    <3>2. PICK c \in Calls : c = wk[i]
      OBVIOUS
    <3>3. PICK w : w = y[i]
      OBVIOUS
    <3>4. Alive(x) /\ Alive(x)' /\ Goes(c, x, w)
      BY <2>2, <2>3, <3>1, <3>2, <3>3, Zenon DEF Alive, Depth
    <3>5. x[2] \in Nat /\ Len(c.found) \in Nat
      BY DEF Root, Calls
    <3>6. Left(c, x) \in 0..x[2] /\ x[2] \in 0..x[2]
      BY <3>4, <3>5, SMT DEF Goes, Left
    <3>7. Prefix(x[1], x[2])' = Prefix(x[1], x[2])
      BY <3>4, <3>6
    <3>8. PICK l \in 0..x[2] : l = Left(c, x)
      BY <3>6
    <3>9. Prefix(x[1], l)' = Prefix(x[1], l)
      BY <3>4, <3>8
    <3>10. Goes(c, x, w)'
      BY <3>4, <3>7, <3>8, <3>9, Zenon DEF Goes, Left, Prefix
    <3> QED  BY <3>1, <3>2, <3>3, <3>10
  <2>5. ASSUME NEW i \in 1..Len(wk) PROVE Holder(t, r, i)'
    <3>1. CASE i = 1
      BY <2>0, <2>2, <3>1, SMT DEF Holder
    <3>2. CASE i # 1
      <4>1. i > 1 /\ i - 1 \in 1..Len(wk)
        BY <3>2, SMT
      <4>2. PICK b \in Addr : Below(b, r[i - 1]) /\ data[b].ec = r[i]
        BY <2>2, <3>2, Zenon DEF Holder
      <4>3. Alive(b)
        BY <2>2, <4>1, <4>2, BelowAlive DEF AliveInv
      <4> QED  BY <4>1, <4>2, <4>3 DEF Holder
    <3> QED  BY <3>1, <3>2
  <2>6. q[0] = <<>> /\ <<>> \in Seq(Nat)
    BY <2>1 DEF Frames
  <2>7. Frames(t, wk, r, y, q)'
    BY <2>2, <2>3, <2>4, <2>5, <2>6, Zenon DEF Frames
  <2>8. a = Prefix(r[1][1], r[1][2])'
    <3>1. r[1] \in Root /\ Alive(r[1]) /\ Alive(r[1])'
      BY <2>0, <2>2, <2>3
    <3>2. PICK x \in Root : x = r[1]
      BY <3>1
    <3>3. x[2] \in 0..x[2] /\ Alive(x) /\ Alive(x)'
      BY <3>1, <3>2, SMT DEF Root, Alive, Depth
    <3>4. Prefix(x[1], x[2])' = Prefix(x[1], x[2])
      BY <3>3
    <3> QED  BY <2>1, <3>2, <3>4
  <2>9. a = Then(p, q[Len(wk)])
    BY <2>1
  <2> QED  BY <1>2, <2>7, <2>8, <2>9, Zenon DEF Printing
<1> QED  BY <1>1, <1>2

(* A step that leaves the contexts, the handles and the walks as they are.  *)
LEMMA QuietKeepsText ==
  ASSUME AliveInv, TextInv, PrintInv,
         UNCHANGED <<number, made, data, stack, printed, asked, walk>>,
         handle' \in [Threads -> [ec : Addr \cup {Null}, text : Seq(Nat)]],
         \A t \in Threads : handle'[t] = handle[t]
             \/ (walk[t] = <<>> /\ handle'[t].text = ListText(handle'[t].ec))
  PROVE  TextInv' /\ PrintInv'
<1>1. \A a : Alive(a)' = Alive(a)
  BY DEF Alive, Depth
<1>2. \A u, k : Prefix(u, k)' = Prefix(u, k)
  BY DEF Prefix
<1>3. \A ec : ListText(ec)' = ListText(ec)
  BY DEF ListText, Prefix
<1>4. TextTypes'
  BY DEF TextInv, TextTypes
<1>5. ASSUME NEW t \in Threads PROVE handle'[t].text = ListText(handle[t].ec)'
  <2>1. PICK h : h = handle'[t]
    OBVIOUS
  <2>2. h.text = ListText(h.ec)
    BY <2>1 DEF TextInv
  <2>3. ListText(handle[t].ec)' = ListText(h.ec)
    BY <2>1, Zenon DEF ListText, Prefix
  <2> QED  BY <2>1, <2>2, <2>3
<1>6. ASSUME NEW a \in Addr, Alive(a)'
      PROVE  /\ stack'[a[1]][a[2]] = Then(<<number'[a]>>, data'[a].text)
             /\ data'[a].text = ListText(data[a].ec)'
  <2>1. ListText(data[a].ec)' = ListText(data[a].ec)
    BY Zenon DEF ListText, Prefix
  <2> QED  BY <1>1, <1>6, <2>1 DEF TextInv
<1>7. TextInv'
  BY <1>4, <1>5, <1>6, Zenon DEF TextInv
<1>8. ASSUME NEW t \in Threads PROVE Printing(t, walk[t], printed[t], asked[t])'
  <2>1. PICK wk, p, a : wk = walk[t] /\ p = printed[t] /\ a = asked[t]
    OBVIOUS
  <2>2. wk \in Seq(Calls)
    BY <2>1 DEF AliveInv, EcTypeOK
  <2>3. Printing(t, wk, p, a)
    BY <2>1, Zenon DEF PrintInv
  <2>4. Top(t)' = Top(t)
    BY DEF Top, Depth
  <2>5. wk # <<>> => /\ handle'[t] = handle[t] /\ Top(t)' = Top(t)
                     /\ \A x \in Root : Alive(x) /\ (Pinned(x) \/ x = Top(t)) => Alive(x)'
    BY <1>1, <2>1, <2>4
  <2>6. Printing(t, wk, p, a)'
    BY <1>1, <1>2, <2>2, <2>3, <2>5, PrintingKept
  <2> QED  BY <2>1, <2>6
<1> QED  BY <1>7, <1>8, Zenon DEF PrintInv

-----------------------------------------------------------------------------
(* Contexts stay where they are in the list of their thread.                *)
Stay ==
  \A u \in Threads : \A k \in Nat :
    1 <= k /\ k <= Len(stack[u]) /\ k <= Len(stack'[u]) => stack'[u][k] = stack[u][k]

(* What a pointer to an entry stands for, before and after such a step.     *)
LEMMA TextStays ==
  ASSUME AliveInv, AliveInv', TextTypes, TextTypes', Stay,
         NEW x \in Root, Alive(x), Alive(x)', NEW k \in 0..x[2]
  PROVE  Prefix(x[1], k)' = Prefix(x[1], k) /\ Prefix(x[1], k) \in Seq(Nat)
<1>1. PICK u \in Threads : u = x[1]
  BY DEF Root
<1>2. /\ stack[u] \in Seq(Seq(Nat)) /\ stack'[u] \in Seq(Seq(Nat))
      /\ x[2] <= Len(stack[u]) /\ x[2] <= Len(stack'[u])
  BY <1>1 DEF TextTypes, Alive, Depth
<1>3. /\ k \in Nat /\ k <= Len(stack[u]) /\ k <= Len(stack'[u])
      /\ \A i \in 1..k : i \in Nat /\ 1 <= i /\ i <= Len(stack[u]) /\ i <= Len(stack'[u])
  <2>0. Len(stack[u]) \in Nat /\ Len(stack'[u]) \in Nat
    BY <1>2
  <2>1. PICK l, m : l \in Nat /\ m \in Nat /\ l = Len(stack[u]) /\ m = Len(stack'[u])
    BY <2>0
  <2>2. x[2] \in Nat /\ x[2] <= l /\ x[2] <= m
    BY <1>2, <2>1 DEF Root
  <2>3. k \in Nat /\ k <= l /\ k <= m
        /\ \A i \in 1..k : i \in Nat /\ 1 <= i /\ i <= l /\ i <= m
    BY ONLY <2>1, <2>2, k \in 0..x[2], SMT
  <2> QED  BY <2>1, <2>3
<1>4. \A i \in 1..k : stack'[u][i] = stack[u][i]
  BY <1>3, Zenon DEF Stay
<1>5. Prefix(u, k)' = Prefix(u, k) /\ Prefix(u, k) \in Seq(Nat)
  BY <1>2, <1>3, <1>4, PrefixKept
<1> QED  BY <1>1, <1>5

(* A context begins or ends: what handles and the other contexts stand for, *)
(* and what is left to print, is as it was.                                 *)
LEMMA ScopeKeepsText ==
  ASSUME AliveInv, AliveInv', TextInv, PrintInv, TextTypes', Stay,
         UNCHANGED <<handle, walk, printed, asked>>,
         \A b \in Addr : Alive(b) => data'[b] = data[b] /\ number'[b] = number[b],
         \A b \in Addr : Alive(b)' /\ ~Alive(b) =>
           /\ stack'[b[1]][b[2]] = Then(<<number'[b]>>, data'[b].text)
           /\ data'[b] = NoHandle \/ \E u \in Threads : data'[b] = handle[u],
         \A u \in Threads : walk[u] # <<>> =>
           /\ Top(u)' = Top(u)
           /\ \A x \in Root : Alive(x) /\ (Pinned(x) \/ x = Top(u)) => Alive(x)'
  PROVE  TextInv' /\ PrintInv'
<1>0. TextTypes
  BY DEF TextInv
<1>1. ASSUME NEW e \in Addr \cup {Null}, e # Null => Alive(e) /\ Alive(e)'
      PROVE  ListText(e)' = ListText(e)
  <2>1. CASE e = Null
    BY <2>1, Zenon DEF ListText
  <2>2. CASE e # Null
    <3>1. e \in Root /\ e[2] \in 0..e[2]
      BY <2>2 DEF Addr, Root
    <3>2. Prefix(e[1], e[2])' = Prefix(e[1], e[2])
      BY <1>0, <1>1, <2>2, <3>1, TextStays
    <3> QED  BY <2>2, <3>2, Zenon DEF ListText
  <2> QED  BY <2>1, <2>2
<1>2. ASSUME NEW u \in Threads
      PROVE  handle'[u].text = ListText(handle[u].ec)' /\ handle[u].text = ListText(handle[u].ec)'
  <2>1. PICK h : h = handle[u]
    OBVIOUS
  <2>2. handle'[u] = h /\ h.ec \in Addr \cup {Null} /\ h.text = ListText(h.ec)
    BY <1>0, <2>1 DEF TextInv, TextTypes
  <2>3. h.ec # Null => Alive(h.ec) /\ Alive(h.ec)'
    <3>1. ASSUME h.ec # Null PROVE Alive(handle[u].ec)'
      BY <2>1, <2>2, <3>1 DEF AliveInv, Pins
    <3>2. ASSUME h.ec # Null PROVE Alive(h.ec)
      BY <2>1, <3>2 DEF AliveInv, Pins
    <3>3. h.ec # Null => Alive(h.ec)'
      BY <2>1, <2>2, <3>1, Zenon DEF Alive, Depth
    <3> QED  BY <3>2, <3>3
  <2>4. ListText(h.ec)' = ListText(h.ec)
    BY <1>1, <2>2, <2>3
  <2>5. ListText(handle[u].ec)' = ListText(h.ec)'
    BY <2>1, <2>2, Zenon DEF ListText, Prefix
  <2> QED  BY <2>1, <2>2, <2>4, <2>5
<1>3. ASSUME NEW b \in Addr, Alive(b)'
      PROVE  /\ stack'[b[1]][b[2]] = Then(<<number'[b]>>, data'[b].text)
             /\ data'[b].text = ListText(data[b].ec)'
  <2>1. PICK d : d = data'[b]
    OBVIOUS
  <2>2. ListText(data[b].ec)' = ListText(d.ec)'
    BY <2>1, Zenon DEF ListText, Prefix
  <2>3. CASE Alive(b)
    <3>1. d = data[b] /\ number'[b] = number[b]
      BY <2>1, <2>3
    <3>2. /\ stack[b[1]][b[2]] = Then(<<number[b]>>, d.text)
          /\ d.text = ListText(d.ec) /\ d.ec \in Addr \cup {Null}
      BY <1>0, <2>3, <3>1 DEF TextInv, TextTypes
    <3>3. d.ec # Null => Alive(d.ec) /\ Alive(d.ec)'
      <4>1. ASSUME d.ec # Null PROVE Alive(data[b].ec)'
        BY <1>3, <2>1, <4>1 DEF AliveInv, Pins
      <4>2. ASSUME d.ec # Null PROVE Alive(d.ec)
        BY <2>3, <3>1, <4>2 DEF AliveInv, Pins
      <4>3. d.ec # Null => Alive(d.ec)'
        BY <2>1, <4>1, Zenon DEF Alive, Depth
      <4> QED  BY <4>2, <4>3
    <3>4. ListText(d.ec)' = ListText(d.ec)
      BY <1>1, <3>2, <3>3
    <3>5. stack'[b[1]][b[2]] = stack[b[1]][b[2]]
      <4>1. b[1] \in Threads /\ b[2] \in Nat /\ 1 <= b[2]
        BY DEF Addr
      <4>2. b[2] <= Len(stack[b[1]]) /\ b[2] <= Len(stack'[b[1]])
        BY <1>3, <2>3 DEF Alive, Depth
      <4> QED  BY <4>1, <4>2, Zenon DEF Stay
    <3> QED  BY <2>1, <2>2, <3>1, <3>2, <3>4, <3>5, Zenon
  <2>4. CASE ~Alive(b)
    <3>1. /\ stack'[b[1]][b[2]] = Then(<<number'[b]>>, data'[b].text)
          /\ d = NoHandle \/ \E u \in Threads : d = handle[u]
      BY <1>3, <2>1, <2>4
    <3>2. d.text = ListText(d.ec)'
      <4>1. CASE d = NoHandle
        BY <4>1, Zenon DEF NoHandle, ListText
      <4>2. CASE \E u \in Threads : d = handle[u]
        <5>1. PICK u \in Threads : d = handle[u]
          BY <4>2
        <5>2. ListText(handle[u].ec)' = ListText(d.ec)'
          BY <5>1, Zenon DEF ListText, Prefix
        <5> QED  BY <1>2, <5>1, <5>2, Zenon
      <4> QED  BY <3>1, <4>1, <4>2
    <3> QED  BY <2>1, <2>2, <3>1, <3>2, Zenon
  <2> QED  BY <2>3, <2>4
<1>4. TextInv'
  BY <1>2, <1>3, Zenon DEF TextInv
<1>5. ASSUME NEW t \in Threads PROVE Printing(t, walk[t], printed[t], asked[t])'
  <2>1. PICK wk, p, a : wk = walk[t] /\ p = printed[t] /\ a = asked[t]
    OBVIOUS
  <2>2. wk \in Seq(Calls)
    BY <2>1 DEF AliveInv, EcTypeOK
  <2>3. Printing(t, wk, p, a)
    BY <2>1, Zenon DEF PrintInv
  <2>4. wk # <<>> => /\ handle'[t] = handle[t] /\ Top(t)' = Top(t)
                     /\ \A x \in Root : Alive(x) /\ (Pinned(x) \/ x = Top(t)) => Alive(x)'
    BY <2>1
  <2>5. \A x \in Root : \A k \in 0..x[2] :
           Alive(x) /\ Alive(x)' => Prefix(x[1], k)' = Prefix(x[1], k)
    BY <1>0, TextStays
  <2>6. Printing(t, wk, p, a)'
    BY <2>2, <2>3, <2>4, <2>5, PrintingKept
  <2> QED  BY <2>1, <2>6
<1> QED  BY <1>4, <1>5, Zenon DEF PrintInv


(* A new context is at an address that was not alive: no text is disturbed. *)
LEMMA ConstructKeepsText ==
  ASSUME AliveInv, AliveInv', TextInv, PrintInv, NEW t \in Threads, Construct(t)
  PROVE  TextInv' /\ PrintInv'
<1>0. TextTypes /\ EcTypeOK
  BY DEF TextInv, AliveInv
<1>1. PICK a : a = <<t, Depth(t) + 1>>
  OBVIOUS
<1>2. PICK d \in {NoHandle, handle[t]} :
        /\ data' = [data EXCEPT ![a] = d]
        /\ stack' = [stack EXCEPT ![t] = Append(@, <<made + 1>> \o d.text)]
  BY <1>1 DEF Construct
<1>3. PICK e : e = Then(<<made + 1>>, d.text)
  OBVIOUS
<1>4. /\ stack' = [stack EXCEPT ![t] = Append(@, e)]
      /\ number' = [number EXCEPT ![a] = made + 1] /\ made' = made + 1
      /\ walk[t] = <<>> /\ Depth(t) < MaxDepth
      /\ UNCHANGED <<handle, walk, printed, asked>>
  BY <1>1, <1>2, <1>3 DEF Construct, Runs, walking, Then
<1>5. Depth(t) \in Nat /\ a \in Addr /\ a[1] = t /\ a[2] = Depth(t) + 1
  BY <1>0, <1>1, <1>4 DEF EcTypeOK, Addr
<1>6. d \in [ec : Addr \cup {Null}, text : Seq(Nat)] /\ d.text \in Seq(Nat)
  <2>1. handle[t] \in [ec : Addr \cup {Null}, text : Seq(Nat)]
    BY <1>0 DEF TextTypes
  <2>2. NoHandle \in [ec : Addr \cup {Null}, text : Seq(Nat)]
    BY DEF NoHandle
  <2>3. d \in [ec : Addr \cup {Null}, text : Seq(Nat)]
    BY <2>1, <2>2
  <2> QED  BY <2>3
<1>7. e \in Seq(Nat) /\ made + 1 \in Nat
  <2>1. made + 1 \in Nat
    BY <1>0 DEF TextTypes
  <2>2. <<made + 1>> \in Seq(Nat)
    BY <2>1
  <2> QED  BY <1>3, <1>6, <2>1, <2>2, ThenType, Zenon
<1>8. PICK s \in Seq(Seq(Nat)) : s = stack[t]
  BY <1>0 DEF TextTypes
<1>9. /\ stack'[t] = Append(s, e) /\ \A u \in Threads : u # t => stack'[u] = stack[u]
      /\ stack' = [u \in Threads |-> stack'[u]]
  BY <1>0, <1>4, <1>8 DEF TextTypes
<1>10. /\ Append(s, e) \in Seq(Seq(Nat)) /\ Len(Append(s, e)) = Len(s) + 1 /\ Len(s) \in Nat
       /\ \A i \in 1..Len(s) : Append(s, e)[i] = s[i]
       /\ Append(s, e)[Len(s) + 1] = e
  BY <1>7, AppendProperties
<1>11. /\ data' \in [Addr -> [ec : Addr \cup {Null}, text : Seq(Nat)]]
       /\ data'[a] = d /\ \A b \in Addr : b # a => data'[b] = data[b]
  BY <1>0, <1>2, <1>5, <1>6 DEF TextTypes
<1>12. /\ number' = [b \in Addr |-> number'[b]] /\ number'[a] = made + 1
       /\ \A b \in Addr : b # a => number'[b] = number[b]
  BY <1>0, <1>4, <1>5 DEF TextTypes
<1>13. TextTypes'
  <2>1. stack' \in [Threads -> Seq(Seq(Nat))]
    <3>1. ASSUME NEW u \in Threads PROVE stack'[u] \in Seq(Seq(Nat))
      <4>1. stack[u] \in Seq(Seq(Nat))
        BY <1>0 DEF TextTypes
      <4> QED  BY <1>9, <1>10, <4>1, Zenon
    <3> QED  BY <1>9, <3>1
  <2>2. \A b \in Addr : number'[b] \in Nat
    BY <1>0, <1>7, <1>12 DEF TextTypes
  <2>3. /\ made' \in Nat
        /\ handle' \in [Threads -> [ec : Addr \cup {Null}, text : Seq(Nat)]]
        /\ printed' \in [Threads -> Seq(Nat)] /\ asked' \in [Threads -> Seq(Nat)]
    BY <1>0, <1>4, <1>7 DEF TextTypes
  <2> QED  BY <1>11, <1>12, <2>1, <2>2, <2>3, Zenon DEF TextTypes
<1>14. Stay
  <2>1. ASSUME NEW u \in Threads, NEW k \in Nat, 1 <= k, k <= Len(stack[u])
        PROVE  stack'[u][k] = stack[u][k]
    <3>1. u = t => k \in 1..Len(s)
      BY <1>8, <1>10, <2>1
    <3> QED  BY <1>8, <1>9, <1>10, <3>1
  <2> QED  BY <2>1 DEF Stay
<1>15. \A u \in Threads : Depth(u) \in Nat /\ Depth(u)' = IF u = t THEN Depth(t) + 1 ELSE Depth(u)
  <2>1. ASSUME NEW u \in Threads PROVE Depth(u) \in Nat
    BY <1>0 DEF EcTypeOK
  <2>2. Depth(t)' = Depth(t) + 1
    BY <1>8, <1>9, <1>10 DEF Depth
  <2>3. ASSUME NEW u \in Threads, u # t PROVE Depth(u)' = Depth(u)
    BY <1>9, <2>3 DEF Depth
  <2> QED  BY <2>1, <2>2, <2>3
<1>16. ~Alive(a)
  BY <1>5, SMT DEF Alive
<1>17. \A b \in Addr : Alive(b)' /\ ~Alive(b) => b = a
  <2>1. SUFFICES ASSUME NEW u \in Threads, NEW k \in 1..MaxDepth, Alive(<<u, k>>)', ~Alive(<<u, k>>)
                 PROVE  <<u, k>> = a
    BY DEF Addr
  <2>2. k <= Depth(u)' /\ ~(k <= Depth(u)) /\ k \in Nat
    BY <2>1 DEF Alive
  <2> QED  BY <1>1, <1>5, <1>15, <2>2
<1>18. \A x \in Root : Alive(x) => Alive(x)'
  <2>1. ASSUME NEW u \in Threads, NEW k \in 0..MaxDepth, Alive(<<u, k>>) PROVE Alive(<<u, k>>)'
    <3>1. k <= Depth(u) /\ k \in Nat
      BY <2>1 DEF Alive
    <3>2. k <= Depth(u)'
      <4>1. CASE u = t
        BY <1>5, <1>15, <3>1, <4>1
      <4>2. CASE u # t
        BY <1>15, <3>1, <4>2
      <4> QED  BY <4>1, <4>2
    <3> QED  BY <3>2 DEF Alive
  <2> QED  BY <2>1 DEF Root
<1>19. \A u \in Threads : u # t => Top(u)' = Top(u)
  BY <1>15 DEF Top
<1>20. \A b \in Addr : Alive(b) => data'[b] = data[b] /\ number'[b] = number[b]
  BY <1>11, <1>12, <1>16
<1>21. ASSUME NEW b \in Addr, Alive(b)', ~Alive(b)
       PROVE  /\ stack'[b[1]][b[2]] = Then(<<number'[b]>>, data'[b].text)
              /\ data'[b] = NoHandle \/ \E u \in Threads : data'[b] = handle[u]
  <2>1. b = a
    BY <1>17, <1>21
  <2>2. stack'[t][Depth(t) + 1] = e
    BY <1>8, <1>9, <1>10 DEF Depth
  <2>3. stack'[b[1]][b[2]] = e /\ data'[b] = d /\ number'[b] = made + 1
    BY <1>5, <1>11, <1>12, <2>1, <2>2
  <2> QED  BY <1>2, <1>3, <2>3
<1> QED  BY <1>4, <1>13, <1>14, <1>18, <1>19, <1>20, <1>21, ScopeKeepsText

(* A context that ends was pinned by nothing: nor by that.                  *)
LEMMA DestroyedKeepsText ==
  ASSUME AliveInv, AliveInv', TextInv, PrintInv, NEW t \in Threads, Destroyed(t)
  PROVE  TextInv' /\ PrintInv'
<1>0. TextTypes /\ EcTypeOK
  BY DEF TextInv, AliveInv
<1>1. /\ at[t] = "dtor" /\ walk[t] = <<>>
      /\ stack' = [stack EXCEPT ![t] = Front(@)]
      /\ UNCHANGED <<number, data, made, handle, walk, printed, asked>>
  BY DEF Destroyed, memory, walking
<1>2. Depth(t) > 0 /\ ~Pinned(Top(t)) /\ Depth(t) \in Nat
  BY <1>0, <1>1 DEF AliveInv, Pins, EcTypeOK
<1>3. PICK s \in Seq(Seq(Nat)) : s = stack[t] /\ Len(s) > 0
  BY <1>0, <1>2 DEF TextTypes, Depth
<1>4. /\ stack'[t] = Front(s) /\ \A u \in Threads : u # t => stack'[u] = stack[u]
      /\ stack' = [u \in Threads |-> stack'[u]]
  BY <1>0, <1>1, <1>3 DEF TextTypes
<1>5. /\ Front(s) \in Seq(Seq(Nat)) /\ Len(Front(s)) = Len(s) - 1 /\ Len(s) \in Nat
      /\ \A i \in 1..(Len(s) - 1) : Front(s)[i] = s[i]
  BY <1>3, FrontIs
<1>6. TextTypes'
  <2>1. ASSUME NEW u \in Threads PROVE stack'[u] \in Seq(Seq(Nat))
    <3>1. stack[u] \in Seq(Seq(Nat))
      BY <1>0 DEF TextTypes
    <3> QED  BY <1>4, <1>5, <3>1, Zenon
  <2>2. stack' \in [Threads -> Seq(Seq(Nat))]
    BY <1>4, <2>1
  <2> QED  BY <1>0, <1>1, <2>2 DEF TextTypes
<1>7. Stay
  <2>1. ASSUME NEW u \in Threads, NEW k \in Nat, 1 <= k, k <= Len(stack[u]), k <= Len(stack'[u])
        PROVE  stack'[u][k] = stack[u][k]
    <3>1. u = t => k \in 1..(Len(s) - 1)
      BY <1>4, <1>5, <2>1
    <3> QED  BY <1>3, <1>4, <1>5, <3>1
  <2> QED  BY <2>1 DEF Stay
<1>8. \A u \in Threads : Depth(u) \in Nat /\ Depth(u)' = IF u = t THEN Depth(t) - 1 ELSE Depth(u)
  <2>1. ASSUME NEW u \in Threads PROVE Depth(u) \in Nat
    BY <1>0 DEF EcTypeOK
  <2>2. Depth(t)' = Depth(t) - 1
    BY <1>3, <1>4, <1>5 DEF Depth
  <2>3. ASSUME NEW u \in Threads, u # t PROVE Depth(u)' = Depth(u)
    BY <1>4, <2>3 DEF Depth
  <2> QED  BY <2>1, <2>2, <2>3
<1>9. \A b \in Addr : Alive(b)' => Alive(b)
  <2>1. ASSUME NEW u \in Threads, NEW k \in 1..MaxDepth, Alive(<<u, k>>)' PROVE Alive(<<u, k>>)
    <3>1. k <= Depth(u)' /\ k \in Nat
      BY <2>1 DEF Alive
    <3>2. k <= Depth(u)
      BY <1>8, <3>1
    <3> QED  BY <3>2 DEF Alive
  <2> QED  BY <2>1 DEF Addr
<1>10. ASSUME NEW x \in Root, Alive(x), x # Top(t) PROVE Alive(x)'
  <2>1. PICK u \in Threads, k \in 0..MaxDepth : x = <<u, k>>
    BY DEF Root
  <2>2. k <= Depth(u) /\ k \in Nat /\ (u = t => k # Depth(t))
    BY <1>10, <2>1 DEF Alive, Top
  <2>3. k <= Depth(u)'
    BY <1>2, <1>8, <2>2
  <2> QED  BY <2>1, <2>3 DEF Alive
<1>11. ASSUME NEW u \in Threads, walk[u] # <<>>
       PROVE  /\ Top(u)' = Top(u) /\ Top(u) # Top(t)
  BY <1>1, <1>8, <1>11 DEF Top
<1>12. \A u \in Threads : walk[u] # <<>> =>
         /\ Top(u)' = Top(u)
         /\ \A x \in Root : Alive(x) /\ (Pinned(x) \/ x = Top(u)) => Alive(x)'
  BY <1>2, <1>10, <1>11
<1> QED  BY <1>1, <1>6, <1>7, <1>9, <1>12, ScopeKeepsText

-----------------------------------------------------------------------------
(* A step of one walk, which leaves the contexts and the handles.           *)
LEMMA WalkKeepsText ==
  ASSUME AliveInv, TextInv, PrintInv, NEW t \in Threads,
         UNCHANGED <<number, made, data, stack, handle>>,
         \A u \in Threads : u # t =>
           walk'[u] = walk[u] /\ printed'[u] = printed[u] /\ asked'[u] = asked[u],
         walk'[t] \in Seq(Calls), printed' \in [Threads -> Seq(Nat)],
         asked' \in [Threads -> Seq(Nat)],
         Printing(t, walk'[t], printed'[t], asked'[t])
  PROVE  TextInv' /\ PrintInv'
<1>1. \A a : Alive(a)' = Alive(a)
  BY DEF Alive, Depth
<1>2. \A u, k : Prefix(u, k)' = Prefix(u, k)
  BY DEF Prefix
<1>3. TextTypes'
  BY DEF TextInv, TextTypes
<1>4. ASSUME NEW u \in Threads PROVE handle'[u].text = ListText(handle[u].ec)'
  <2>1. ListText(handle[u].ec)' = ListText(handle[u].ec)
    BY Zenon DEF ListText, Prefix
  <2> QED  BY <2>1 DEF TextInv
<1>5. ASSUME NEW a \in Addr, Alive(a)'
      PROVE  /\ stack'[a[1]][a[2]] = Then(<<number'[a]>>, data'[a].text)
             /\ data'[a].text = ListText(data[a].ec)'
  <2>1. ListText(data[a].ec)' = ListText(data[a].ec)
    BY Zenon DEF ListText, Prefix
  <2> QED  BY <1>1, <1>5, <2>1 DEF TextInv
<1>6. TextInv'
  BY <1>3, <1>4, <1>5, Zenon DEF TextInv
<1>7. ASSUME NEW u \in Threads PROVE Printing(u, walk[u], printed[u], asked[u])'
  <2>1. PICK wk, p, a : wk = walk'[u] /\ p = printed'[u] /\ a = asked'[u]
    OBVIOUS
  <2>2. wk \in Seq(Calls)
    BY <2>1 DEF AliveInv, EcTypeOK
  <2>3. Printing(u, wk, p, a)
    BY <2>1, Zenon DEF PrintInv
  <2>4. Top(u)' = Top(u)
    BY DEF Top, Depth
  <2>5. wk # <<>> => /\ handle'[u] = handle[u] /\ Top(u)' = Top(u)
                     /\ \A x \in Root : Alive(x) /\ (Pinned(x) \/ x = Top(u)) => Alive(x)'
    BY <1>1, <2>4
  <2>6. Printing(u, wk, p, a)'
    BY <1>1, <1>2, <2>2, <2>3, <2>5, PrintingKept
  <2> QED  BY <2>1, <2>6
<1> QED  BY <1>6, <1>7, Zenon DEF PrintInv

(* All the contexts of a thread.                                            *)
LEMMA WholeText ==
  ASSUME EcTypeOK, TextTypes, NEW t \in Threads
  PROVE  Text(stack[t]) = Prefix(t, Depth(t)) /\ Text(stack[t]) \in Seq(Nat)
<1>1. PICK s \in Seq(Seq(Nat)) : s = stack[t]
  BY DEF TextTypes
<1>2. SubSeq(s, 1, Len(s)) = s
  BY SubSeqFull
<1>3. Prefix(t, Depth(t)) = Text(stack[t])
  BY <1>1, <1>2, Zenon DEF Prefix, UpTo, Depth
<1>4. Prefix(t, Depth(t)) \in Seq(Nat)
  <2>1. Depth(t) \in 0..Len(stack[t]) /\ stack[t] \in Seq(Seq(Nat))
    BY <1>1 DEF Depth
  <2> QED  BY <2>1, PrefixType
<1> QED  BY <1>3, <1>4

(* A walk begins with nothing printed, and all there is to print ahead.     *)
LEMMA BeginKeepsText ==
  ASSUME AliveInv, TextInv, PrintInv, NEW t \in Threads,
         GetErrorContext(t) \/ GetErrorContextFor(t)
  PROVE  TextInv' /\ PrintInv'
<1>0. TextTypes /\ EcTypeOK
  BY DEF TextInv, AliveInv
<1>1. PICK ec, text :
        /\ Begin(t, ec, text)
        /\ \/ ec = head[t] /\ text = Text(stack[t])
           \/ handle[t] # NoHandle /\ ec = handle[t].ec /\ text = handle[t].text
  BY DEF GetErrorContext, GetErrorContextFor
<1>2. PICK c : c = [cursor |-> ec, found |-> <<>>]
  OBVIOUS
<1>3. /\ walk[t] = <<>> /\ walk' = [walk EXCEPT ![t] = <<c>>]
      /\ asked' = [asked EXCEPT ![t] = text]
      /\ UNCHANGED <<number, made, data, stack, handle, printed>>
  BY <1>1, <1>2 DEF Begin, memory
<1>4. c.cursor = ec /\ c.found = <<>> /\ Len(c.found) = 0
  BY <1>2
<1>5. PICK x \in Root :
        /\ x = handle[t].ec \/ x = Top(t)
        /\ text = Prefix(x[1], x[2]) /\ text \in Seq(Nat)
        /\ ec = x \/ (ec = Null /\ x[2] = 0)
        /\ Alive(x)
  <2>1. CASE ec = head[t] /\ text = Text(stack[t])
    <3>1. PICK x : x = Top(t)
      OBVIOUS
    <3>2. Depth(t) \in 0..MaxDepth
      BY <1>0 DEF EcTypeOK
    <3>3. x \in Root /\ x[1] = t /\ x[2] = Depth(t) /\ x = <<t, Depth(t)>>
      BY <3>1, <3>2 DEF Top, Root
    <3>4. Alive(x)
      BY <3>2, <3>3 DEF Alive
    <3>5. text = Prefix(t, Depth(t)) /\ text \in Seq(Nat)
      BY <1>0, <2>1, WholeText
    <3>6. ec = x \/ (ec = Null /\ x[2] = 0)
      BY <2>1, <3>3 DEF AliveInv, Lists
    <3> QED  BY <3>1, <3>3, <3>4, <3>5, <3>6
  <2>2. CASE handle[t] # NoHandle /\ ec = handle[t].ec /\ text = handle[t].text
    <3>1. handle[t] \in [ec : Addr \cup {Null}, text : Seq(Nat)]
      BY <1>0 DEF TextTypes
    <3>2. text = ListText(ec) /\ text \in Seq(Nat)
      BY <2>2, <3>1 DEF TextInv
    <3>3. ec # Null
      <4>1. SUFFICES ASSUME ec = Null PROVE handle[t] = NoHandle
        BY <2>2
      <4>2. handle[t].ec = Null /\ handle[t].text = <<>>
        BY <2>2, <3>2, <4>1 DEF ListText
      <4> QED  BY <3>1, <4>2 DEF NoHandle
    <3>4. ec \in Addr /\ Alive(ec)
      BY <2>2, <3>1, <3>3 DEF AliveInv, Pins
    <3>5. ec \in Root
      BY <3>4 DEF Addr, Root
    <3>6. text = Prefix(ec[1], ec[2])
      BY <3>2, <3>3 DEF ListText
    <3> QED  BY <2>2, <3>2, <3>4, <3>5, <3>6
  <2> QED  BY <1>1, <2>1, <2>2
<1>6. Goes(c, x, text)
  <2>1. x[2] \in Nat /\ x[2] - 0 = x[2] /\ x = <<x[1], x[2]>> /\ x[1] \in Threads
    BY DEF Root
  <2>2. Left(c, x) = 0
    <3>1. CASE c.cursor = Null
      <4>1. x[2] = 0
        BY <1>4, <1>5, <2>1, <3>1 DEF Root
      <4> QED  BY <1>4, <2>1, <3>1, <4>1 DEF Left
    <3>2. CASE c.cursor # Null
      BY <3>2 DEF Left
    <3> QED  BY <3>1, <3>2
  <2>3. Prefix(x[1], 0) = <<>>
    <3>1. stack[x[1]] \in Seq(Seq(Nat)) /\ 0 \in 0..Len(stack[x[1]])
      BY <1>0, <2>1 DEF TextTypes
    <3> QED  BY <3>1, FlattenType DEF Prefix
  <2>4. text = Then(<<>>, text)
    BY <1>5, ThenEmpty
  <2>5. c.cursor # Null => c.cursor = <<x[1], x[2] - Len(c.found)>>
    BY <1>4, <1>5, <2>1
  <2>6. Prefix(x[1], x[2]) = Then(Prefix(x[1], Left(c, x)), text)
    BY <1>5, <2>2, <2>3, <2>4, Zenon
  <2>7. Len(c.found) <= x[2] /\ ~(\E k : k \in 1..Len(c.found))
    BY <1>4, <2>1
  <2> QED  BY <2>5, <2>6, <2>7, Zenon DEF Goes
<1>7. printed[t] = <<>>
  <2>1. Len(walk[t]) = 0
    BY <1>3
  <2> QED  BY <2>1 DEF PrintInv, Printing
<1>8. PICK z : z = <<c>>
  OBVIOUS
<1>9. Len(z) = 1 /\ z[1] = c
  BY <1>8
<1>10. PICK q : q = [i \in 0..1 |-> IF i = 0 THEN <<>> ELSE text]
  OBVIOUS
<1>11. PICK r, y : r = [i \in 1..1 |-> x] /\ y = [i \in 1..1 |-> text]
  OBVIOUS
<1>12. q[0] = <<>> /\ q[1] = text /\ r[1] = x /\ y[1] = text /\ <<>> \in Seq(Nat)
  BY <1>10, <1>11
<1>13. Frames(t, z, r, y, q)
  <2>1. \A i : i \in 1..Len(z) => i = 1 /\ i - 1 = 0
    BY <1>9
  <2>2. text = Then(text, <<>>)
    BY <1>5, ThenEmpty
  <2>3. Holder(t, r, 1)
    BY <1>5, <1>12, Zenon DEF Holder
  <2>4. ASSUME NEW i \in 1..Len(z)
        PROVE  /\ r[i] \in Root /\ Alive(r[i]) /\ Holder(t, r, i)
               /\ y[i] \in Seq(Nat) /\ Goes(z[i], r[i], y[i])
               /\ q[i] \in Seq(Nat) /\ q[i] = Then(y[i], q[i - 1])
    <3>1. i = 1 /\ i - 1 = 0
      BY <2>1
    <3>2. r[i] = x /\ y[i] = text /\ z[i] = c /\ q[i] = text /\ q[i - 1] = <<>>
      BY <1>9, <1>12, <3>1
    <3> QED  BY <1>5, <1>6, <2>2, <2>3, <3>1, <3>2, Zenon
  <2> QED  BY <1>12, <2>4, Zenon DEF Frames
<1>14. Printing(t, z, <<>>, text)
  <2>1. text = Then(<<>>, text)
    BY <1>5, ThenEmpty
  <2>2. text = Prefix(r[1][1], r[1][2]) /\ text = Then(<<>>, q[Len(z)]) /\ Len(z) # 0
    BY <1>5, <1>9, <1>12, <2>1
  <2> QED  BY <1>13, <2>2, Zenon DEF Printing
<1>15. walk'[t] = z /\ printed'[t] = <<>> /\ asked'[t] = text
  BY <1>0, <1>3, <1>7, <1>8 DEF EcTypeOK, TextTypes
<1>16. z \in Seq(Calls)
  <2>1. ec \in Addr \cup {Null}
    BY <1>0, <1>1 DEF EcTypeOK
  <2>2. c \in Calls
    BY <1>2, <2>1 DEF Calls
  <2> QED  BY <1>8, <2>2
<1>17. printed' \in [Threads -> Seq(Nat)] /\ asked' \in [Threads -> Seq(Nat)]
  BY <1>0, <1>3, <1>5 DEF TextTypes
<1>18. \A u \in Threads : u # t =>
         walk'[u] = walk[u] /\ printed'[u] = printed[u] /\ asked'[u] = asked[u]
  BY <1>0, <1>3 DEF EcTypeOK, TextTypes
<1>19. Printing(t, walk'[t], printed'[t], asked'[t])
  BY <1>14, <1>15
<1> QED  BY <1>3, <1>15, <1>16, <1>17, <1>18, <1>19, WalkKeepsText

-----------------------------------------------------------------------------
(* What the innermost call of a thread has to do with what it prints.       *)
LEMMA InnermostIs ==
  ASSUME AliveInv, TextInv, PrintInv, NEW t \in Threads, walk[t] # <<>>
  PROVE  \E n, r, y, q :
           /\ n \in Nat /\ n = Len(walk[t]) /\ n > 0
           /\ Frames(t, walk[t], r, y, q)
           /\ asked[t] = Prefix(r[1][1], r[1][2])
           /\ asked[t] = Then(printed[t], q[n])
           /\ Call(t) = walk[t][n] /\ Call(t) \in Calls
           /\ r[n] \in Root /\ Alive(r[n]) /\ Goes(Call(t), r[n], y[n])
           /\ y[n] \in Seq(Nat) /\ q[n] = Then(y[n], q[n - 1]) /\ q[n - 1] \in Seq(Nat)
           /\ Front(walk[t]) \in Seq(Calls) /\ Len(Front(walk[t])) = n - 1
           /\ \A i \in 1..(n - 1) : Front(walk[t])[i] = walk[t][i]
<1>1. PICK wk \in Seq(Calls) : wk = walk[t] /\ wk # <<>>
  BY DEF AliveInv, EcTypeOK
<1>2. PICK n : n = Len(wk)
  OBVIOUS
<1>3. n \in Nat /\ n > 0 /\ n # 0 /\ n \in 1..n
  BY <1>1, <1>2
<1>4. /\ Front(wk) \in Seq(Calls) /\ Len(Front(wk)) = n - 1
      /\ \A i \in 1..(n - 1) : Front(wk)[i] = wk[i]
      /\ Last(wk) = wk[n] /\ Last(wk) \in Calls
  BY <1>2, <1>3, FrontIs
<1>5. PICK r, y, q : /\ Frames(t, wk, r, y, q)
                     /\ asked[t] = Prefix(r[1][1], r[1][2])
                     /\ asked[t] = Then(printed[t], q[n])
  <2>1. Printing(t, wk, printed[t], asked[t])
    BY <1>1, Zenon DEF PrintInv
  <2> QED  BY <1>2, <1>3, <2>1, Zenon DEF Printing
<1>6. /\ r[n] \in Root /\ Alive(r[n]) /\ Goes(wk[n], r[n], y[n])
      /\ y[n] \in Seq(Nat) /\ q[n] = Then(y[n], q[n - 1])
  BY <1>2, <1>3, <1>5, Zenon DEF Frames
<1>7. q[n - 1] \in Seq(Nat)
  <2>1. CASE n = 1
    <3>1. n - 1 = 0
      BY <2>1
    <3> QED  BY <1>5, <3>1, Zenon DEF Frames
  <2>2. CASE n # 1
    <3>1. n - 1 \in 1..Len(wk)
      BY <1>2, <1>3, <2>2, SMT
    <3> QED  BY <1>5, <3>1, Zenon DEF Frames
  <2> QED  BY <2>1, <2>2
<1>8. Call(t) = wk[n]
  BY <1>1, <1>4, Zenon DEF Call
<1> QED  BY <1>1, <1>2, <1>3, <1>4, <1>5, <1>6, <1>7, <1>8, Zenon

(* The first loop goes one entry down the list: what it has found are still *)
(* the newest of the list, and what the call will print stays.              *)
LEMMA CollectKeepsText ==
  ASSUME AliveInv, TextInv, PrintInv, NEW t \in Threads, Collect(t)
  PROVE  TextInv' /\ PrintInv'
<1>0. TextTypes /\ EcTypeOK
  BY DEF TextInv, AliveInv
<1>1. PICK cc : cc = Call(t)
  OBVIOUS
<1>2. PICK n, r, y, q :
        /\ n \in Nat /\ n = Len(walk[t]) /\ n > 0
        /\ Frames(t, walk[t], r, y, q)
        /\ asked[t] = Prefix(r[1][1], r[1][2])
        /\ asked[t] = Then(printed[t], q[n])
        /\ cc = walk[t][n] /\ cc \in Calls
        /\ r[n] \in Root /\ Alive(r[n]) /\ Goes(cc, r[n], y[n])
        /\ y[n] \in Seq(Nat) /\ q[n] = Then(y[n], q[n - 1]) /\ q[n - 1] \in Seq(Nat)
        /\ Front(walk[t]) \in Seq(Calls) /\ Len(Front(walk[t])) = n - 1
        /\ \A i \in 1..(n - 1) : Front(walk[t])[i] = walk[t][i]
  <2>1. walk[t] # <<>>
    BY DEF Collect
  <2> QED  BY <1>1, <2>1, InnermostIs, ZenonT(60)
<1>3. PICK x \in Root : x = r[n]
  BY <1>2
<1>4. PICK a, f, L : a = cc.cursor /\ f = cc.found /\ L = Len(f)
  OBVIOUS
<1>5. a \in Addr /\ a # Null /\ f \in Seq(Addr) /\ L \in Nat
  BY <1>2, <1>4, <1>1 DEF Collect, Calls
<1>6. PICK c : c = [cursor |-> previous[a], found |-> <<a>> \o f]
  OBVIOUS
<1>7. WithCall(t, <<c>>) /\ UNCHANGED <<number, made, data, stack, handle, printed, asked>>
  BY <1>1, <1>4, <1>6 DEF Collect, Reversed, Unmoved, memory
<1>8. /\ L <= x[2] /\ a = <<x[1], x[2] - L>>
      /\ \A k \in 1..L : f[k] = <<x[1], x[2] - L + k>>
      /\ Prefix(x[1], x[2]) = Then(Prefix(x[1], 0), y[n])
  BY <1>2, <1>3, <1>4, <1>5 DEF Goes, Left
<1>9. PICK u \in Threads, m \in 0..MaxDepth : x = <<u, m>>
  BY DEF Root
<1>10. /\ m \in Nat /\ m - L \in 1..MaxDepth /\ m - L <= Depth(u)
       /\ previous[a] = IF m - L = 1 THEN Null ELSE <<u, m - L - 1>>
  <2>1. a = <<u, m - L>> /\ m \in Nat
    BY <1>8, <1>9
  <2>2. m - L \in 1..MaxDepth
    BY <1>5, <2>1 DEF Addr
  <2>3. m <= Depth(u) /\ Depth(u) \in Nat
    BY <1>0, <1>2, <1>3, <1>9 DEF Alive, EcTypeOK
  <2>4. m - L \in 1..Depth(u)
    BY <1>5, <2>1, <2>2, <2>3
  <2>5. PICK k \in 1..Depth(u) : k = m - L
    BY <2>4
  <2>6. previous[<<u, k>>] = IF k = 1 THEN Null ELSE <<u, k - 1>>
    BY DEF AliveInv, Lists
  <2> QED  BY <2>1, <2>2, <2>3, <2>4, <2>5, <2>6
<1>11. /\ <<a>> \o f \in Seq(Addr) /\ Len(<<a>> \o f) = L + 1
       /\ \A k \in 1..(L + 1) : (<<a>> \o f)[k] = IF k = 1 THEN a ELSE f[k - 1]
  <2>1. <<a>> \in Seq(Addr) /\ Len(<<a>>) = 1 /\ <<a>>[1] = a
    BY <1>5
  <2>2. /\ <<a>> \o f \in Seq(Addr)
        /\ Len(<<a>> \o f) = Len(<<a>>) + Len(f)
        /\ \A k \in 1..(Len(<<a>>) + Len(f)) :
             (<<a>> \o f)[k] =
                IF k <= Len(<<a>>) THEN <<a>>[k] ELSE f[k - Len(<<a>>)]
    BY ONLY <1>5, <2>1, ConcatProperties, Zenon
  <2>3. ASSUME NEW k \in 1..(L + 1)
        PROVE  (<<a>> \o f)[k] = IF k = 1 THEN a ELSE f[k - 1]
    <3>1. (k <= 1 <=> k = 1) /\ k \in 1..(1 + L)
      BY <1>5
    <3> QED  BY <1>4, <2>1, <2>2, <3>1
  <2> QED  BY <1>4, <1>5, <2>1, <2>2, <2>3
<1>12. Goes(c, x, y[n])
  <2>1. Len(c.found) = L + 1 /\ L + 1 <= x[2] /\ x[1] = u /\ x[2] = m
    BY <1>5, <1>6, <1>9, <1>10, <1>11
  <2>2. ASSUME NEW k \in 1..(L + 1) PROVE c.found[k] = <<x[1], x[2] - (L + 1) + k>>
    <3>1. CASE k = 1
      <4>1. x[2] - (L + 1) + k = x[2] - L
        BY <1>5, <1>10, <2>1, <3>1
      <4> QED  BY <1>6, <1>8, <1>11, <3>1, <4>1
    <3>2. CASE k # 1
      <4>1. k - 1 \in 1..L /\ x[2] - (L + 1) + k = x[2] - L + (k - 1)
        BY <1>5, <1>10, <2>1, <3>2
      <4>2. f[k - 1] = <<x[1], x[2] - L + (k - 1)>>
        BY <1>8, <4>1
      <4> QED  BY <1>6, <1>11, <3>2, <4>1, <4>2
    <3> QED  BY <3>1, <3>2
  <2>3. c.cursor # Null => c.cursor = <<x[1], x[2] - (L + 1)>>
    <3>1. m - L - 1 = m - (L + 1)
      BY <1>5, <1>10
    <3> QED  BY <1>6, <1>10, <2>1, <3>1
  <2>4. Left(c, x) = 0
    <3>1. CASE c.cursor = Null
      <4>1. m - L = 1
        <5>1. m - L # 1 => previous[a] = <<u, m - L - 1>> /\ <<u, m - L - 1>> \in Threads \X Nat
          BY <1>5, <1>10
        <5> QED  BY <1>6, <3>1, <5>1
      <4>2. x[2] - (L + 1) = 0
        BY <1>5, <1>10, <2>1, <4>1
      <4> QED  BY <2>1, <3>1, <4>2 DEF Left
    <3>2. CASE c.cursor # Null
      BY <3>2 DEF Left
    <3> QED  BY <3>1, <3>2
  <2> QED  BY <1>8, <2>1, <2>2, <2>3, <2>4, Zenon DEF Goes
<1>13. c \in Calls
  BY <1>0, <1>5, <1>6, <1>11 DEF Calls, EcTypeOK
<1>14. PICK s : s = <<c>>
  OBVIOUS
<1>15. s \in Seq(Calls) /\ Len(s) = 1 /\ s[1] = c
  BY <1>13, <1>14
<1>16. /\ walk'[t] \in Seq(Calls) /\ Len(walk'[t]) = n - 1 + 1
       /\ \A i \in 1..(n - 1) : walk'[t][i] = walk[t][i]
       /\ walk'[t][n - 1 + 1] = c
       /\ \A v \in Threads : v # t => walk'[v] = walk[v]
  <2>1. WithCall(t, s) /\ 1 \in 1..Len(s)
    BY <1>7, <1>14, <1>15
  <2>2. /\ walk' \in [Threads -> Seq(Calls)]
        /\ \A v \in Threads : v # t => walk'[v] = walk[v]
        /\ Len(walk'[t]) = n - 1 + Len(s)
        /\ \A i \in 1..(n - 1) : walk'[t][i] = walk[t][i]
        /\ \A i \in 1..Len(s) : walk'[t][n - 1 + i] = s[i]
    <3>1. walk[t] # <<>>
      BY DEF Collect
    <3>2. PICK l : l = Len(walk[t])
      OBVIOUS
    <3>3. /\ walk' \in [Threads -> Seq(Calls)]
          /\ \A v \in Threads : v # t => walk'[v] = walk[v]
          /\ Len(walk'[t]) = l - 1 + Len(s)
          /\ \A i \in 1..(l - 1) : walk'[t][i] = walk[t][i]
          /\ \A i \in 1..Len(s) : walk'[t][l - 1 + i] = s[i]
      BY ONLY <1>0, <1>15, <2>1, <3>1, <3>2, WithCallIs, t \in Threads
    <3> QED  BY <1>2, <3>2, <3>3, Zenon
  <2> QED  BY <1>15, <2>1, <2>2
<1>17. PICK z : z = walk'[t]
  OBVIOUS
<1>18. Len(z) = n /\ z[n] = c /\ \A i \in 1..(n - 1) : z[i] = walk[t][i]
  <2>1. n - 1 + 1 = n
    BY <1>2
  <2> QED  BY <1>16, <1>17, <2>1
<1>19. PICK v, p : Frames(t, z, r, v, p) /\ p[n] = Then(y[n], q[n - 1])
  <2>1. Goes(z[n], r[n], y[n])
    BY <1>3, <1>12, <1>18
  <2>2. PICK wk, w : wk = walk[t] /\ w = y[n]
    OBVIOUS
  <2>3. /\ Frames(t, wk, r, y, q) /\ n \in Nat /\ n = Len(wk) /\ n > 0 /\ Len(z) = n
        /\ w \in Seq(Nat) /\ Goes(z[n], r[n], w)
        /\ \A i \in 1..(n - 1) : z[i] = wk[i]
    BY <1>2, <1>18, <2>1, <2>2
  <2>4. \E v, p : Frames(t, z, r, v, p) /\ p[n] = Then(w, q[n - 1])
    BY ONLY <2>3, FrameReplaced, SMTT(40)
  <2> QED  BY <2>2, <2>4
<1>20. Printing(t, z, printed[t], asked[t])
  <2>1. asked[t] = Then(printed[t], p[Len(z)]) /\ Len(z) # 0
    BY <1>2, <1>18, <1>19
  <2> QED  BY <1>2, <1>19, <2>1, Zenon DEF Printing
<1>21. Printing(t, walk'[t], printed'[t], asked'[t])
  BY <1>7, <1>17, <1>20
<1>22. printed' \in [Threads -> Seq(Nat)] /\ asked' \in [Threads -> Seq(Nat)]
  BY <1>0, <1>7 DEF TextTypes
<1> QED  BY <1>7, <1>16, <1>21, <1>22, WalkKeepsText


(* Where a call is done it has nothing left to print, and returns.          *)
LEMMA DoneIs ==
  ASSUME TextTypes, NEW c, c \in Calls, NEW x \in Root, Alive(x), NEW w, w \in Seq(Nat),
         Goes(c, x, w), c.cursor = Null, c.found = <<>>
  PROVE  w = <<>>
<1>1. x[2] \in Nat /\ x[1] \in Threads
  BY DEF Root
<1>2. Left(c, x) = x[2]
  <2>1. Len(c.found) = 0
    OBVIOUS
  <2> QED  BY <1>1, <2>1 DEF Left
<1>3. PICK p : p = Prefix(x[1], x[2])
  OBVIOUS
<1>4. p \in Seq(Nat)
  <2>1. stack[x[1]] \in Seq(Seq(Nat)) /\ x[2] \in 0..Len(stack[x[1]])
    BY <1>1 DEF TextTypes, Alive, Depth
  <2> QED  BY <1>3, <2>1, PrefixType
<1>5. p = Then(p, w)
  BY <1>2, <1>3, Zenon DEF Goes
<1>6. p = Then(p, <<>>) /\ <<>> \in Seq(Nat)
  BY <1>4, ThenEmpty
<1>7. PICK e : e = <<>>
  OBVIOUS
<1>8. p \in Seq(Nat) /\ w \in Seq(Nat) /\ e \in Seq(Nat) /\ Then(p, w) = Then(p, e)
  BY <1>4, <1>5, <1>6, <1>7, Zenon
<1>9. w = e
  BY ONLY <1>8, ThenCancel, SMT
<1> QED  BY <1>7, <1>9

(* A call that returns leaves what those around it will print.              *)
LEMMA ReturnKeepsText ==
  ASSUME AliveInv, TextInv, PrintInv, NEW t \in Threads, Return(t)
  PROVE  TextInv' /\ PrintInv'
<1>0. TextTypes /\ EcTypeOK
  BY DEF TextInv, AliveInv
<1>1. /\ walk[t] # <<>> /\ Call(t).cursor = Null /\ Call(t).found = <<>>
      /\ WithCall(t, <<>>)
      /\ UNCHANGED <<number, made, data, stack, handle>>
      /\ IF Len(walk[t]) > 1
         THEN UNCHANGED <<printed, asked>>
         ELSE /\ printed' = [printed EXCEPT ![t] = <<>>]
              /\ asked' = [asked EXCEPT ![t] = <<>>]
  BY DEF Return, Done, Unmoved, memory
<1>2. PICK n, r, y, q :
        /\ n \in Nat /\ n = Len(walk[t]) /\ n > 0
        /\ Frames(t, walk[t], r, y, q)
        /\ asked[t] = Prefix(r[1][1], r[1][2])
        /\ asked[t] = Then(printed[t], q[n])
        /\ Call(t) = walk[t][n] /\ Call(t) \in Calls
        /\ r[n] \in Root /\ Alive(r[n]) /\ Goes(Call(t), r[n], y[n])
        /\ y[n] \in Seq(Nat) /\ q[n] = Then(y[n], q[n - 1]) /\ q[n - 1] \in Seq(Nat)
  BY <1>1, InnermostIs, ZenonT(60)
<1>3. y[n] = <<>>
  BY <1>0, <1>1, <1>2, DoneIs, Zenon
<1>4. q[n] = q[n - 1]
  <2>1. Then(<<>>, q[n - 1]) = q[n - 1]
    BY <1>2, ThenEmpty
  <2> QED  BY <1>2, <1>3, <2>1, Zenon
<1>5. PICK s : s = <<>>
  OBVIOUS
<1>6. s \in Seq(Calls) /\ Len(s) = 0 /\ WithCall(t, s)
  BY <1>1, <1>5
<1>7. /\ walk' \in [Threads -> Seq(Calls)]
      /\ \A v \in Threads : v # t => walk'[v] = walk[v]
      /\ Len(walk'[t]) = n - 1 + Len(s)
      /\ \A i \in 1..(n - 1) : walk'[t][i] = walk[t][i]
  <2>1. PICK l : l = Len(walk[t])
    OBVIOUS
  <2>2. walk[t] # <<>>
    BY <1>1
  <2>3. /\ walk' \in [Threads -> Seq(Calls)]
        /\ \A v \in Threads : v # t => walk'[v] = walk[v]
        /\ Len(walk'[t]) = l - 1 + Len(s)
        /\ \A i \in 1..(l - 1) : walk'[t][i] = walk[t][i]
    BY ONLY <1>0, <1>6, <2>1, <2>2, WithCallIs, t \in Threads
  <2> QED  BY <1>2, <2>1, <2>3, Zenon
<1>8. PICK z, m : z = walk'[t] /\ m = n - 1
  OBVIOUS
<1>9. /\ m \in Nat /\ Len(z) = m /\ m <= Len(walk[t]) /\ Len(walk[t]) \in Nat
      /\ \A i \in 1..m : z[i] = walk[t][i]
  BY <1>2, <1>6, <1>7, <1>8
<1>10. Frames(t, z, r, y, q)
  BY <1>2, <1>9, FramePopped, Zenon
<1>11. Printing(t, walk'[t], printed'[t], asked'[t])
  <2>1. CASE Len(walk[t]) > 1
    <3>1. Len(z) # 0
      BY <1>2, <1>8, <1>9, <2>1
    <3>2. q[Len(z)] = q[n]
      BY <1>4, <1>8, <1>9
    <3>3. Printing(t, z, printed[t], asked[t])
      BY <1>2, <1>10, <3>1, <3>2, Zenon DEF Printing
    <3> QED  BY <1>1, <1>8, <2>1, <3>3
  <2>2. CASE ~(Len(walk[t]) > 1)
    <3>0. n \in Nat /\ n > 0 /\ ~(n > 1)
      BY <1>2, <2>2, Zenon
    <3>1. Len(z) = 0
      BY ONLY <1>8, <1>9, <3>0
    <3>2. printed'[t] = <<>> /\ asked'[t] = <<>>
      BY <1>0, <1>1, <2>2 DEF TextTypes
    <3> QED  BY <1>8, <3>1, <3>2, Zenon DEF Printing
  <2> QED  BY <2>1, <2>2
<1>12. printed' \in [Threads -> Seq(Nat)] /\ asked' \in [Threads -> Seq(Nat)]
  <2>1. <<>> \in Seq(Nat)
    OBVIOUS
  <2>2. CASE Len(walk[t]) > 1
    BY <1>0, <1>1, <2>2 DEF TextTypes
  <2>3. CASE ~(Len(walk[t]) > 1)
    <3>1. /\ printed' = [printed EXCEPT ![t] = <<>>]
          /\ asked' = [asked EXCEPT ![t] = <<>>]
      BY <1>1, <2>3, Zenon
    <3> QED  BY <1>0, <2>1, <3>1 DEF TextTypes
  <2> QED  BY <2>2, <2>3
<1>13. ASSUME NEW u \in Threads, u # t
       PROVE  walk'[u] = walk[u] /\ printed'[u] = printed[u] /\ asked'[u] = asked[u]
  BY <1>0, <1>1, <1>7, <1>13 DEF TextTypes
<1>14. walk'[t] \in Seq(Calls)
  BY <1>7
<1> QED  BY <1>1, <1>11, <1>12, <1>13, <1>14, WalkKeepsText

(***************************************************************************)
(* At the next entry to print, a: what is left is its number, the text of  *)
(* the handle it holds, and w, which the call prints after it.             *)
(***************************************************************************)
AtEntry(c, x, y, a, rest) ==
  /\ c \in Calls /\ x \in Root /\ Alive(x) /\ y \in Seq(Nat) /\ Goes(c, x, y)
  /\ c.cursor = Null /\ c.found # <<>> /\ a = Head(c.found)
  /\ rest = [c EXCEPT !.found = Tail(@)]
Ahead(c, x, y, a, rest) ==
  /\ a \in Addr /\ Alive(a) /\ Below(a, x)
  /\ a[2] = x[2] - Len(c.found) + 1
  /\ Prefix(x[1], x[2]) = Then(Prefix(x[1], a[2] - 1), y)
  /\ Prefix(x[1], a[2] - 1) \in Seq(Nat)
  /\ \E w \in Seq(Nat) :
       /\ y = Then(Then(<<number[a]>>, data[a].text), w)
       /\ Goes(rest, x, w)

(* The lists and texts of the threads say so of every call that has something *)
(* left to print.                                                             *)
LEMMA NextEntry ==
  ASSUME AliveInv, TextInv, NEW c, NEW x, NEW y, NEW a, NEW rest,
         AtEntry(c, x, y, a, rest)
  PROVE  Ahead(c, x, y, a, rest)
<1>a. /\ c \in Calls /\ x \in Root /\ Alive(x) /\ y \in Seq(Nat) /\ Goes(c, x, y)
      /\ c.cursor = Null /\ c.found # <<>> /\ a = Head(c.found)
      /\ rest = [c EXCEPT !.found = Tail(@)]
  BY Zenon DEF AtEntry
<1>0. TextTypes /\ EcTypeOK
  BY DEF TextInv, AliveInv
<1>1. PICK f \in Seq(Addr) : f = c.found /\ f # <<>>
  BY <1>a DEF Calls
<1>2. PICK L : L = Len(f)
  OBVIOUS
<1>3. PICK u \in Threads, m \in 0..MaxDepth : x = <<u, m>>
  BY <1>a DEF Root
<1>4. L \in Nat /\ L > 0 /\ m \in Nat /\ x[1] = u /\ x[2] = m
  BY <1>1, <1>2, <1>3
<1>5. /\ L <= m /\ \A k \in 1..L : f[k] = <<u, m - L + k>>
      /\ Left(c, x) = m - L
  BY <1>a, <1>1, <1>2, <1>4 DEF Goes, Left
<1>6. PICK k : k = m - L
  OBVIOUS
<1>7. k \in Nat /\ k + 1 \in 1..m /\ k + 1 \in 1..MaxDepth /\ k + 1 - 1 = k /\ m - L + 1 = k + 1
  BY <1>3, <1>4, <1>5, <1>6
<1>8. a = <<u, k + 1>> /\ a \in Addr
  <2>1. a = f[1] /\ 1 \in 1..L
    BY <1>a, <1>1, <1>2, <1>4
  <2>2. a = <<u, k + 1>>
    BY <1>5, <1>7, <2>1
  <2> QED  BY <1>7, <2>2 DEF Addr
<1>9. m <= Depth(u) /\ Depth(u) \in Nat
  BY <1>a, <1>0, <1>4 DEF Alive, EcTypeOK
<1>10. Alive(a) /\ Below(a, x) /\ a[1] = u /\ a[2] = k + 1
  BY <1>a, <1>4, <1>7, <1>8, <1>9 DEF Alive, Below
<1>11. PICK s : s = stack[u] /\ s \in Seq(Seq(Nat)) /\ Len(s) = Depth(u)
  BY <1>0 DEF TextTypes, Depth
<1>l. Len(s) \in Nat /\ m <= Len(s) /\ k + 1 <= Len(s)
  <2>1. PICK l : l = Len(s)
    OBVIOUS
  <2>2. l = Depth(u)
    BY <1>11, <2>1, Zenon
  <2>3. l \in Nat /\ m <= l /\ k + 1 <= l
    BY <1>4, <1>7, <1>9, <2>2
  <2> QED  BY <2>1, <2>3, Zenon
<1>12. Prefix(u, k) \in Seq(Nat) /\ Prefix(u, k + 1) \in Seq(Nat)
  <2>1. k \in 0..Len(s) /\ k + 1 \in 0..Len(s)
    BY <1>7, <1>l
  <2> QED  BY <1>11, <2>1, FlattenType DEF Prefix
<1>13. Prefix(u, k + 1) = Then(Prefix(u, k), s[k + 1])
  <2>1. PICK j : j = k + 1
    OBVIOUS
  <2>2. j \in 1..Len(s) /\ j - 1 = k
    BY <1>7, <1>l, <2>1
  <2>3. UpTo(s, j - 1) \in Seq(Nat)
    BY <1>11, <1>12, <2>2 DEF Prefix
  <2>4. UpTo(s, j) = Then(UpTo(s, j - 1), s[j])
    BY <1>11, <2>2, <2>3, FlattenOneMore, Zenon
  <2> QED  BY <1>11, <2>1, <2>2, <2>4 DEF Prefix
<1>14. PICK w \in Seq(Nat) : Prefix(u, m) = Then(Prefix(u, k + 1), w)
  <2>1. PICK j : j = k + 1
    OBVIOUS
  <2>2. j \in 0..Len(s) /\ m \in j..Len(s)
    BY <1>4, <1>7, <1>l, <2>1
  <2>3. \E w \in Seq(Nat) : UpTo(s, m) = Then(UpTo(s, j), w)
    BY ONLY <1>11, <2>2, FlattenGrows
  <2> QED  BY <1>11, <2>1, <2>3 DEF Prefix
<1>15. /\ s[k + 1] = Then(<<number[a]>>, data[a].text)
       /\ s[k + 1] \in Seq(Nat)
  <2>1. stack[a[1]][a[2]] = Then(<<number[a]>>, data[a].text)
    BY <1>8, <1>10 DEF TextInv
  <2>2. s[k + 1] = Then(<<number[a]>>, data[a].text)
    BY <1>10, <1>11, <2>1, Zenon
  <2>3. k + 1 \in 1..Len(s)
    BY <1>7, <1>l
  <2>4. s[k + 1] \in Seq(Nat)
    BY <1>11, <2>3
  <2> QED  BY <2>2, <2>4
<1>16. Prefix(u, m) = Then(Prefix(u, k), y)
  BY <1>a, <1>4, <1>5, <1>6, Zenon DEF Goes
<1>17. y = Then(s[k + 1], w)
  <2>1. PICK p, e : p = Prefix(u, k) /\ e = s[k + 1]
    OBVIOUS
  <2>2. /\ Then(p, y) = Then(Then(p, e), w)
        /\ p \in Seq(Nat) /\ e \in Seq(Nat) /\ w \in Seq(Nat) /\ y \in Seq(Nat)
    BY <1>a, <1>12, <1>13, <1>14, <1>15, <1>16, <2>1, Zenon
  <2>3. Then(Then(p, e), w) = Then(p, Then(e, w)) /\ Then(e, w) \in Seq(Nat)
    BY ONLY <2>2, ThenAssociative, ThenType, SMT
  <2>4. y = Then(e, w)
    BY ONLY <2>2, <2>3, ThenCancel, SMT
  <2> QED  BY <2>1, <2>4
<1>19. /\ rest.cursor = Null /\ rest.found = Tail(f)
       /\ Len(Tail(f)) = L - 1 /\ \A i \in 1..(L - 1) : Tail(f)[i] = f[i + 1]
  <2>1. rest.cursor = Null /\ rest.found = Tail(f)
    BY <1>a, <1>1 DEF Calls
  <2>2. Len(Tail(f)) = L - 1 /\ \A i \in 1..(L - 1) : Tail(f)[i] = f[i + 1]
    BY <1>1, <1>2, <1>4
  <2> QED  BY <2>1, <2>2
<1>20. Goes(rest, x, w)
  <2>1. Len(rest.found) = L - 1 /\ L - 1 <= x[2]
    <3>1. L - 1 <= x[2]
      BY <1>4, <1>5
    <3> QED  BY <1>19, <3>1, Zenon
  <2>2. ASSUME NEW i \in 1..(L - 1) PROVE rest.found[i] = <<x[1], x[2] - (L - 1) + i>>
    <3>1. i + 1 \in 1..L /\ m - L + (i + 1) = x[2] - (L - 1) + i
      BY <1>4
    <3>2. f[i + 1] = <<u, m - L + (i + 1)>>
      BY <1>5, <3>1
    <3> QED  BY <1>4, <1>19, <3>1, <3>2
  <2>3. Left(rest, x) = k + 1
    BY <1>4, <1>5, <1>6, <1>19, <2>1 DEF Left
  <2>4. Prefix(x[1], x[2]) = Then(Prefix(x[1], Left(rest, x)), w)
    BY <1>4, <1>14, <2>3, Zenon
  <2> QED  BY <1>19, <2>1, <2>2, <2>4, Zenon DEF Goes
<1>21. \E v \in Seq(Nat) :
         /\ y = Then(Then(<<number[a]>>, data[a].text), v)
         /\ Goes(rest, x, v)
  <2>1. y = Then(Then(<<number[a]>>, data[a].text), w)
    BY <1>15, <1>17, Zenon
  <2> QED  BY <1>14, <1>20, <2>1, Zenon
<1>22. a[2] = x[2] - Len(c.found) + 1
  BY <1>a, <1>1, <1>2, <1>4, <1>7, <1>10
<1>23. a[2] - 1 = k
  <2>1. a[2] = k + 1
    BY <1>10
  <2>2. PICK g : g = a[2]
    OBVIOUS
  <2>3. g - 1 = k
    BY <1>7, <2>1, <2>2
  <2> QED  BY <2>2, <2>3, Zenon
<1>24. Prefix(x[1], x[2]) = Then(Prefix(x[1], a[2] - 1), y) /\ Prefix(x[1], a[2] - 1) \in Seq(Nat)
  BY <1>4, <1>12, <1>16, <1>23, Zenon
<1> QED  BY <1>8, <1>10, <1>21, <1>22, <1>24, Zenon DEF Ahead


(* An entry is printed: its number is now in the result, and the text of    *)
(* its handle is what the call that begins there will print.                *)
LEMMA PrintValueKeepsText ==
  ASSUME AliveInv, TextInv, PrintInv, NEW t \in Threads, PrintValue(t), crashed' = {}
  PROVE  TextInv' /\ PrintInv'
<1>0. TextTypes /\ EcTypeOK
  BY DEF TextInv, AliveInv
<1>1. PICK cc, a, rest : /\ cc = Call(t) /\ a = Head(cc.found)
                         /\ rest = [cc EXCEPT !.found = Tail(@)]
  OBVIOUS
<1>2. /\ walk[t] # <<>> /\ cc.cursor = Null /\ cc.found # <<>>
      /\ printed' = [printed EXCEPT ![t] = Append(@, number[a])]
      /\ WithCall(t, Nested(a, rest))
      /\ UNCHANGED <<number, made, data, stack, handle, asked>>
  BY <1>1 DEF PrintValue, Unmoved, memory
<1>3. PICK n, r, y, q :
        /\ n \in Nat /\ n = Len(walk[t]) /\ n > 0
        /\ Frames(t, walk[t], r, y, q)
        /\ asked[t] = Prefix(r[1][1], r[1][2])
        /\ asked[t] = Then(printed[t], q[n])
        /\ cc = walk[t][n] /\ cc \in Calls
        /\ r[n] \in Root /\ Alive(r[n]) /\ Goes(cc, r[n], y[n])
        /\ y[n] \in Seq(Nat) /\ q[n] = Then(y[n], q[n - 1]) /\ q[n - 1] \in Seq(Nat)
  BY <1>1, <1>2, InnermostIs, ZenonT(60)
<1>4. PICK x \in Root : x = r[n]
  BY <1>3
<1>5. PICK yn : yn = y[n]
  OBVIOUS
<1>6. /\ a \in Addr /\ Alive(a) /\ Below(a, x)
      /\ \E w \in Seq(Nat) :
           /\ yn = Then(Then(<<number[a]>>, data[a].text), w)
           /\ Goes(rest, x, w)
  <2>1. /\ cc \in Calls /\ x \in Root /\ Alive(x) /\ yn \in Seq(Nat) /\ Goes(cc, x, yn)
        /\ cc.cursor = Null /\ cc.found # <<>> /\ a = Head(cc.found)
        /\ rest = [cc EXCEPT !.found = Tail(@)]
    BY <1>1, <1>2, <1>3, <1>4, <1>5, Zenon
  <2>2. AtEntry(cc, x, yn, a, rest)
    BY <2>1, Zenon DEF AtEntry
  <2>3. Ahead(cc, x, yn, a, rest)
    BY <2>2, NextEntry, Zenon
  <2> QED  BY <2>3, Zenon DEF Ahead
<1>7. PICK w \in Seq(Nat) : /\ yn = Then(Then(<<number[a]>>, data[a].text), w)
                            /\ Goes(rest, x, w)
  BY <1>1, <1>6, Zenon
<1>8. PICK d, e : d = data[a] /\ e = <<number[a]>>
  OBVIOUS
<1>9. /\ d.ec \in Addr \cup {Null} /\ d.text \in Seq(Nat) /\ d.text = ListText(d.ec)
      /\ number[a] \in Nat /\ e \in Seq(Nat)
  <2>1. data[a] \in [ec : Addr \cup {Null}, text : Seq(Nat)]
    BY <1>0, <1>6 DEF TextTypes
  <2>2. data[a].text = ListText(data[a].ec)
    BY <1>6 DEF TextInv
  <2>3. number[a] \in Nat
    BY <1>0, <1>6 DEF TextTypes
  <2> QED  BY <1>8, <2>1, <2>2, <2>3
<1>10. PICK p, w2, q1 : p = printed[t] /\ w2 = d.text /\ q1 = q[n - 1]
  OBVIOUS
<1>11. p \in Seq(Nat) /\ w2 \in Seq(Nat) /\ q1 \in Seq(Nat)
  BY <1>0, <1>3, <1>9, <1>10 DEF TextTypes
<1>12. printed'[t] = Then(p, e) /\ Then(p, e) \in Seq(Nat)
  <2>1. Append(p, number[a]) = Then(p, <<number[a]>>)
    BY <1>9, <1>11, ThenAppend
  <2>2. printed'[t] = Append(p, number[a])
    BY <1>0, <1>2, <1>10 DEF TextTypes
  <2> QED  BY <1>8, <1>9, <1>11, <2>1, <2>2, ThenType, Zenon
<1>13. asked[t] = Then(Then(p, e), Then(w2, Then(w, q1)))
  <2>1. asked[t] = Then(p, Then(Then(Then(e, w2), w), q1))
    BY <1>3, <1>5, <1>7, <1>8, <1>10, Zenon
  <2>2. w \in Seq(Nat) /\ p \in Seq(Nat) /\ w2 \in Seq(Nat) /\ q1 \in Seq(Nat) /\ e \in Seq(Nat)
    BY <1>9, <1>11
  <2>3. PICK v : v = Then(w, q1)
    OBVIOUS
  <2>4. v \in Seq(Nat) /\ Then(e, w2) \in Seq(Nat) /\ Then(w2, v) \in Seq(Nat)
    BY <2>2, <2>3, ThenType, Zenon
  <2>5. Then(Then(Then(e, w2), w), q1) = Then(Then(e, w2), v)
    BY ONLY <2>2, <2>3, <2>4, ThenAssociative, SMT
  <2>6. Then(Then(e, w2), v) = Then(e, Then(w2, v))
    BY ONLY <2>2, <2>4, ThenAssociative, SMT
  <2>7. Then(p, Then(e, Then(w2, v))) = Then(Then(p, e), Then(w2, v))
    BY ONLY <2>2, <2>4, ThenAssociative, SMT
  <2> QED  BY <2>1, <2>3, <2>5, <2>6, <2>7, Zenon
<1>14. Then(w, q1) \in Seq(Nat)
  BY <1>11, ThenType, Zenon
<1>15. rest \in Calls
  <2>1. PICK f \in Seq(Addr) : f = cc.found /\ f # <<>>
    BY <1>2, <1>3 DEF Calls
  <2>2. Tail(f) \in Seq(Addr)
    BY <2>1
  <2> QED  BY <1>1, <1>3, <2>1, <2>2 DEF Calls
<1>16. PICK s : s = Nested(a, rest)
  OBVIOUS
<1>17. PICK z : z = walk'[t]
  OBVIOUS
<1>18. ASSUME s \in Seq(Calls)
       PROVE  /\ z \in Seq(Calls) /\ Len(z) = n - 1 + Len(s)
              /\ \A v \in Threads : v # t => walk'[v] = walk[v]
              /\ \A i \in 1..(n - 1) : z[i] = walk[t][i]
              /\ \A i \in 1..Len(s) : z[n - 1 + i] = s[i]
  <2>1. PICK l : l = Len(walk[t])
    OBVIOUS
  <2>2. walk[t] # <<>> /\ s \in Seq(Calls) /\ WithCall(t, s)
    BY <1>2, <1>16, <1>18
  <2>3. /\ walk' \in [Threads -> Seq(Calls)]
        /\ \A v \in Threads : v # t => walk'[v] = walk[v]
        /\ Len(walk'[t]) = l - 1 + Len(s)
        /\ \A i \in 1..(l - 1) : walk'[t][i] = walk[t][i]
        /\ \A i \in 1..Len(s) : walk'[t][l - 1 + i] = s[i]
    BY ONLY <1>0, <2>1, <2>2, WithCallIs, t \in Threads
  <2>4. z \in Seq(Calls)
    BY <1>17, <2>3
  <2> QED  BY <1>3, <1>17, <2>1, <2>3, <2>4, Zenon
<1>19. ASSUME NEW g, Len(g) = n, g[n] = rest, \A i \in 1..(n - 1) : g[i] = walk[t][i]
       PROVE  \E v, h : Frames(t, g, r, v, h) /\ h[n] = Then(w, q1)
  <2>1. PICK wk : wk = walk[t]
    OBVIOUS
  <2>2. /\ Frames(t, wk, r, y, q) /\ n \in Nat /\ n = Len(wk) /\ n > 0 /\ Len(g) = n
        /\ w \in Seq(Nat) /\ Goes(g[n], r[n], w)
        /\ \A i \in 1..(n - 1) : g[i] = wk[i]
    BY <1>3, <1>4, <1>7, <1>19, <2>1, Zenon
  <2>3. \E v, h : Frames(t, g, r, v, h) /\ h[n] = Then(w, q[n - 1])
    BY ONLY <2>2, FrameReplaced
  <2> QED  BY <1>10, <2>3
<1>20. /\ s \in Seq(Calls)
       /\ Printing(t, z, printed'[t], asked[t])
  <2>1. CASE d.ec = Null
    <3>1. s = <<rest>>
      BY <1>8, <1>16, <2>1 DEF Nested
    <3>2. s \in Seq(Calls) /\ Len(s) = 1 /\ s[1] = rest
      BY <1>15, <3>1
    <3>3. Len(z) = n /\ z[n] = rest /\ \A i \in 1..(n - 1) : z[i] = walk[t][i]
      <4>1. 1 \in 1..Len(s) /\ n - 1 + 1 = n
        BY <1>3, <3>2
      <4> QED  BY <1>18, <3>2, <4>1
    <3>4. PICK v, h : Frames(t, z, r, v, h) /\ h[n] = Then(w, q1)
      BY <1>19, <3>3
    <3>5. w2 = <<>>
      BY <1>9, <1>10, <2>1 DEF ListText
    <3>6. asked[t] = Then(printed'[t], h[Len(z)])
      <4>1. Then(w2, Then(w, q1)) = Then(w, q1)
        BY <1>14, <3>5, ThenEmpty
      <4> QED  BY <1>12, <1>13, <3>3, <3>4, <4>1, Zenon
    <3>7. Len(z) # 0 /\ asked[t] = Prefix(r[1][1], r[1][2])
      BY <1>3, <3>3
    <3> QED  BY <3>2, <3>4, <3>6, <3>7, Zenon DEF Printing
  <2>2. CASE d.ec # Null
    <3>1. PICK b, k : b = d.ec /\ k = [cursor |-> b, found |-> <<>>]
      OBVIOUS
    <3>2. s = <<rest, k>> /\ b \in Addr /\ Alive(b) /\ b = data[a].ec
      <4>1. s = <<rest, k>>
        BY <1>8, <1>16, <2>2, <3>1 DEF Nested
      <4>2. b \in Addr /\ b = data[a].ec
        BY <1>8, <1>9, <2>2, <3>1
      <4>3. Alive(b)
        BY <1>6, <2>2, <3>1, <1>8 DEF AliveInv, Pins
      <4> QED  BY <4>1, <4>2, <4>3
    <3>3. k \in Calls
      BY <3>1, <3>2 DEF Calls
    <3>4. s \in Seq(Calls) /\ Len(s) = 2 /\ s[1] = rest /\ s[2] = k
      BY <1>15, <3>2, <3>3
    <3>5. /\ Len(z) = n + 1 /\ z[n] = rest /\ z[n + 1] = k
          /\ \A i \in 1..(n - 1) : z[i] = walk[t][i]
      <4>1. /\ 1 \in 1..Len(s) /\ 2 \in 1..Len(s) /\ n - 1 + 1 = n
            /\ n - 1 + 2 = n + 1
        BY <1>3, <3>4
      <4>2. z[n - 1 + 1] = s[1] /\ z[n - 1 + 2] = s[2]
        BY <1>18, <3>4, <4>1
      <4> QED  BY <1>18, <3>4, <4>1, <4>2
    <3>7. PICK g2 \in Seq(Calls) : g2 = SubSeq(z, 1, n) /\ Len(g2) = n /\ \A i \in 1..n : g2[i] = z[i]
      <4>1. z \in Seq(Calls) /\ n \in 0..Len(z)
        BY <1>3, <1>18, <3>4, <3>5
      <4> QED  BY <4>1, Beginning, ZenonT(60)
    <3>8. g2[n] = rest /\ \A i \in 1..(n - 1) : g2[i] = walk[t][i]
      <4>1. n \in 1..n /\ \A i \in 1..(n - 1) : i \in 1..n
        BY <1>3
      <4> QED  BY <3>5, <3>7, <4>1
    <3>9. PICK v, h : Frames(t, g2, r, v, h) /\ h[n] = Then(w, q1)
      BY <1>19, <3>7, <3>8
    <3>10. Goes(k, b, w2)
      <4>1. b[2] \in Nat /\ b[1] \in Threads /\ b = <<b[1], b[2]>> /\ b # Null
        BY <2>2, <3>1, <3>2 DEF Addr
      <4>2. k.cursor = b /\ k.found = <<>> /\ Len(k.found) = 0
        BY <3>1
      <4>3. Left(k, b) = 0
        BY <4>1, <4>2 DEF Left
      <4>4. Prefix(b[1], 0) = <<>>
        <5>1. stack[b[1]] \in Seq(Seq(Nat)) /\ 0 \in 0..Len(stack[b[1]])
          BY <1>0, <4>1 DEF TextTypes
        <5> QED  BY <5>1, FlattenType DEF Prefix
      <4>5. w2 = Prefix(b[1], b[2])
        BY <1>9, <1>10, <2>2, <3>1 DEF ListText
      <4>6. Then(<<>>, w2) = w2
        BY <1>11, ThenEmpty
      <4>7. Prefix(b[1], b[2]) = Then(Prefix(b[1], Left(k, b)), w2)
        BY <4>3, <4>4, <4>5, <4>6, Zenon
      <4>8. b[2] - Len(k.found) = b[2] /\ Len(k.found) <= b[2] /\ ~(\E i : i \in 1..Len(k.found))
        BY <4>1, <4>2
      <4>9. k.cursor = <<b[1], b[2] - Len(k.found)>>
        BY <4>1, <4>2, <4>8
      <4> QED  BY <4>7, <4>8, <4>9, Zenon DEF Goes
    <3>11. PICK r3, v3, h3 : /\ Frames(t, z, r3, v3, h3)
                             /\ h3[n + 1] = Then(w2, h[n])
                             /\ r3[1] = r[1]
      <4>1. /\ Frames(t, g2, r, v, h) /\ n \in Nat /\ n = Len(g2) /\ Len(z) = n + 1
            /\ h[n] \in Seq(Nat) /\ b \in Root /\ Alive(b) /\ w2 \in Seq(Nat)
            /\ Goes(z[n + 1], b, w2) /\ n > 0
            /\ \A i \in 1..n : z[i] = g2[i]
        <5>1. b \in Root
          BY <3>2 DEF Addr, Root
        <5>2. \A i \in 1..n : z[i] = g2[i]
          BY <3>7
        <5>3. h[n] \in Seq(Nat)
          BY <1>14, <3>9
        <5> QED  BY <1>3, <1>11, <3>2, <3>5, <3>7, <3>9, <3>10, <5>1, <5>2, <5>3, Zenon
      <4>2. MayBegin(t, r, n, b)
        <5>1. n # 0 /\ \E c \in Addr : Below(c, r[n]) /\ data[c].ec = b
          BY <1>3, <1>4, <1>6, <3>2
        <5> QED  BY <5>1, Zenon DEF MayBegin
      <4>3. Entered(t, r, h, n, z, b, w2)
        <5>1. Enters(t, g2, r, v, h, n, z, b, w2)
          BY <4>1, <4>2, Zenon DEF Enters
        <5> QED  BY <5>1, FramePushed, Zenon
      <4> QED  BY <4>1, <4>3, Zenon DEF Entered
    <3>12. asked[t] = Then(printed'[t], h3[Len(z)])
      BY <1>12, <1>13, <3>5, <3>9, <3>11, Zenon
    <3>13. Len(z) # 0 /\ asked[t] = Prefix(r3[1][1], r3[1][2])
      <4>1. Len(z) # 0
        BY <1>3, <3>5
      <4> QED  BY <1>3, <3>11, <4>1, Zenon
    <3> QED  BY <3>4, <3>11, <3>12, <3>13, Zenon DEF Printing
  <2> QED  BY <2>1, <2>2
<1>21. printed' \in [Threads -> Seq(Nat)] /\ asked' \in [Threads -> Seq(Nat)]
  <2>1. printed' = [printed EXCEPT ![t] = printed'[t]] /\ printed'[t] \in Seq(Nat)
    BY <1>0, <1>2, <1>12 DEF TextTypes
  <2> QED  BY <1>0, <1>2, <2>1 DEF TextTypes
<1>22. ASSUME NEW u \in Threads, u # t
       PROVE  walk'[u] = walk[u] /\ printed'[u] = printed[u] /\ asked'[u] = asked[u]
  BY <1>0, <1>2, <1>18, <1>20, <1>22 DEF TextTypes
<1>23. walk'[t] \in Seq(Calls) /\ Printing(t, walk'[t], printed'[t], asked'[t])
  BY <1>2, <1>17, <1>18, <1>20
<1> QED  BY <1>2, <1>21, <1>22, <1>23, WalkKeepsText

-----------------------------------------------------------------------------
(* A context is begun above all others of its thread.                       *)
LEMMA ConstructDepth ==
  ASSUME AliveInv, TextTypes, NEW t \in Threads, Construct(t)
  PROVE  /\ Depth(t) \in Nat /\ Top(t)' = <<t, Depth(t) + 1>>
         /\ \A u \in Threads : u # t => Top(u)' = Top(u)
         /\ \A b \in Addr : Alive(b)' => Alive(b) \/ b = <<t, Depth(t) + 1>>
         /\ ~Alive(<<t, Depth(t) + 1>>)
<1>1. EcTypeOK
  BY DEF AliveInv
<1>2. PICK e : stack' = [stack EXCEPT ![t] = Append(@, e)]
  BY Zenon DEF Construct
<1>3. PICK s \in Seq(Seq(Nat)) : s = stack[t]
  BY DEF TextTypes
<1>4. stack'[t] = Append(s, e) /\ \A u \in Threads : u # t => stack'[u] = stack[u]
  BY <1>2, <1>3 DEF TextTypes
<1>5. Len(Append(s, e)) = Len(s) + 1 /\ Len(s) \in Nat
  <2>1. IsSeq(s)
    BY DEF IsSeq
  <2> QED  BY <2>1, Pushed
<1>6. Depth(t) \in Nat /\ Depth(t)' = Depth(t) + 1
  BY <1>3, <1>4, <1>5 DEF Depth
<1>7. \A u \in Threads : u # t => Depth(u)' = Depth(u)
  BY <1>4 DEF Depth
<1>8. Top(t)' = <<t, Depth(t) + 1>> /\ \A u \in Threads : u # t => Top(u)' = Top(u)
  BY <1>6, <1>7 DEF Top
<1>9. ASSUME NEW b \in Addr, Alive(b)' PROVE Alive(b) \/ b = <<t, Depth(t) + 1>>
  <2>1. PICK u \in Threads, k \in 1..MaxDepth : b = <<u, k>>
    BY DEF Addr
  <2>2. k <= Depth(u)' /\ k \in Nat
    BY <1>9, <2>1 DEF Alive
  <2>3. CASE u = t
    <3>1. k <= Depth(t) \/ k = Depth(t) + 1
      BY <1>6, <2>2, <2>3
    <3> QED  BY <2>1, <2>3, <3>1 DEF Alive
  <2>4. CASE u # t
    BY <1>7, <2>1, <2>2, <2>4 DEF Alive
  <2> QED  BY <2>3, <2>4
<1>10. ~Alive(<<t, Depth(t) + 1>>)
  BY <1>6, SMT DEF Alive
<1> QED  BY <1>6, <1>8, <1>9, <1>10

(* It begins without its derived part, and with nothing that points to it.  *)
LEMMA ConstructKeepsWhole ==
  ASSUME AliveInv, TextTypes, WholeInv, NEW t \in Threads, Construct(t)
  PROVE  WholeInv'
<1>0. EcTypeOK
  BY DEF AliveInv
<1>1. PICK a : a = <<t, Depth(t) + 1>>
  OBVIOUS
<1>2. /\ Depth(t) \in Nat /\ Top(t)' = a /\ ~Alive(a)
      /\ \A u \in Threads : u # t => Top(u)' = Top(u)
      /\ \A b \in Addr : Alive(b)' => Alive(b) \/ b = a
  BY <1>1, ConstructDepth
<1>3. PICK d \in {NoHandle, handle[t]} : data' = [data EXCEPT ![a] = d]
  BY <1>1 DEF Construct
<1>4. at[t] = "run" /\ at' = [at EXCEPT ![t] = "ctor"] /\ UNCHANGED <<whole, handle>>
  BY DEF Construct, Runs
<1>5. at'[t] # "run" /\ \A u \in Threads : u # t => at'[u] = at[u]
  BY <1>0, <1>4 DEF EcTypeOK
<1>6. \A u \in Threads : handle[u].ec # Null => Alive(handle[u].ec)
  BY DEF AliveInv, Pins
<1>7. d.ec = Null \/ (d.ec = handle[t].ec /\ Alive(d.ec))
  BY <1>6 DEF NoHandle
<1>8. \A b \in Addr : data'[b] = data[b] \/ (b = a /\ data'[b] = d)
  BY <1>0, <1>3 DEF EcTypeOK
<1>9. a # Null
  BY <1>1, <1>2
<1>10. ASSUME NEW v \in Threads, at'[v] # "run" PROVE ~Pinned(Top(v))'
  <2>1. PICK x : x = Top(v)'
    OBVIOUS
  <2>2. SUFFICES ASSUME \/ \E u \in Threads : handle[u].ec = x
                        \/ \E b \in Addr : Alive(b)' /\ data'[b].ec = x
                 PROVE  FALSE
    BY <1>4, <2>1, Zenon DEF Pinned, Top, Alive, Depth
  <2>3. x # Null
    <3>1. CASE v = t
      BY <1>2, <1>9, <2>1, <3>1
    <3>2. CASE v # t
      <4>1. x = Top(v)
        BY <1>2, <2>1, <3>2
      <4> QED  BY <1>0, <4>1 DEF Top, EcTypeOK
    <3> QED  BY <3>1, <3>2
  <2>4. CASE v = t
    <3>1. x = a
      BY <1>2, <2>1, <2>4
    <3>2. \A u \in Threads : handle[u].ec # x
      BY <1>2, <1>6, <1>9, <3>1
    <3>3. PICK b \in Addr : Alive(b)' /\ data'[b].ec = x
      BY <2>2, <3>2
    <3>4. CASE b = a /\ data'[b] = d
      BY <1>2, <1>7, <1>9, <3>1, <3>3, <3>4
    <3>5. CASE b # a /\ data'[b] = data[b]
      <4>1. Alive(b) /\ data[b].ec = a
        BY <1>2, <3>1, <3>3, <3>5
      <4>2. Alive(data[b].ec)
        BY <1>9, <4>1 DEF AliveInv, Pins
      <4> QED  BY <1>2, <4>1, <4>2
    <3>6. CASE b = a /\ data'[b] = data[b]
      <4>1. data'[b] = d
        BY <1>0, <1>3, <3>6 DEF EcTypeOK
      <4> QED  BY <3>4, <3>6, <4>1
    <3> QED  BY <1>8, <3>4, <3>5, <3>6
  <2>5. CASE v # t
    <3>1. x = Top(v) /\ ~Pinned(x)
      BY <1>2, <1>5, <1>10, <2>1, <2>5 DEF WholeInv
    <3>2. \A u \in Threads : handle[u].ec # x
      BY <3>1 DEF Pinned
    <3>3. PICK b \in Addr : Alive(b)' /\ data'[b].ec = x
      BY <2>2, <3>2
    <3>4. CASE data'[b] = d
      BY <1>7, <2>3, <3>2, <3>3, <3>4
    <3>5. CASE Alive(b) /\ data'[b] = data[b]
      BY <3>1, <3>3, <3>5 DEF Pinned
    <3>6. CASE ~Alive(b)
      <4>1. b = a
        BY <1>2, <3>3, <3>6
      <4>2. data'[b] = d
        BY <1>0, <1>3, <4>1 DEF EcTypeOK
      <4> QED  BY <3>4, <4>2
    <3> QED  BY <1>8, <3>4, <3>5, <3>6
  <2> QED  BY <2>4, <2>5
<1>11. ASSUME NEW b \in Addr, Alive(b)'
       PROVE  b \in whole' \/ \E v \in Threads : at'[v] # "run" /\ b = Top(v)'
  <2>1. CASE b = a
    BY <1>2, <1>5, <2>1
  <2>2. CASE b # a
    <3>1. Alive(b)
      BY <1>2, <1>11, <2>2
    <3>2. CASE b \in whole
      BY <1>4, <3>2
    <3>3. CASE b \notin whole
      <4>1. PICK v \in Threads : at[v] # "run" /\ b = Top(v)
        BY <3>1, <3>3 DEF WholeInv
      <4>2. v # t
        BY <1>4, <4>1
      <4> QED  BY <1>2, <1>5, <4>1, <4>2
    <3> QED  BY <3>2, <3>3
  <2> QED  BY <2>1, <2>2
<1> QED  BY <1>10, <1>11, Zenon DEF WholeInv

(* A context that ends was above all others of its thread too.              *)
LEMMA DestroyedKeepsWhole ==
  ASSUME AliveInv, TextTypes, WholeInv, NEW t \in Threads, Destroyed(t)
  PROVE  WholeInv'
<1>0. EcTypeOK
  BY DEF AliveInv
<1>1. /\ at[t] = "dtor" /\ at' = [at EXCEPT ![t] = "run"]
      /\ stack' = [stack EXCEPT ![t] = Front(@)]
      /\ UNCHANGED <<whole, data, handle>>
  BY DEF Destroyed, memory
<1>2. Depth(t) > 0 /\ Depth(t) \in Nat
  BY <1>0, <1>1 DEF AliveInv, Pins, EcTypeOK
<1>3. PICK s \in Seq(Seq(Nat)) : s = stack[t] /\ Len(s) > 0
  BY <1>2 DEF TextTypes, Depth
<1>4. stack'[t] = Front(s) /\ \A u \in Threads : u # t => stack'[u] = stack[u]
  BY <1>1, <1>3 DEF TextTypes
<1>5. Len(Front(s)) = Len(s) - 1 /\ Len(s) \in Nat
  BY <1>3, FrontIs
<1>6. Depth(t)' = Depth(t) - 1
  BY <1>3, <1>4, <1>5 DEF Depth
<1>7. \A u \in Threads : u # t => Depth(u)' = Depth(u)
  BY <1>4 DEF Depth
<1>8. \A u \in Threads : u # t => Top(u)' = Top(u)
  BY <1>7 DEF Top
<1>9. ASSUME NEW b \in Addr, Alive(b)' PROVE Alive(b) /\ b # Top(t)
  <2>1. PICK u \in Threads, k \in 1..MaxDepth : b = <<u, k>>
    BY DEF Addr
  <2>2. k <= Depth(u)' /\ k \in Nat
    BY <1>9, <2>1 DEF Alive
  <2>3. CASE u = t
    <3>1. k <= Depth(t) /\ k # Depth(t)
      BY <1>2, <1>6, <2>2, <2>3
    <3> QED  BY <2>1, <2>3, <3>1 DEF Alive, Top
  <2>4. CASE u # t
    BY <1>7, <2>1, <2>2, <2>4 DEF Alive, Top
  <2> QED  BY <2>3, <2>4
<1>10. at'[t] = "run" /\ \A u \in Threads : u # t => at'[u] = at[u]
  BY <1>0, <1>1 DEF EcTypeOK
<1>11. ASSUME NEW v \in Threads, at'[v] # "run" PROVE ~Pinned(Top(v))'
  <2>1. v # t /\ Top(v)' = Top(v) /\ ~Pinned(Top(v))
    BY <1>8, <1>10, <1>11 DEF WholeInv
  <2>2. PICK x : x = Top(v)' /\ ~Pinned(x)
    BY <2>1
  <2>3. ~(\/ \E u \in Threads : handle'[u].ec = x
          \/ \E b \in Addr : Alive(b)' /\ data'[b].ec = x)
    BY <1>1, <1>9, <2>2, Zenon DEF Pinned
  <2> QED  BY <2>2, <2>3, Zenon DEF Pinned, Top, Alive, Depth
<1>12. ASSUME NEW b \in Addr, Alive(b)'
       PROVE  b \in whole' \/ \E v \in Threads : at'[v] # "run" /\ b = Top(v)'
  <2>1. Alive(b) /\ b # Top(t)
    BY <1>9, <1>12
  <2>2. CASE b \notin whole
    <3>1. PICK v \in Threads : at[v] # "run" /\ b = Top(v)
      BY <2>1, <2>2 DEF WholeInv
    <3> QED  BY <1>8, <1>10, <2>1, <3>1
  <2> QED  BY <1>1, <2>2
<1> QED  BY <1>11, <1>12, Zenon DEF WholeInv

(* Where nothing of all this changes.                                       *)
LEMMA SameWhole ==
  ASSUME WholeInv, UNCHANGED <<whole, at, stack, data, handle>>
  PROVE  WholeInv'
<1>1. \A a : Alive(a)' = Alive(a) /\ Pinned(a)' = Pinned(a)
  BY DEF Alive, Depth, Pinned
<1>2. \A u \in Threads : Top(u)' = Top(u)
  BY DEF Top, Depth
<1> QED  BY <1>1, <1>2 DEF WholeInv

(* A constructor ends, a destructor begins; a handle is given to a thread   *)
(* of a context that is whole.                                              *)
LEMMA QuietKeepsWhole ==
  ASSUME AliveInv, WholeInv, NEW t \in Threads,
         \/ Constructed(t) \/ Destroy(t) \/ DropHandle(t)
         \/ \E u \in Threads : GiveHandle(t, u)
  PROVE  WholeInv'
<1>0. EcTypeOK
  BY DEF AliveInv
<1>1. UNCHANGED <<data, stack>>
  BY DEF Constructed, Destroy, DropHandle, GiveHandle, memory
<1>2. \A a : Alive(a)' = Alive(a)
  BY <1>1 DEF Alive, Depth
<1>3. \A u \in Threads : Top(u)' = Top(u)
  BY <1>1 DEF Top, Depth
<1>4. CASE Constructed(t)
  <2>1. whole' = whole \cup {Top(t)} /\ at' = [at EXCEPT ![t] = "run"] /\ handle' = handle
    BY <1>4 DEF Constructed
  <2>2. at'[t] = "run" /\ \A u \in Threads : u # t => at'[u] = at[u]
    BY <1>0, <2>1 DEF EcTypeOK
  <2>3. \A a : Pinned(a)' = Pinned(a)
    BY <1>1, <1>2, <2>1 DEF Pinned
  <2> QED  BY <1>2, <1>3, <2>1, <2>2, <2>3 DEF WholeInv
<1>5. CASE Destroy(t)
  <2>1. /\ whole' = whole \ {Top(t)} /\ at' = [at EXCEPT ![t] = "dtor"] /\ handle' = handle
        /\ ~Pinned(Top(t))
    BY <1>5 DEF Destroy
  <2>2. at'[t] # "run" /\ \A u \in Threads : u # t => at'[u] = at[u]
    BY <1>0, <2>1 DEF EcTypeOK
  <2>3. \A a : Pinned(a)' = Pinned(a)
    BY <1>1, <1>2, <2>1 DEF Pinned
  <2> QED  BY <1>2, <1>3, <2>1, <2>2, <2>3 DEF WholeInv
<1>6. CASE DropHandle(t)
  <2>1. handle' = [handle EXCEPT ![t] = NoHandle] /\ at' = at /\ whole' = whole
    BY <1>6 DEF DropHandle, memory
  <2>2. \A u \in Threads : handle'[u] = IF u = t THEN NoHandle ELSE handle[u]
    BY <1>0, <2>1 DEF EcTypeOK
  <2>3. \A u \in Threads : Top(u) # Null
    BY <1>0 DEF Top, EcTypeOK
  <2>4. ASSUME NEW v \in Threads, at'[v] # "run" PROVE ~Pinned(Top(v))'
    <3>1. ~Pinned(Top(v)) /\ Top(v)' = Top(v)
      BY <1>3, <2>1, <2>4 DEF WholeInv
    <3> QED  BY <1>1, <1>2, <2>2, <2>3, <3>1 DEF Pinned, NoHandle
  <2> QED  BY <1>2, <1>3, <2>1, <2>4 DEF WholeInv
<1>7. ASSUME NEW u \in Threads, GiveHandle(t, u) PROVE WholeInv'
  <2>1. /\ handle' = [handle EXCEPT ![u] = [ec |-> head[t], text |-> Text(stack[t])]]
        /\ at' = at /\ whole' = whole /\ at[t] = "run" /\ Depth(t) > 0
    BY <1>7 DEF GiveHandle, memory, Runs
  <2>2. \A v \in Threads : handle'[v].ec = IF v = u THEN head[t] ELSE handle[v].ec
    BY <1>0, <2>1 DEF EcTypeOK
  <2>3. head[t] = Top(t)
    BY <1>0, <2>1 DEF AliveInv, Lists, Top, EcTypeOK
  <2>4. ASSUME NEW v \in Threads, at'[v] # "run" PROVE ~Pinned(Top(v))'
    <3>1. ~Pinned(Top(v)) /\ Top(v)' = Top(v) /\ v # t
      BY <1>3, <2>1, <2>4 DEF WholeInv
    <3>2. Top(v) # Top(t)
      BY <3>1 DEF Top
    <3> QED  BY <1>1, <1>2, <2>2, <2>3, <3>1, <3>2 DEF Pinned
  <2> QED  BY <1>2, <1>3, <2>1, <2>4 DEF WholeInv
<1> QED  BY <1>4, <1>5, <1>6, <1>7

-----------------------------------------------------------------------------
(***************************************************************************)
(* A thread that stops at an entry without its derived part is between the *)
(* two halves of the constructor or destructor of its own newest context:  *)
(* no other thread, and no handle, can have led it to such an entry.       *)
(***************************************************************************)
LEMMA CrashIs ==
  ASSUME AliveInv, TextInv, WholeInv, PrintInv, NEW t \in Threads,
         PrintValue(t), crashed' # {}
  PROVE  OnlyNewestIncomplete'
<1>0. TextTypes /\ EcTypeOK
  BY DEF TextInv, AliveInv
<1>1. PICK cc, a, rest : /\ cc = Call(t) /\ a = Head(cc.found)
                         /\ rest = [cc EXCEPT !.found = Tail(@)]
  OBVIOUS
<1>2. /\ walk[t] # <<>> /\ cc.cursor = Null /\ cc.found # <<>>
      /\ a \notin whole /\ crashed' = {t}
      /\ UNCHANGED <<at, stack, printed>>
  BY <1>1 DEF PrintValue, Unmoved
<1>3. PICK n, r, y, q :
        /\ n \in Nat /\ n = Len(walk[t]) /\ n > 0
        /\ Frames(t, walk[t], r, y, q)
        /\ asked[t] = Prefix(r[1][1], r[1][2])
        /\ asked[t] = Then(printed[t], q[n])
        /\ cc = walk[t][n] /\ cc \in Calls
        /\ r[n] \in Root /\ Alive(r[n]) /\ Goes(cc, r[n], y[n])
        /\ y[n] \in Seq(Nat) /\ q[n] = Then(y[n], q[n - 1]) /\ q[n - 1] \in Seq(Nat)
  BY <1>1, <1>2, InnermostIs, ZenonT(60)
<1>4. PICK x \in Root : x = r[n]
  BY <1>3
<1>5. PICK yn : yn = y[n]
  OBVIOUS
<1>6. /\ a \in Addr /\ Alive(a) /\ Below(a, x)
      /\ Prefix(x[1], x[2]) = Then(Prefix(x[1], a[2] - 1), yn)
      /\ Prefix(x[1], a[2] - 1) \in Seq(Nat)
  <2>1. /\ cc \in Calls /\ x \in Root /\ Alive(x) /\ yn \in Seq(Nat) /\ Goes(cc, x, yn)
        /\ cc.cursor = Null /\ cc.found # <<>> /\ a = Head(cc.found)
        /\ rest = [cc EXCEPT !.found = Tail(@)]
    BY <1>1, <1>2, <1>3, <1>4, <1>5, Zenon
  <2>2. AtEntry(cc, x, yn, a, rest)
    BY <2>1, Zenon DEF AtEntry
  <2>3. Ahead(cc, x, yn, a, rest)
    BY <2>2, NextEntry, Zenon
  <2> QED  BY <2>3, Zenon DEF Ahead
<1>7. PICK v \in Threads : at[v] # "run" /\ a = Top(v)
  BY <1>2, <1>6 DEF WholeInv
<1>8. x = a
  <2>1. PICK u \in Threads, m \in 0..MaxDepth : x = <<u, m>>
    BY DEF Root
  <2>2. u = v /\ Depth(v) <= m /\ m <= Depth(u) /\ Depth(v) \in Nat
    BY <1>0, <1>3, <1>4, <1>6, <1>7, <2>1 DEF Below, Top, Alive, EcTypeOK
  <2>3. m = Depth(v)
    BY <2>2
  <2> QED  BY <1>7, <2>1, <2>2, <2>3 DEF Top
<1>9. ~Pinned(x)
  BY <1>7, <1>8 DEF WholeInv
<1>10. n = 1 /\ x = Top(t)
  <2>1. PICK wk : wk = walk[t]
    OBVIOUS
  <2>2. Frames(t, wk, r, y, q) /\ Len(wk) \in Nat /\ n \in 1..Len(wk)
    BY <1>3, <2>1
  <2>3. Pinned(r[n]) \/ (n = 1 /\ r[n] = Top(t))
    BY ONLY AliveInv, <2>2, RootPinned, t \in Threads
  <2> QED  BY <1>4, <1>9, <2>3
<1>11. at[t] # "run"
  BY <1>7, <1>8, <1>10 DEF Top
<1>12. x[1] = t /\ x[2] = Depth(t) /\ a[2] = Depth(t)
  BY <1>8, <1>10 DEF Top
<1>13. PICK p, k : p = printed[t] /\ k = Prefix(t, Depth(t) - 1)
  OBVIOUS
<1>14. Then(p, yn) = Then(k, yn)
  <2>1. asked[t] = Then(k, yn)
    BY <1>3, <1>4, <1>6, <1>10, <1>12, <1>13, Zenon
  <2>2. q[1] = yn
    <3>1. q[0] = <<>>
      BY <1>3, Zenon DEF Frames
    <3>2. q[n] = Then(yn, q[0])
      <4>1. n - 1 = 0
        BY <1>10
      <4> QED  BY <1>3, <1>5, <4>1, Zenon
    <3>3. Then(yn, <<>>) = yn
      BY <1>3, <1>5, ThenEmpty, Zenon
    <3> QED  BY <1>10, <3>1, <3>2, <3>3, Zenon
  <2> QED  BY <1>3, <1>10, <1>13, <2>1, <2>2, Zenon
<1>15. p = k
  <2>1. p \in Seq(Nat) /\ k \in Seq(Nat) /\ yn \in Seq(Nat)
    <3>1. p \in Seq(Nat)
      BY <1>0, <1>13 DEF TextTypes
    <3>2. k \in Seq(Nat)
      BY <1>6, <1>12, <1>13, Zenon
    <3> QED  BY <1>3, <1>5, <3>1, <3>2, Zenon
  <2> QED  BY ONLY <1>14, <2>1, ThenCancel, SMT
<1>16. k = Text(Front(stack[t]))
  BY <1>13, Zenon DEF Prefix, UpTo, Front, Depth
<1> QED  BY <1>2, <1>11, <1>13, <1>15, <1>16 DEF OnlyNewestIncomplete

(* All of it.                                                               *)
EcInv == AliveInv /\ TextInv /\ WholeInv /\ PrintInv /\ OnlyNewestIncomplete

(* At first there is nothing to print.                                      *)
LEMMA EcAtInit ==
  ASSUME Init
  PROVE  EcInv
<1>1. AliveInv
  BY AliveAtInit
<1>2. \A t \in Threads : stack[t] = <<>> /\ Depth(t) = 0
  BY DEF Init, Depth
<1>3. TextTypes
  <2>1. <<>> \in Seq(Seq(Nat))
    OBVIOUS
  <2>2. <<>> \in Seq(Nat)
    OBVIOUS
  <2>3. NoHandle \in [ec : Addr \cup {Null}, text : Seq(Nat)]
    BY <2>2 DEF NoHandle
  <2> QED  BY <2>1, <2>2, <2>3 DEF Init, TextTypes
<1>4. \A a \in Addr : ~Alive(a)
  BY <1>2 DEF Addr, Alive
<1>5. \A t \in Threads : handle[t].text = ListText(handle[t].ec)
  BY DEF Init, NoHandle, ListText
<1>6. TextInv
  BY <1>3, <1>4, <1>5, Zenon DEF TextInv
<1>7. WholeInv
  BY <1>4 DEF Init, WholeInv
<1>8. PrintInv
  <2>1. ASSUME NEW t \in Threads
        PROVE  Len(walk[t]) = 0 /\ printed[t] = <<>> /\ asked[t] = <<>>
    BY DEF Init
  <2> QED  BY <2>1, Zenon DEF PrintInv, Printing
<1>9. OnlyNewestIncomplete
  BY DEF Init, OnlyNewestIncomplete
<1> QED  BY <1>1, <1>6, <1>7, <1>8, <1>9 DEF EcInv

(* The steps of a thread outside get_error_context.                         *)
LEMMA QuietKeepsEc ==
  ASSUME EcInv, AliveInv', NEW t \in Threads,
         \/ Constructed(t) \/ Destroy(t) \/ DropHandle(t) \/ ThreadExit(t)
         \/ \E u \in Threads : GiveHandle(t, u)
  PROVE  TextInv' /\ PrintInv' /\ WholeInv'
<1>0. TextTypes /\ EcTypeOK
  BY DEF EcInv, TextInv, AliveInv
<1>1. UNCHANGED <<number, made, data, stack, printed, asked, walk>>
  BY DEF Constructed, Destroy, DropHandle, ThreadExit, GiveHandle, memory, walking
<1>2. CASE Constructed(t) \/ Destroy(t) \/ ThreadExit(t)
  <2>1. handle' = handle
    BY <1>2 DEF Constructed, Destroy, ThreadExit
  <2>2. TextInv' /\ PrintInv'
    BY <1>0, <1>1, <2>1, QuietKeepsText DEF EcInv, TextTypes
  <2>3. WholeInv'
    <3>1. CASE ThreadExit(t)
      <4>1. UNCHANGED <<whole, at, stack, data, handle>>
        BY <3>1 DEF ThreadExit, memory
      <4> QED  BY <4>1, SameWhole DEF EcInv
    <3>2. CASE Constructed(t) \/ Destroy(t)
      BY <3>2, QuietKeepsWhole DEF EcInv
    <3> QED  BY <1>2, <3>1, <3>2
  <2> QED  BY <2>2, <2>3
<1>3. CASE DropHandle(t)
  <2>1. handle' = [handle EXCEPT ![t] = NoHandle] /\ walk[t] = <<>>
    BY <1>3 DEF DropHandle, Runs
  <2>2. NoHandle \in [ec : Addr \cup {Null}, text : Seq(Nat)] /\ NoHandle.text = ListText(NoHandle.ec)
    <3>1. <<>> \in Seq(Nat)
      OBVIOUS
    <3> QED  BY <3>1 DEF NoHandle, ListText
  <2>3. handle' \in [Threads -> [ec : Addr \cup {Null}, text : Seq(Nat)]]
    BY <1>0, <2>1, <2>2 DEF TextTypes
  <2>4. ASSUME NEW u \in Threads
        PROVE  handle'[u] = handle[u] \/ (walk[u] = <<>> /\ handle'[u].text = ListText(handle'[u].ec))
    <3>1. CASE u = t
      <4>1. handle'[u] = NoHandle
        BY <1>0, <2>1, <3>1 DEF TextTypes
      <4> QED  BY <2>1, <2>2, <3>1, <4>1
    <3>2. CASE u # t
      BY <1>0, <2>1, <3>2 DEF TextTypes
    <3> QED  BY <3>1, <3>2
  <2>5. TextInv' /\ PrintInv'
    BY <1>1, <2>3, <2>4, QuietKeepsText DEF EcInv
  <2> QED  BY <1>3, <2>5, QuietKeepsWhole DEF EcInv
<1>4. ASSUME NEW u \in Threads, GiveHandle(t, u) PROVE TextInv' /\ PrintInv' /\ WholeInv'
  <2>1. PICK h : h = [ec |-> head[t], text |-> Text(stack[t])]
    OBVIOUS
  <2>2. handle' = [handle EXCEPT ![u] = h] /\ walk[u] = <<>> /\ Depth(t) > 0
    BY <1>4, <2>1 DEF GiveHandle
  <2>3. h.ec = head[t] /\ h.ec = <<t, Depth(t)>> /\ h.ec # Null
    BY <1>0, <2>1, <2>2 DEF EcInv, AliveInv, Lists, EcTypeOK
  <2>4. h.text = ListText(h.ec) /\ h.text \in Seq(Nat)
    <3>1. Text(stack[t]) = Prefix(t, Depth(t)) /\ Text(stack[t]) \in Seq(Nat)
      BY <1>0, WholeText
    <3> QED  BY <2>1, <2>3, <3>1 DEF ListText
  <2>5. h \in [ec : Addr \cup {Null}, text : Seq(Nat)]
    BY <1>0, <2>1, <2>3, <2>4 DEF EcTypeOK
  <2>6. handle' \in [Threads -> [ec : Addr \cup {Null}, text : Seq(Nat)]]
    BY <1>0, <2>2, <2>5 DEF TextTypes
  <2>7. ASSUME NEW v \in Threads
        PROVE  handle'[v] = handle[v] \/ (walk[v] = <<>> /\ handle'[v].text = ListText(handle'[v].ec))
    <3>1. CASE v = u
      <4>1. handle'[v] = h
        BY <1>0, <2>2, <3>1 DEF TextTypes
      <4> QED  BY <2>2, <2>4, <3>1, <4>1
    <3>2. CASE v # u
      BY <1>0, <2>2, <3>2 DEF TextTypes
    <3> QED  BY <3>1, <3>2
  <2>8. TextInv' /\ PrintInv'
    BY <1>1, <2>6, <2>7, QuietKeepsText DEF EcInv
  <2> QED  BY <1>4, <2>8, QuietKeepsWhole DEF EcInv
<1> QED  BY <1>2, <1>3, <1>4

(***************************************************************************)
(* Every handle and every context keeps the text it stands for, and what a *)
(* thread has printed and will still print is what it was asked for.       *)
(***************************************************************************)
THEOREM EcInvariant == Spec => [](AliveInv /\ EcInv)
<1>1. ASSUME AliveInv, AliveInv', EcInv, Next PROVE EcInv'
  <2>0. TextTypes /\ EcTypeOK
    BY <1>1 DEF EcInv, TextInv, AliveInv
  <2>1. PICK t \in Threads :
          \/ Construct(t) \/ Constructed(t) \/ Destroy(t) \/ Destroyed(t)
          \/ \E u \in Threads : GiveHandle(t, u)
          \/ DropHandle(t) \/ ThreadExit(t)
          \/ GetErrorContext(t) \/ GetErrorContextFor(t)
          \/ Collect(t) \/ PrintValue(t) \/ Return(t)
    BY <1>1 DEF Next, Walks
  <2>2. PrintValue(t) \/ crashed' = {}
    BY <2>1 DEF Construct, Constructed, Destroy, Destroyed, GiveHandle, DropHandle, ThreadExit,
                GetErrorContext, GetErrorContextFor, Begin, Collect, Return, Runs
  <2>3. OnlyNewestIncomplete'
    <3>1. CASE crashed' = {}
      BY <3>1 DEF OnlyNewestIncomplete
    <3>2. CASE crashed' # {}
      BY <1>1, <2>2, <3>2, CrashIs DEF EcInv
    <3> QED  BY <3>1, <3>2
  <2>4. CASE Construct(t)
    <3>1. TextInv' /\ PrintInv'
      BY <1>1, <2>4, ConstructKeepsText DEF EcInv
    <3>2. WholeInv'
      BY <1>1, <2>0, <2>4, ConstructKeepsWhole DEF EcInv
    <3> QED  BY <1>1, <2>3, <3>1, <3>2 DEF EcInv
  <2>5. CASE Destroyed(t)
    <3>1. TextInv' /\ PrintInv'
      BY <1>1, <2>5, DestroyedKeepsText DEF EcInv
    <3>2. WholeInv'
      BY <1>1, <2>0, <2>5, DestroyedKeepsWhole DEF EcInv
    <3> QED  BY <1>1, <2>3, <3>1, <3>2 DEF EcInv
  <2>6. CASE \/ Constructed(t) \/ Destroy(t) \/ DropHandle(t) \/ ThreadExit(t)
             \/ \E u \in Threads : GiveHandle(t, u)
    BY <1>1, <2>3, <2>6, QuietKeepsEc DEF EcInv
  <2>7. CASE \/ GetErrorContext(t) \/ GetErrorContextFor(t)
             \/ Collect(t) \/ PrintValue(t) \/ Return(t)
    <3>1. UNCHANGED <<whole, at, stack, data, handle>>
      BY <2>7 DEF GetErrorContext, GetErrorContextFor, Begin, Collect, PrintValue, Return,
                  Unmoved, memory
    <3>2. WholeInv'
      BY <1>1, <3>1, SameWhole DEF EcInv
    <3>3. CASE GetErrorContext(t) \/ GetErrorContextFor(t)
      BY <1>1, <2>3, <3>2, <3>3, BeginKeepsText DEF EcInv
    <3>4. CASE Collect(t)
      BY <1>1, <2>3, <3>2, <3>4, CollectKeepsText DEF EcInv
    <3>5. CASE Return(t)
      BY <1>1, <2>3, <3>2, <3>5, ReturnKeepsText DEF EcInv
    <3>6. CASE PrintValue(t) /\ crashed' = {}
      BY <1>1, <2>3, <3>2, <3>6, PrintValueKeepsText DEF EcInv
    <3>7. CASE PrintValue(t) /\ crashed' # {}
      <4>1. UNCHANGED <<number, made, data, stack, printed, asked, walk, handle>>
        BY <3>7 DEF PrintValue, Unmoved, memory
      <4>2. TextInv' /\ PrintInv'
        BY <1>1, <2>0, <4>1, QuietKeepsText DEF EcInv, TextTypes
      <4> QED  BY <1>1, <2>3, <3>2, <4>2 DEF EcInv
    <3> QED  BY <2>7, <3>3, <3>4, <3>5, <3>6, <3>7
  <2> QED  BY <2>1, <2>4, <2>5, <2>6, <2>7
<1>2. ASSUME AliveInv, AliveInv', EcInv, UNCHANGED evars PROVE EcInv'
  <2>1. UNCHANGED <<number, made, data, stack, printed, asked, walk, handle, whole, at, crashed>>
    BY <1>2 DEF evars, memory, walking
  <2>2. TextInv' /\ PrintInv'
    BY <1>2, <2>1, QuietKeepsText DEF EcInv, TextInv, TextTypes
  <2>3. WholeInv'
    BY <1>2, <2>1, SameWhole DEF EcInv
  <2>4. OnlyNewestIncomplete'
    BY <1>2, <2>1 DEF EcInv, OnlyNewestIncomplete
  <2> QED  BY <1>2, <2>2, <2>3, <2>4 DEF EcInv
<1> QED  BY <1>1, <1>2, AliveInvariant, EcAtInit, PTL DEF Spec

(* get_error_context prints the contexts that were open when it was called, *)
(* oldest first, a handle's contexts after the entry that holds it,         *)
(* whatever other threads open and close meanwhile (1759-1785).             *)
THEOREM PrintsTheContextCorrect == Spec => []PrintsTheContext
<1>1. ASSUME AliveInv, EcInv PROVE PrintsTheContext
  <2>0. TextTypes
    BY <1>1 DEF EcInv, TextInv
  <2>1. SUFFICES ASSUME NEW t \in Threads
                 PROVE  /\ IsPrefix(printed[t], asked[t])
                        /\ Done(t) /\ Len(walk[t]) = 1 => printed[t] = asked[t]
    BY DEF PrintsTheContext
  <2>2. CASE walk[t] = <<>>
    <3>1. printed[t] = <<>> /\ asked[t] = <<>>
      <4>1. Len(walk[t]) = 0
        BY <2>2
      <4>2. Printing(t, walk[t], printed[t], asked[t])
        BY <1>1, Zenon DEF EcInv, PrintInv
      <4> QED  BY <4>1, <4>2, Zenon DEF Printing
    <3>2. IsPrefix(<<>>, <<>>)
      BY DEF IsPrefix
    <3> QED  BY <2>2, <3>1, <3>2
  <2>3. CASE walk[t] # <<>>
    <3>1. PICK n, r, y, q :
            /\ n \in Nat /\ n = Len(walk[t]) /\ n > 0
            /\ Frames(t, walk[t], r, y, q)
            /\ asked[t] = Then(printed[t], q[n])
            /\ Call(t) \in Calls
            /\ r[n] \in Root /\ Alive(r[n]) /\ Goes(Call(t), r[n], y[n])
            /\ y[n] \in Seq(Nat) /\ q[n] = Then(y[n], q[n - 1]) /\ q[n - 1] \in Seq(Nat)
      BY <1>1, <2>3, InnermostIs, ZenonT(60) DEF EcInv
    <3>2. printed[t] \in Seq(Nat) /\ q[n] \in Seq(Nat)
      <4>1. q[n] \in Seq(Nat)
        BY <3>1, ThenType, Zenon
      <4> QED  BY <2>0, <4>1 DEF TextTypes
    <3>3. IsPrefix(printed[t], asked[t])
      BY <3>1, <3>2, ThenBegins, Zenon
    <3>4. ASSUME Done(t), Len(walk[t]) = 1 PROVE printed[t] = asked[t]
      <4>1. y[n] = <<>>
        BY <2>0, <3>1, <3>4, DoneIs, Zenon DEF Done
      <4>2. q[n - 1] = <<>>
        <5>1. n - 1 = 0
          BY <3>1, <3>4
        <5> QED  BY <3>1, <5>1, Zenon DEF Frames
      <4>3. q[n] = <<>>
        <5>1. Then(<<>>, <<>>) = <<>>
          BY <3>1, <4>1, ThenEmpty, Zenon
        <5> QED  BY <3>1, <4>1, <4>2, <5>1, Zenon
      <4>4. Then(printed[t], <<>>) = printed[t]
        BY <3>2, ThenEmpty, Zenon
      <4> QED  BY <3>1, <4>3, <4>4, Zenon
    <3> QED  BY <3>3, <3>4
  <2> QED  BY <2>2, <2>3
<1> QED  BY <1>1, EcInvariant, PTL

(* Only a signal within a context's own constructor or destructor meets an  *)
(* entry that has no print_value, with all before it printed.               *)
THEOREM OnlyNewestIncompleteCorrect == Spec => []OnlyNewestIncomplete
<1>1. EcInv => OnlyNewestIncomplete
  BY DEF EcInv
<1> QED  BY <1>1, EcInvariant, PTL

-----------------------------------------------------------------------------
HIDE ErrorContextAssumption

(***************************************************************************)
(* The stack trace.  A pair has no line break in it, so its occurrences in *)
(* the text are those in its lines; the text that do_replacements rewrites *)
(* is at all times the lines of the frames, each somewhere on its way.     *)
(***************************************************************************)
(* Every set of numbers that is not empty has a least one.                  *)
LEMMA Least ==
  ASSUME NEW T \in SUBSET Nat, T # {}
  PROVE  \E n \in T : \A m \in T : n <= m
<1> DEFINE U == {n \in Nat : \A m \in T : n <= m}
<1>1. SUFFICES ASSUME \A n \in T : n \notin U PROVE FALSE
  OBVIOUS
<1>2. PICK N \in T : N \in Nat
  OBVIOUS
<1>3. 0 \in U
  OBVIOUS
<1>4. ASSUME NEW k \in 0..(N + 1 - 1), k \in U PROVE k + 1 \in U
  <2>1. ASSUME NEW m \in T PROVE k + 1 <= m
    <3>1. k <= m /\ k # m /\ m \in Nat /\ k \in Nat
      BY <1>1, <1>4
    <3> QED  BY <3>1
  <2> QED  BY <2>1
<1>5. \A k \in 0..(N + 1) : k \in U
  <2>1. N + 1 \in Nat
    BY <1>2
  <2> HIDE DEF U
  <2> QED  BY <1>3, <1>4, <2>1, Inductive
<1>6. N + 1 \in U
  <2>1. N + 1 \in 0..(N + 1)
    BY <1>2
  <2> QED  BY <1>5, <2>1
<1> QED  BY <1>2, <1>6

(* Min of such a set is that one.                                           *)
LEMMA MinIs ==
  ASSUME NEW T \in SUBSET Nat, T # {}
  PROVE  Min(T) \in T /\ \A m \in T : Min(T) <= m
BY Least, Zenon DEF Min

(* One text after another, letter by letter.                                *)
LEMMA ThenLetters ==
  ASSUME NEW S, NEW v \in Seq(S), NEW w \in Seq(S)
  PROVE  /\ Then(v, w) \in Seq(S) /\ Len(Then(v, w)) = Len(v) + Len(w)
         /\ \A i \in 1..Len(v) : Then(v, w)[i] = v[i]
         /\ \A i \in 1..Len(w) : Then(v, w)[Len(v) + i] = w[i]
<1>0. Len(v) \in Nat /\ Len(w) \in Nat
  OBVIOUS
<1>1. /\ v \o w \in Seq(S) /\ Len(v \o w) = Len(v) + Len(w)
      /\ \A i \in 1..(Len(v) + Len(w)) :
           (v \o w)[i] = IF i <= Len(v) THEN v[i] ELSE w[i - Len(v)]
  BY ConcatProperties
<1>2. ASSUME NEW i \in 1..Len(v) PROVE (v \o w)[i] = v[i]
  <2>1. i \in 1..(Len(v) + Len(w)) /\ i <= Len(v)
    BY <1>0
  <2> QED  BY <1>1, <2>1, Zenon
<1>3. ASSUME NEW i \in 1..Len(w) PROVE (v \o w)[Len(v) + i] = w[i]
  <2>1. PICK j : j = Len(v) + i
    OBVIOUS
  <2>2. j \in 1..(Len(v) + Len(w)) /\ ~(j <= Len(v)) /\ j - Len(v) = i
    BY <1>0, <2>1
  <2>3. (v \o w)[j] = IF j <= Len(v) THEN v[j] ELSE w[j - Len(v)]
    BY <1>1, <2>2, Zenon
  <2> QED  BY <2>1, <2>2, <2>3, Zenon
<1> QED  BY <1>1, <1>2, <1>3, Zenon DEF Then

(* A part of a text, letter by letter.                                      *)
LEMMA PartLetters ==
  ASSUME NEW S, NEW s \in Seq(S), NEW m \in 1..(Len(s) + 1), NEW n \in (m - 1)..Len(s)
  PROVE  /\ SubSeq(s, m, n) \in Seq(S) /\ Len(SubSeq(s, m, n)) = n - m + 1
         /\ \A i \in 1..(n - m + 1) : SubSeq(s, m, n)[i] = s[m + i - 1]
<1>0. Len(s) \in Nat
  OBVIOUS
<1>1. m \in Int /\ n \in Int /\ (m <= n \/ (n = m - 1 /\ n - m + 1 = 0))
  BY <1>0
<1>2. \A i \in m..n : s[i] \in S
  <2>1. \A i \in m..n : i \in 1..Len(s)
    BY <1>0
  <2> QED  BY <2>1
<1>3. /\ SubSeq(s, m, n) \in Seq(S)
      /\ Len(SubSeq(s, m, n)) = IF m <= n THEN n - m + 1 ELSE 0
      /\ \A i \in 1..(n - m + 1) : SubSeq(s, m, n)[i] = s[m + i - 1]
  BY <1>1, <1>2, SubSeqProperties
<1> QED  BY <1>1, <1>3

(* What str.find looks at, letter by letter.                                *)
At(p, s, i) == /\ i \in Nat /\ 1 <= i /\ i + Len(p) - 1 <= Len(s)
               /\ \A k \in 1..Len(p) : s[i + k - 1] = p[k]
LEMMA OccursIs ==
  ASSUME NEW S, NEW s \in Seq(S), NEW p \in Seq(S), Len(p) > 0, NEW i
  PROVE  i \in Occurs(p, s) <=> At(p, s, i)
<1>0. Len(s) \in Nat /\ Len(p) \in Nat /\ DOMAIN s = 1..Len(s)
  OBVIOUS
<1>1. ASSUME i \in 1..Len(s), i + Len(p) - 1 <= Len(s)
      PROVE  SubSeq(s, i, i + Len(p) - 1) = p <=> \A k \in 1..Len(p) : s[i + k - 1] = p[k]
  <2>1. i \in 1..(Len(s) + 1) /\ i + Len(p) - 1 \in (i - 1)..Len(s)
        /\ i + Len(p) - 1 - i + 1 = Len(p)
    BY <1>0, <1>1
  <2>2. PICK e \in Seq(S) : /\ e = SubSeq(s, i, i + Len(p) - 1) /\ Len(e) = Len(p)
                            /\ \A k \in 1..Len(p) : e[k] = s[i + k - 1]
    <3>1. PICK j : j = i + Len(p) - 1
      OBVIOUS
    <3>2. /\ SubSeq(s, i, j) \in Seq(S) /\ Len(SubSeq(s, i, j)) = j - i + 1
          /\ \A k \in 1..(j - i + 1) : SubSeq(s, i, j)[k] = s[i + k - 1]
      BY <2>1, <3>1, PartLetters
    <3>3. PICK l : l = j - i + 1
      OBVIOUS
    <3>4. l = Len(p)
      BY <2>1, <3>1, <3>3
    <3>5. /\ SubSeq(s, i, j) \in Seq(S) /\ Len(SubSeq(s, i, j)) = l
          /\ \A k \in 1..l : SubSeq(s, i, j)[k] = s[i + k - 1]
      BY <3>2, <3>3, Zenon
    <3> QED  BY <3>1, <3>4, <3>5, Zenon
  <2>3. e = p <=> \A k \in 1..Len(p) : e[k] = p[k]
    BY <2>2, SeqEqual
  <2> QED  BY <2>2, <2>3
<1>2. i \in Nat /\ 1 <= i /\ i + Len(p) - 1 <= Len(s) => i \in 1..Len(s)
  BY <1>0
<1> QED  BY <1>0, <1>1, <1>2 DEF Occurs, At

(* A longer text has the occurrences of what it begins with, and those are  *)
(* all that end within it.                                                  *)
LEMMA OccursLonger ==
  ASSUME NEW S, NEW p \in Seq(S), Len(p) > 0, NEW s \in Seq(S), NEW w \in Seq(S), NEW i
  PROVE  /\ i \in Occurs(p, s) => i \in Occurs(p, Then(s, w))
         /\ i \in Occurs(p, Then(s, w)) /\ i + Len(p) - 1 <= Len(s) => i \in Occurs(p, s)
<1>1. PICK z \in Seq(S) : /\ z = Then(s, w) /\ Len(z) = Len(s) + Len(w)
                          /\ \A k \in 1..Len(s) : z[k] = s[k]
  BY ThenLetters
<1>2. Len(s) \in Nat /\ Len(w) \in Nat /\ Len(p) \in Nat
  OBVIOUS
<1>3. ASSUME i \in Nat, 1 <= i, i + Len(p) - 1 <= Len(s), NEW k \in 1..Len(p)
      PROVE  z[i + k - 1] = s[i + k - 1]
  <2>1. i + k - 1 \in 1..Len(s)
    BY <1>2, <1>3
  <2> QED  BY <1>1, <2>1
<1>4. i \in Nat /\ i + Len(p) - 1 <= Len(s) => i + Len(p) - 1 <= Len(z)
  BY <1>1, <1>2
<1>5. (i \in Occurs(p, s) <=> At(p, s, i)) /\ (i \in Occurs(p, z) <=> At(p, z, i))
  BY OccursIs
<1> QED  BY <1>1, <1>3, <1>4, <1>5, Zenon DEF At

(* The occurrences in a text that another precedes.                         *)
LEMMA OccursLater ==
  ASSUME NEW S, NEW p \in Seq(S), Len(p) > 0, NEW s \in Seq(S), NEW w \in Seq(S),
         NEW i \in Nat
  PROVE  i \in Occurs(p, w) <=> Len(s) + i \in Occurs(p, Then(s, w)) /\ i > 0
<1>1. PICK z \in Seq(S) : /\ z = Then(s, w) /\ Len(z) = Len(s) + Len(w)
                          /\ \A k \in 1..Len(w) : z[Len(s) + k] = w[k]
  BY ThenLetters
<1>2. Len(s) \in Nat /\ Len(w) \in Nat /\ Len(p) \in Nat
  OBVIOUS
<1>3. PICK j : j = Len(s) + i
  OBVIOUS
<1>4. ASSUME i > 0, i + Len(p) - 1 <= Len(w), NEW k \in 1..Len(p)
      PROVE  z[j + k - 1] = w[i + k - 1]
  <2>1. PICK e : e = i + k - 1
    OBVIOUS
  <2>2. e \in 1..Len(w) /\ j + k - 1 = Len(s) + e
    BY <1>2, <1>3, <1>4, <2>1
  <2> QED  BY <1>1, <2>1, <2>2, Zenon
<1>5. /\ i + Len(p) - 1 <= Len(w) <=> j + Len(p) - 1 <= Len(z)
      /\ j \in Nat /\ (i > 0 => 1 <= j)
      /\ (i > 0 <=> 1 <= i)
  BY <1>1, <1>2, <1>3
<1>6. (i \in Occurs(p, w) <=> At(p, w, i)) /\ (j \in Occurs(p, z) <=> At(p, z, j))
  BY OccursIs
<1> QED  BY <1>1, <1>3, <1>4, <1>5, <1>6, Zenon DEF At

(***************************************************************************)
(* A pair that do_replacements may apply: it makes a text shorter, and has *)
(* no line break.                                                          *)
(***************************************************************************)
Letter == Glyphs \cup {Newline}
Pair(c)  == c.find \in Seq(Glyphs) /\ c.by \in Seq(Glyphs) /\ Longer(c)

LEMMA PairIs ==
  ASSUME NEW c, Pair(c)
  PROVE  /\ c.find \in Seq(Letter) /\ c.by \in Seq(Letter)
         /\ Len(c.find) > 0 /\ Len(c.find) \in Nat /\ Len(c.by) \in Nat
         /\ Len(c.by) < Len(c.find)
         /\ \A k \in 1..Len(c.find) : c.find[k] # Newline
<1>1. Glyphs \subseteq Letter
  BY DEF Letter
<1>2. PICK f \in Seq(Glyphs), b \in Seq(Glyphs) : f = c.find /\ b = c.by
  BY DEF Pair
<1>3. f \in Seq(Letter) /\ b \in Seq(Letter)
  BY <1>1, SeqMonotonic
<1>4. \A k \in 1..Len(f) : f[k] # Newline
  BY StackTraceAssumption
<1>5. Len(f) \in Nat /\ Len(b) \in Nat /\ Len(b) < Len(f)
  <2>1. Len(f) > Len(b)
    BY <1>2, Zenon DEF Pair, Longer
  <2> QED  BY <2>1
<1> QED  BY <1>2, <1>3, <1>4, <1>5

(* What is before a place in a text is decided by the text and the place.   *)
LEMMA ThenUnique ==
  ASSUME NEW S, NEW v \in Seq(S), NEW w \in Seq(S), NEW x \in Seq(S), NEW y \in Seq(S),
         Then(v, w) = Then(x, y), Len(v) = Len(x)
  PROVE  v = x /\ w = y
<1>1. \A i \in 1..Len(v) : Then(v, w)[i] = v[i]
  BY ThenLetters
<1>2. \A i \in 1..Len(x) : Then(x, y)[i] = x[i]
  BY ThenLetters
<1>3. \A i \in 1..Len(v) : v[i] = x[i]
  BY <1>1, <1>2, Zenon
<1>4. v = x
  BY <1>3, SeqEqual
<1>5. Then(v, w) = Then(v, y)
  BY <1>4, Zenon
<1> QED  BY <1>4, <1>5, ThenCancel

(* The first occurrence of what c replaces is at i.                         *)
First(c, s, i) == i \in Occurs(c.find, s) /\ \A k \in Occurs(c.find, s) : i <= k

LEMMA FirstIs ==
  ASSUME NEW c, Pair(c), NEW s \in Seq(Letter), NEW i, First(c, s, i)
  PROVE  /\ i \in Nat /\ 1 <= i /\ i + Len(c.find) - 1 <= Len(s)
         /\ i = Min(Occurs(c.find, s))
         /\ Applies(c, s) /\ ReplaceFirst(c, s) \in Seq(Letter)
         /\ Len(ReplaceFirst(c, s)) = Len(s) - Len(c.find) + Len(c.by)
         /\ \A x \in Seq(Letter), y \in Seq(Letter) :
              /\ Len(x) = i - 1 /\ s = Then(x, Then(c.find, y))
              => ReplaceFirst(c, s) = Then(x, Then(c.by, y))
         /\ \E x \in Seq(Letter), y \in Seq(Letter) :
              /\ Len(x) = i - 1 /\ s = Then(x, Then(c.find, y))
<1>1. PICK p, b : p = c.find /\ b = c.by
  OBVIOUS
<1>2. /\ p \in Seq(Letter) /\ b \in Seq(Letter) /\ Len(p) > 0 /\ Len(p) \in Nat
      /\ Len(b) \in Nat /\ Len(s) \in Nat /\ Longer(c)
  BY <1>1, PairIs DEF Pair
<1>3. /\ i \in Occurs(p, s) /\ i \in Nat /\ 1 <= i /\ i + Len(p) - 1 <= Len(s)
      /\ SubSeq(s, i, i + Len(p) - 1) = p
  <2>1. i \in Occurs(p, s)
    BY <1>1 DEF First
  <2>2. At(p, s, i)
    BY <1>2, <2>1, OccursIs
  <2> QED  BY <2>1, <2>2 DEF Occurs, At
<1>4. PICK x0, y0 : x0 = SubSeq(s, 1, i - 1) /\ y0 = SubSeq(s, i + Len(p), Len(s))
  OBVIOUS
<1>5. /\ x0 \in Seq(Letter) /\ Len(x0) = i - 1
      /\ y0 \in Seq(Letter) /\ Len(y0) = Len(s) - i - Len(p) + 1
  <2>1. i - 1 \in (1 - 1)..Len(s) /\ 1 \in 1..(Len(s) + 1) /\ i - 1 - 1 + 1 = i - 1
    BY <1>2, <1>3
  <2>2. x0 \in Seq(Letter) /\ Len(x0) = i - 1
    BY <1>4, <2>1, PartLetters
  <2>3. PICK m : m = i + Len(p)
    OBVIOUS
  <2>4. m \in 1..(Len(s) + 1) /\ Len(s) \in (m - 1)..Len(s) /\ Len(s) - m + 1 = Len(s) - i - Len(p) + 1
    BY <1>2, <1>3, <2>3
  <2>5. SubSeq(s, m, Len(s)) \in Seq(Letter) /\ Len(SubSeq(s, m, Len(s))) = Len(s) - m + 1
    BY <2>4, PartLetters
  <2> QED  BY <1>4, <2>2, <2>3, <2>4, <2>5, Zenon
<1>6. s = Then(x0, Then(p, y0))
  <2>1. SubSeq(s, i, i + Len(p) - 1) \o SubSeq(s, i + Len(p) - 1 + 1, Len(s)) = SubSeq(s, i, Len(s))
    <3>1. i \in 1..(Len(s) + 1) /\ i + Len(p) - 1 \in (i - 1)..Len(s)
          /\ Len(s) \in (i + Len(p) - 1)..Len(s)
      BY <1>2, <1>3
    <3> QED  BY <3>1, ConcatAdjacentSubSeq
  <2>2. i + Len(p) - 1 + 1 = i + Len(p)
    BY <1>2, <1>3
  <2>3. SubSeq(s, 1, i - 1) \o SubSeq(s, i - 1 + 1, Len(s)) = SubSeq(s, 1, Len(s))
    <3>1. 1 \in 1..(Len(s) + 1) /\ i - 1 \in (1 - 1)..Len(s) /\ Len(s) \in (i - 1)..Len(s)
      BY <1>2, <1>3
    <3> QED  BY <3>1, ConcatAdjacentSubSeq
  <2>4. i - 1 + 1 = i
    BY <1>3
  <2>5. SubSeq(s, 1, Len(s)) = s
    BY SubSeqFull
  <2> QED  BY <1>3, <1>4, <2>1, <2>2, <2>3, <2>4, <2>5, Zenon DEF Then
<1>7. Min(Occurs(p, s)) = i
  <2>1. Occurs(p, s) \in SUBSET Nat /\ Occurs(p, s) # {}
    <3>1. DOMAIN s \in SUBSET Nat
      OBVIOUS
    <3>2. Occurs(p, s) \subseteq DOMAIN s
      BY DEF Occurs
    <3> QED  BY <1>3, <3>1, <3>2
  <2>2. Min(Occurs(p, s)) \in Occurs(p, s) /\ \A m \in Occurs(p, s) : Min(Occurs(p, s)) <= m
    BY <2>1, MinIs
  <2>3. PICK k \in Nat : k = Min(Occurs(p, s))
    BY <2>1, <2>2
  <2>4. i <= k /\ k <= i
    BY <1>1, <1>3, <2>2, <2>3 DEF First
  <2> QED  BY <1>3, <2>3, <2>4
<1>8. ReplaceFirst(c, s) = Then(x0, Then(b, y0))
  <2>1. ReplaceFirst(c, s) = (x0 \o b) \o y0
    BY <1>1, <1>4, <1>7, Zenon DEF ReplaceFirst
  <2>2. Then(Then(x0, b), y0) = Then(x0, Then(b, y0))
    BY <1>2, <1>5, ThenAssociative
  <2> QED  BY <2>1, <2>2, Zenon DEF Then
<1>9. /\ ReplaceFirst(c, s) \in Seq(Letter)
      /\ Len(ReplaceFirst(c, s)) = Len(s) - Len(p) + Len(b)
  <2>1. PICK z \in Seq(Letter) : z = Then(b, y0) /\ Len(z) = Len(b) + Len(y0)
    <3>1. b \in Seq(Letter) /\ y0 \in Seq(Letter)
      BY <1>2, <1>5
    <3>2. Then(b, y0) \in Seq(Letter) /\ Len(Then(b, y0)) = Len(b) + Len(y0)
      BY ONLY <3>1, ThenLetters
    <3> QED  BY <3>2
  <2>2. Then(x0, z) \in Seq(Letter) /\ Len(Then(x0, z)) = Len(x0) + Len(z)
    BY <1>5, <2>1, ThenLetters
  <2>3. Len(x0) + Len(z) = Len(s) - Len(p) + Len(b)
    BY <1>2, <1>3, <1>5, <2>1
  <2> QED  BY <1>8, <2>1, <2>2, <2>3, Zenon
<1>10. ASSUME NEW x \in Seq(Letter), NEW y \in Seq(Letter),
              Len(x) = i - 1, s = Then(x, Then(p, y))
       PROVE  ReplaceFirst(c, s) = Then(x, Then(b, y))
  <2>1. Then(p, y) \in Seq(Letter) /\ Then(p, y0) \in Seq(Letter)
    BY <1>2, <1>5, ThenType, Zenon
  <2>2. Then(x, Then(p, y)) = Then(x0, Then(p, y0)) /\ Len(x) = Len(x0)
    BY <1>5, <1>6, <1>10, Zenon
  <2>3. x = x0 /\ Then(p, y) = Then(p, y0)
    BY <1>5, <2>1, <2>2, ThenUnique, Zenon
  <2>4. y = y0
    <3>1. p \in Seq(Letter) /\ y \in Seq(Letter) /\ y0 \in Seq(Letter)
      BY <1>2, <1>5
    <3> QED  BY ONLY <2>3, <3>1, ThenCancel
  <2> QED  BY <1>8, <2>3, <2>4, Zenon
<1>11. Applies(c, s)
  BY <1>1, <1>2, <1>3 DEF Applies
<1> QED  BY <1>1, <1>3, <1>5, <1>6, <1>7, <1>9, <1>10, <1>11, Zenon

(* Texts of letters, put together.                                          *)
LEMMA Three ==
  ASSUME NEW v \in Seq(Letter), NEW w \in Seq(Letter), NEW z \in Seq(Letter)
  PROVE  /\ Then(v, w) \in Seq(Letter) /\ Then(w, z) \in Seq(Letter)
         /\ Then(Then(v, w), z) = Then(v, Then(w, z))
BY ThenType, ThenAssociative

(* One after the other, letter by letter.                                   *)
LEMMA TwoLetters ==
  ASSUME NEW v \in Seq(Letter), NEW w \in Seq(Letter)
  PROVE  /\ Len(Then(v, w)) = Len(v) + Len(w) /\ Len(v) \in Nat /\ Len(w) \in Nat
         /\ \A i \in 1..Len(v) : Then(v, w)[i] = v[i]
         /\ \A i \in 1..Len(w) : Then(v, w)[Len(v) + i] = w[i]
<1>1. Len(v) \in Nat /\ Len(w) \in Nat
  OBVIOUS
<1>2. Len(Then(v, w)) = Len(v) + Len(w)
  BY ThenLetters
<1>3. \A i \in 1..Len(v) : Then(v, w)[i] = v[i]
  BY ThenLetters
<1>4. \A i \in 1..Len(w) : Then(v, w)[Len(v) + i] = w[i]
  BY ThenLetters
<1> QED  BY <1>1, <1>2, <1>3, <1>4, Zenon

(* The first occurrence is what is cut out.                                 *)
LEMMA FirstCut ==
  ASSUME NEW c, Pair(c), NEW s \in Seq(Letter), NEW i, First(c, s, i),
         NEW x \in Seq(Letter), NEW y \in Seq(Letter),
         Len(x) = i - 1, s = Then(x, Then(c.find, y))
  PROVE  ReplaceFirst(c, s) = Then(x, Then(c.by, y))
<1>1. \A v \in Seq(Letter), w \in Seq(Letter) :
        Len(v) = i - 1 /\ s = Then(v, Then(c.find, w))
          => ReplaceFirst(c, s) = Then(v, Then(c.by, w))
  BY FirstIs
<1> QED  BY <1>1, Zenon

(* Where c applies, there is a first occurrence.                            *)
LEMMA AppliesIs ==
  ASSUME NEW c, Pair(c), NEW s \in Seq(Letter), Applies(c, s)
  PROVE  \E i \in Nat : First(c, s, i)
<1>1. Occurs(c.find, s) \in SUBSET Nat /\ Occurs(c.find, s) # {}
  <2>1. DOMAIN s \in SUBSET Nat
    OBVIOUS
  <2>2. Occurs(c.find, s) \subseteq DOMAIN s
    BY DEF Occurs
  <2> QED  BY <2>1, <2>2 DEF Applies
<1>2. PICK n \in Occurs(c.find, s) : \A m \in Occurs(c.find, s) : n <= m
  BY <1>1, Least
<1> QED  BY <1>1, <1>2 DEF First

(* A replacement looks no further than the first occurrence.                *)
LEMMA ReplaceLonger ==
  ASSUME NEW c, Pair(c), NEW s \in Seq(Letter), NEW w \in Seq(Letter), Applies(c, s)
  PROVE  /\ Applies(c, Then(s, w))
         /\ ReplaceFirst(c, Then(s, w)) = Then(ReplaceFirst(c, s), w)
<1>1. PICK p, b : p = c.find /\ b = c.by
  OBVIOUS
<1>2. p \in Seq(Letter) /\ b \in Seq(Letter) /\ Len(p) > 0 /\ Len(p) \in Nat
  BY <1>1, PairIs
<1>3. PICK i \in Nat : First(c, s, i)
  BY AppliesIs
<1>4. PICK z \in Seq(Letter) : z = Then(s, w)
  BY ThenType
<1>5. i + Len(p) - 1 <= Len(s) /\ Len(s) \in Nat
  <2>1. i + Len(c.find) - 1 <= Len(s)
    BY <1>3, FirstIs, Zenon
  <2> QED  BY <1>1, <2>1
<1>6. First(c, z, i)
  <2>1. i \in Occurs(p, z)
    BY <1>1, <1>2, <1>3, <1>4, OccursLonger DEF First
  <2>2. ASSUME NEW k \in Occurs(p, z) PROVE i <= k
    <3>1. k \in Nat
      BY <1>2, <2>2, OccursIs DEF At
    <3>2. CASE k + Len(p) - 1 <= Len(s)
      <4>1. k \in Occurs(p, s)
        BY <1>2, <1>4, <2>2, <3>2, OccursLonger
      <4> QED  BY <1>1, <1>3, <4>1 DEF First
    <3>3. CASE ~(k + Len(p) - 1 <= Len(s))
      BY <1>2, <1>5, <3>1, <3>3
    <3> QED  BY <3>2, <3>3
  <2> QED  BY <1>1, <2>1, <2>2 DEF First
<1>7. PICK x \in Seq(Letter), y \in Seq(Letter) :
        Len(x) = i - 1 /\ s = Then(x, Then(p, y))
  BY <1>1, <1>3, FirstIs
<1>8. ReplaceFirst(c, s) = Then(x, Then(b, y))
  BY <1>1, <1>3, <1>7, FirstIs
<1>9. /\ z = Then(x, Then(p, Then(y, w))) /\ Then(y, w) \in Seq(Letter)
      /\ Then(Then(x, Then(b, y)), w) = Then(x, Then(b, Then(y, w)))
  <2>1. ASSUME NEW e \in Seq(Letter)
        PROVE  Then(Then(x, Then(e, y)), w) = Then(x, Then(e, Then(y, w)))
    <3>1. Then(e, y) \in Seq(Letter)
      BY ThenType
    <3>2. Then(Then(x, Then(e, y)), w) = Then(x, Then(Then(e, y), w))
      BY <3>1, Three
    <3>3. Then(Then(e, y), w) = Then(e, Then(y, w))
      BY Three
    <3> QED  BY <3>2, <3>3, Zenon
  <2>2. Then(y, w) \in Seq(Letter)
    BY ThenType
  <2> QED  BY <1>2, <1>4, <1>7, <2>1, <2>2, Zenon
<1>10. ReplaceFirst(c, z) = Then(x, Then(b, Then(y, w)))
  BY <1>1, <1>6, <1>7, <1>9, FirstCut
<1>11. Applies(c, z)
  BY <1>6, FirstIs
<1> QED  BY <1>4, <1>8, <1>9, <1>10, <1>11, Zenon

(* A text that has lines before it: the occurrences are those in it, if     *)
(* there is none in the lines before.                                       *)
Broken(u) == u = <<>> \/ u[Len(u)] = Newline

LEMMA OccursInRow ==
  ASSUME NEW c, Pair(c), NEW u \in Seq(Letter), Broken(u), ~Applies(c, u),
         NEW r \in Seq(Letter), NEW i \in Occurs(c.find, Then(u, r))
  PROVE  i - Len(u) \in Nat /\ i - Len(u) \in Occurs(c.find, r)
<1>1. PICK p : p = c.find
  OBVIOUS
<1>2. /\ p \in Seq(Letter) /\ Len(p) > 0 /\ Len(p) \in Nat
      /\ Len(u) \in Nat /\ \A k \in 1..Len(p) : p[k] # Newline
  BY <1>1, PairIs
<1>3. PICK z \in Seq(Letter) : z = Then(u, r) /\ \A k \in 1..Len(u) : z[k] = u[k]
  BY ThenLetters
<1>4. At(p, z, i) /\ i \in Nat
  BY <1>1, <1>2, <1>3, OccursIs DEF At
<1>5. i \notin Occurs(p, u)
  BY <1>1 DEF Applies, Pair
<1>6. ~(i + Len(p) - 1 <= Len(u))
  BY <1>1, <1>2, <1>5, OccursLonger
<1>7. i > Len(u)
  <2>1. SUFFICES ASSUME i <= Len(u) PROVE FALSE
    BY <1>2, <1>4
  <2>2. PICK k : k = Len(u) - i + 1
    OBVIOUS
  <2>3. k \in 1..Len(p) /\ i + k - 1 = Len(u) /\ Len(u) \in 1..Len(u) /\ Len(u) # 0
    BY <1>2, <1>4, <1>6, <2>1, <2>2 DEF At
  <2>4. z[Len(u)] = p[k]
    BY <1>4, <2>3, Zenon DEF At
  <2>5. u[Len(u)] = Newline
    BY <2>3 DEF Broken
  <2> QED  BY <1>2, <1>3, <2>3, <2>4, <2>5, Zenon
<1>8. PICK j \in Nat : j = i - Len(u) /\ Len(u) + j = i
  <2>1. i - Len(u) \in Nat /\ Len(u) + (i - Len(u)) = i
    BY <1>2, <1>4, <1>7
  <2> QED  BY <2>1
<1>9. j \in Occurs(p, r) <=> Len(u) + j \in Occurs(p, z) /\ j > 0
  BY <1>2, <1>3, OccursLater
<1> QED  BY <1>1, <1>3, <1>7, <1>8, <1>9

(* So c is applied to the text alone.                                       *)
LEMMA ReplaceInRow ==
  ASSUME NEW c, Pair(c), NEW u \in Seq(Letter), Broken(u), ~Applies(c, u),
         NEW r \in Seq(Letter)
  PROVE  /\ Applies(c, Then(u, r)) <=> Applies(c, r)
         /\ Applies(c, r) => ReplaceFirst(c, Then(u, r)) = Then(u, ReplaceFirst(c, r))
<1>1. PICK p, b : p = c.find /\ b = c.by
  OBVIOUS
<1>2. p \in Seq(Letter) /\ b \in Seq(Letter) /\ Len(p) > 0 /\ Len(p) \in Nat /\ Len(u) \in Nat
  BY <1>1, PairIs
<1>3. PICK z \in Seq(Letter) : z = Then(u, r)
  BY ThenType
<1>4. Applies(c, z) => Applies(c, r)
  <2>1. ASSUME Applies(c, z) PROVE Applies(c, r)
    <3>1. PICK i : i \in Occurs(p, z)
      BY <1>1, <2>1 DEF Applies
    <3>2. i - Len(u) \in Occurs(p, r)
      BY <1>1, <1>3, <3>1, OccursInRow
    <3> QED  BY <1>1, <2>1, <3>2 DEF Applies
  <2> QED  BY <2>1
<1>5. ASSUME Applies(c, r)
      PROVE  Applies(c, z) /\ ReplaceFirst(c, z) = Then(u, ReplaceFirst(c, r))
  <2>1. PICK i \in Nat : First(c, r, i)
    BY <1>5, AppliesIs
  <2>2. PICK j \in Nat : j = Len(u) + i
    BY <1>2
  <2>3. i > 0 /\ j \in Occurs(p, z)
    BY <1>1, <1>2, <1>3, <2>1, <2>2, OccursLater DEF First
  <2>4. ASSUME NEW k \in Occurs(p, z) PROVE j <= k
    <3>1. PICK m \in Nat : m = k - Len(u) /\ m \in Occurs(p, r)
      BY <1>1, <1>3, <2>4, OccursInRow
    <3>2. i <= m
      BY <1>1, <2>1, <3>1 DEF First
    <3>3. k \in Nat
      BY <1>2, <2>4, OccursIs DEF At
    <3> QED  BY <1>2, <2>2, <3>1, <3>2, <3>3
  <2>5. First(c, z, j)
    BY <1>1, <2>3, <2>4 DEF First
  <2>6. PICK x \in Seq(Letter), y \in Seq(Letter) :
          Len(x) = i - 1 /\ r = Then(x, Then(p, y))
    BY <1>1, <2>1, FirstIs
  <2>7. ReplaceFirst(c, r) = Then(x, Then(b, y))
    BY <1>1, <2>1, <2>6, FirstIs
  <2>8. ASSUME NEW e \in Seq(Letter)
        PROVE  Then(u, Then(x, Then(e, y))) = Then(Then(u, x), Then(e, y))
    <3>1. Then(e, y) \in Seq(Letter)
      BY ThenType
    <3> QED  BY <3>1, Three
  <2>9. Then(u, x) \in Seq(Letter) /\ Len(Then(u, x)) = j - 1
    <3>1. Then(u, x) \in Seq(Letter) /\ Len(Then(u, x)) = Len(u) + Len(x)
      BY ThenLetters
    <3> QED  BY <1>2, <2>2, <2>6, <3>1
  <2>10. ReplaceFirst(c, z) = Then(Then(u, x), Then(b, y))
    <3>1. z = Then(Then(u, x), Then(p, y))
      BY <1>2, <1>3, <2>6, <2>8, Zenon
    <3> QED  BY <1>1, <2>5, <2>6, <2>9, <3>1, FirstCut
  <2>11. Applies(c, z)
    BY <2>5, FirstIs
  <2> QED  BY <1>2, <2>7, <2>8, <2>10, <2>11, Zenon
<1> QED  BY <1>3, <1>4, <1>5

(* What c makes of a line has no line break either, and is shorter.         *)
LEMMA ReplaceShortens ==
  ASSUME NEW c, Pair(c), NEW r \in Seq(Glyphs), Applies(c, r)
  PROVE  /\ ReplaceFirst(c, r) \in Seq(Glyphs) /\ Len(r) \in Nat
         /\ Len(ReplaceFirst(c, r)) \in Nat /\ Len(ReplaceFirst(c, r)) < Len(r)
<1>1. PICK p, b : p = c.find /\ b = c.by /\ p \in Seq(Glyphs) /\ b \in Seq(Glyphs)
  BY DEF Pair
<1>2. Len(p) > 0 /\ Len(p) \in Nat /\ Len(b) \in Nat /\ Len(b) < Len(p) /\ Len(r) \in Nat
  BY <1>1, PairIs
<1>3. r \in Seq(Letter)
  BY SeqMonotonic DEF Letter
<1>4. PICK i \in Nat : First(c, r, i)
  BY <1>3, AppliesIs
<1>5. /\ 1 <= i /\ i + Len(p) - 1 <= Len(r) /\ i = Min(Occurs(p, r))
      /\ Len(ReplaceFirst(c, r)) = Len(r) - Len(p) + Len(b)
  BY <1>1, <1>3, <1>4, FirstIs
<1>6. PICK x, y : x = SubSeq(r, 1, i - 1) /\ y = SubSeq(r, i + Len(p), Len(r))
  OBVIOUS
<1>7. x \in Seq(Glyphs) /\ y \in Seq(Glyphs)
  <2>1. 1 \in 1..(Len(r) + 1) /\ i - 1 \in (1 - 1)..Len(r)
    BY <1>2, <1>5
  <2>2. i + Len(p) \in 1..(Len(r) + 1) /\ Len(r) \in (i + Len(p) - 1)..Len(r)
    BY <1>2, <1>5
  <2>3. x \in Seq(Glyphs)
    BY <1>6, <2>1, PartLetters
  <2>4. y \in Seq(Glyphs)
    BY <1>6, <2>2, PartLetters
  <2> QED  BY <2>3, <2>4
<1>8. ReplaceFirst(c, r) = (x \o b) \o y
  BY <1>1, <1>5, <1>6, Zenon DEF ReplaceFirst
<1>9. (x \o b) \o y \in Seq(Glyphs)
  BY <1>1, <1>7
<1> QED  BY <1>2, <1>5, <1>8, <1>9

-----------------------------------------------------------------------------
(***************************************************************************)
(* The lines rows of a trace as one text, each with its line break.        *)
(***************************************************************************)
Whole(rows)   == [k \in DOMAIN rows |-> rows[k] \o <<Newline>>]
To(rows, k)   == UpTo(Whole(rows), k)
AllOf(rows)   == Text(Whole(rows))
RowSeq        == Seq(Seq(Glyphs))

LEMMA RowIs ==
  ASSUME NEW rows \in RowSeq, NEW k \in 1..Len(rows)
  PROVE  /\ rows[k] \in Seq(Letter) /\ rows[k] \in Seq(Glyphs)
         /\ Whole(rows)[k] = Then(rows[k], <<Newline>>)
         /\ <<Newline>> \in Seq(Letter)
         /\ Then(rows[k], <<Newline>>) \in Seq(Letter)
<1>1. Glyphs \subseteq Letter
  BY DEF Letter
<1>2. PICK r \in Seq(Glyphs) : r = rows[k]
  BY DEF RowSeq
<1>3. r \in Seq(Letter)
  BY <1>1, SeqMonotonic
<1>4. <<Newline>> \in Seq(Letter)
  BY DEF Letter
<1>5. k \in DOMAIN rows
  BY DEF RowSeq
<1>6. Whole(rows)[k] = Then(rows[k], <<Newline>>)
  BY <1>5, Zenon DEF Whole, Then
<1> QED  BY <1>2, <1>3, <1>4, <1>6, ThenType

(* The text of the first lines, and of one more.                            *)
LEMMA RowsTo ==
  ASSUME NEW rows \in RowSeq
  PROVE  /\ Whole(rows) \in Seq(Seq(Letter)) /\ Len(Whole(rows)) = Len(rows)
         /\ Len(rows) \in Nat
         /\ To(rows, 0) = <<>>
         /\ \A k \in 0..Len(rows) : To(rows, k) \in Seq(Letter)
         /\ \A k \in 1..Len(rows) :
              To(rows, k) = Then(To(rows, k - 1), Then(rows[k], <<Newline>>))
         /\ AllOf(rows) = To(rows, Len(rows))
<1>0. Len(rows) \in Nat /\ DOMAIN rows = 1..Len(rows)
  BY DEF RowSeq
<1>1. PICK W : W = Whole(rows)
  OBVIOUS
<1>2. W \in Seq(Seq(Letter)) /\ Len(W) = Len(rows)
  <2>1. DOMAIN W = 1..Len(rows)
    BY <1>0, <1>1 DEF Whole
  <2>2. \A k \in 1..Len(rows) : W[k] \in Seq(Letter)
    BY <1>1, RowIs
  <2>3. W = [k \in 1..Len(rows) |-> W[k]]
    BY <1>0, <1>1, Zenon DEF Whole
  <2> QED  BY <1>0, <2>1, <2>2, <2>3
<1>3. To(rows, 0) = <<>> /\ \A k \in 0..Len(rows) : To(rows, k) \in Seq(Letter)
  <2>1. 0 \in 0..Len(W)
    BY <1>0, <1>2
  <2> QED  BY <1>1, <1>2, <2>1, FlattenType DEF To
<1>4. ASSUME NEW k \in 1..Len(rows)
      PROVE  To(rows, k) = Then(To(rows, k - 1), Then(rows[k], <<Newline>>))
  <2>1. k \in 1..Len(W) /\ k - 1 \in 0..Len(rows)
    BY <1>0, <1>2
  <2>2. UpTo(W, k - 1) \in Seq(Letter)
    BY <1>1, <1>3, <2>1 DEF To
  <2>3. UpTo(W, k) = Then(UpTo(W, k - 1), W[k])
    BY <1>2, <2>1, <2>2, FlattenOneMore, Zenon
  <2>4. W[k] = Then(rows[k], <<Newline>>)
    BY <1>1, RowIs
  <2> QED  BY <1>1, <2>3, <2>4, Zenon DEF To
<1>5. AllOf(rows) = To(rows, Len(rows))
  <2>1. SubSeq(W, 1, Len(W)) = W
    BY <1>2, SubSeqFull
  <2> QED  BY <1>1, <1>2, <2>1, Zenon DEF AllOf, To, UpTo
<1> QED  BY <1>0, <1>1, <1>2, <1>3, <1>4, <1>5, Zenon

(* The lines before one end with a line break.                              *)
LEMMA RowsBroken ==
  ASSUME NEW rows \in RowSeq, NEW k \in 0..Len(rows)
  PROVE  Broken(To(rows, k))
<1>1. CASE k = 0
  BY <1>1, RowsTo DEF Broken
<1>2. CASE k # 0
  <2>1. k \in 1..Len(rows) /\ k - 1 \in 0..Len(rows)
    BY <1>2, RowsTo
  <2>2. PICK a \in Seq(Letter), r \in Seq(Letter) :
          a = To(rows, k - 1) /\ r = rows[k] /\ To(rows, k) = Then(a, Then(r, <<Newline>>))
    BY <2>1, RowsTo, RowIs
  <2>3. PICK n \in Seq(Letter) : n = <<Newline>> /\ Len(n) = 1 /\ n[1] = Newline
    BY <2>1, RowIs
  <2>4. To(rows, k) = Then(Then(a, r), n) /\ Then(a, r) \in Seq(Letter)
    <3>1. a \in Seq(Letter) /\ r \in Seq(Letter) /\ n \in Seq(Letter)
      OBVIOUS
    <3>2. Then(Then(a, r), n) = Then(a, Then(r, n)) /\ Then(a, r) \in Seq(Letter)
      BY ONLY <3>1, Three
    <3> QED  BY <2>2, <2>3, <3>2, Zenon
  <2>5. PICK e \in Seq(Letter) : e = Then(a, r)
    BY <2>4
  <2>6. /\ Len(Then(e, n)) = Len(e) + 1 /\ Len(e) \in Nat
        /\ Then(e, n)[Len(e) + 1] = Newline
    <3>1. /\ Len(Then(e, n)) = Len(e) + Len(n) /\ Len(e) \in Nat
          /\ \A i \in 1..Len(n) : Then(e, n)[Len(e) + i] = n[i]
      BY TwoLetters
    <3>2. 1 \in 1..Len(n)
      BY <2>3
    <3> QED  BY <2>3, <3>1, <3>2, Zenon
  <2> QED  BY <2>4, <2>5, <2>6, Zenon DEF Broken
<1> QED  BY <1>1, <1>2

(* No pair reaches over the line break at the end of a text.                *)
LEMMA AppliesBefore ==
  ASSUME NEW c, Pair(c), NEW r \in Seq(Letter)
  PROVE  Applies(c, Then(r, <<Newline>>)) <=> Applies(c, r)
<1>0. <<Newline>> \in Seq(Letter)
  BY DEF Letter
<1>1. PICK n \in Seq(Letter) : n = <<Newline>> /\ Len(n) = 1 /\ n[1] = Newline
  BY <1>0
<1>2. ASSUME Applies(c, Then(r, n)) PROVE Applies(c, r)
  <2>3. PICK i : i \in Occurs(c.find, Then(r, n))
    BY <1>2 DEF Applies
  <2>4. i + Len(c.find) - 1 <= Len(r)
    <3>1. SUFFICES ASSUME ~(i + Len(c.find) - 1 <= Len(r)) PROVE FALSE
      OBVIOUS
    <3>2. PICK p : p = c.find /\ p \in Seq(Letter) /\ Len(p) \in Nat /\ Len(p) > 0
                   /\ \A j \in 1..Len(p) : p[j] # Newline
      BY PairIs
    <3>3. PICK z \in Seq(Letter) : z = Then(r, n)
      BY ThenType
    <3>4. At(p, z, i)
      BY <2>3, <3>2, <3>3, OccursIs
    <3>5. Len(z) = Len(r) + 1 /\ Len(r) \in Nat /\ z[Len(r) + 1] = Newline
      <4>1. /\ Len(Then(r, n)) = Len(r) + Len(n) /\ Len(r) \in Nat
            /\ \A j \in 1..Len(n) : Then(r, n)[Len(r) + j] = n[j]
        BY TwoLetters
      <4>2. 1 \in 1..Len(n)
        BY <1>1
      <4> QED  BY <1>1, <3>3, <4>1, <4>2, Zenon
    <3>6. i \in Nat /\ i + Len(p) - 1 = Len(r) + 1 /\ Len(p) \in 1..Len(p)
      BY <3>1, <3>2, <3>4, <3>5 DEF At
    <3>7. z[i + Len(p) - 1] = p[Len(p)]
      BY <3>4, <3>6, Zenon DEF At
    <3> QED  BY <3>2, <3>5, <3>6, <3>7, Zenon
  <2>5. i \in Occurs(c.find, r)
    BY <2>3, <2>4, PairIs, OccursLonger
  <2> QED  BY <2>5 DEF Applies, Pair
<1>3. Applies(c, r) => Applies(c, Then(r, n))
  BY ReplaceLonger
<1> QED  BY <1>1, <1>2, <1>3

(***************************************************************************)
(* Where c applies to the text, it applies to a line, and does to the text *)
(* what it does to that line.                                              *)
(***************************************************************************)
LEMMA RowReplaced ==
  ASSUME NEW rows \in RowSeq, NEW c, Pair(c), Applies(c, AllOf(rows))
  PROVE  \E k \in 1..Len(rows), r \in Seq(Glyphs) :
           /\ Applies(c, rows[k]) /\ r = ReplaceFirst(c, rows[k])
           /\ [rows EXCEPT ![k] = r] \in RowSeq
           /\ AllOf([rows EXCEPT ![k] = r]) = ReplaceFirst(c, AllOf(rows))
<1> DEFINE T == {k \in 0..Len(rows) : Applies(c, To(rows, k))}
<1>0. PICK m \in Nat : m = Len(rows)
  BY RowsTo
<1>1. PICK k \in T : \A j \in T : k <= j
  <2>1. m \in T
    BY <1>0, RowsTo
  <2>2. T \in SUBSET Nat
    BY <1>0
  <2> HIDE DEF T
  <2> QED  BY <2>1, <2>2, Least
<1>2. k \in 1..m /\ k - 1 \in 0..m /\ ~Applies(c, To(rows, k - 1)) /\ Applies(c, To(rows, k))
  <2>1. ~Applies(c, <<>>)
    <3>1. ASSUME NEW i \in Occurs(c.find, <<>>) PROVE FALSE
      <4>1. DOMAIN <<>> = {}
        OBVIOUS
      <4> QED  BY <3>1, <4>1, Zenon DEF Occurs
    <3> QED  BY <3>1, Zenon DEF Applies
  <2>2. k # 0
    BY <1>1, <2>1, RowsTo
  <2>3. k \in 1..m /\ k - 1 \in 0..m /\ k - 1 \in Nat /\ ~(k <= k - 1)
    BY <1>0, <1>1, <2>2
  <2>4. k - 1 \notin T
    BY <1>1, <2>3, Zenon
  <2> QED  BY <1>0, <1>1, <2>3, <2>4
<1>3. PICK u, r, n : /\ u = To(rows, k - 1) /\ r = rows[k] /\ n = <<Newline>>
                     /\ u \in Seq(Letter) /\ r \in Seq(Letter) /\ n \in Seq(Letter)
                     /\ r \in Seq(Glyphs) /\ Broken(u) /\ ~Applies(c, u)
                     /\ To(rows, k) = Then(u, Then(r, n))
  <2>1. To(rows, k - 1) \in Seq(Letter) /\ Broken(To(rows, k - 1))
        /\ To(rows, k) = Then(To(rows, k - 1), Then(rows[k], <<Newline>>))
    BY <1>0, <1>2, RowsTo, RowsBroken
  <2>2. rows[k] \in Seq(Letter) /\ rows[k] \in Seq(Glyphs) /\ <<Newline>> \in Seq(Letter)
    BY <1>0, <1>2, RowIs
  <2> QED  BY <1>2, <2>1, <2>2
<1>4. Applies(c, r)
  <2>1. Then(r, n) \in Seq(Letter)
    BY <1>3, ThenType
  <2>2. Applies(c, Then(r, n))
    BY <1>2, <1>3, <2>1, ReplaceInRow
  <2> QED  BY <1>3, <2>2, AppliesBefore
<1>5. PICK r2 : r2 = ReplaceFirst(c, r)
  OBVIOUS
<1>6. r2 \in Seq(Glyphs) /\ r2 \in Seq(Letter)
  <2>1. r2 \in Seq(Glyphs)
    BY <1>3, <1>4, <1>5, ReplaceShortens
  <2> QED  BY <2>1, SeqMonotonic DEF Letter
<1>7. PICK q : q = [rows EXCEPT ![k] = r2]
  OBVIOUS
<1>8. /\ q \in RowSeq /\ Len(q) = m /\ q[k] = r2
      /\ \A j \in 1..m : j # k => q[j] = rows[j]
  BY <1>0, <1>2, <1>6, <1>7, ExceptSeq DEF RowSeq
<1> DEFINE Rewritten(j) == To(q, j) = IF j < k THEN To(rows, j) ELSE ReplaceFirst(c, To(rows, j))
           U == {j \in 0..m : Rewritten(j) /\ (j >= k => Applies(c, To(rows, j)))}
<1>9. 0 \in U
  BY <1>0, <1>2, <1>8, RowsTo
<1>10. ASSUME NEW j \in 0..(m - 1), j \in U PROVE j + 1 \in U
  <2>0. PICK h : h = j + 1 /\ h \in 1..m /\ h - 1 = j /\ j \in 0..m /\ h \in 0..m
    BY <1>0
  <2>1. PICK a, w, v : /\ a = To(rows, j) /\ w = rows[h] /\ v = q[h]
                       /\ To(rows, h) = Then(a, Then(w, n))
                       /\ To(q, h) = Then(To(q, j), Then(v, n))
    <3>1. To(rows, h) = Then(To(rows, h - 1), Then(rows[h], <<Newline>>))
      BY <1>0, <2>0, RowsTo
    <3>2. To(q, h) = Then(To(q, h - 1), Then(q[h], <<Newline>>))
      BY <1>8, <2>0, RowsTo
    <3> QED  BY <1>3, <2>0, <3>1, <3>2
  <2>2. Then(w, n) \in Seq(Letter) /\ a \in Seq(Letter) /\ w \in Seq(Letter)
    BY <1>0, <1>3, <2>0, <2>1, RowsTo, RowIs
  <2>3. CASE h < k
    <3>1. j < k /\ v = w
      BY <1>2, <1>8, <2>0, <2>1, <2>3
    <3>2. To(q, h) = To(rows, h)
      BY <1>10, <2>1, <3>1
    <3> QED  BY <1>2, <2>0, <2>3, <3>2
  <2>4. CASE h = k
    <3>1. j < k /\ v = r2 /\ w = r /\ a = u
      BY <1>2, <1>3, <1>8, <2>0, <2>1, <2>4
    <3>2. To(q, h) = Then(u, Then(r2, n))
      BY <1>10, <2>1, <3>1
    <3>3. ReplaceFirst(c, Then(r, n)) = Then(r2, n) /\ Applies(c, Then(r, n))
      BY <1>3, <1>4, <1>5, ReplaceLonger
    <3>4. ReplaceFirst(c, Then(u, Then(r, n))) = Then(u, Then(r2, n))
      BY <1>3, <2>2, <3>1, <3>3, ReplaceInRow
    <3>5. To(q, h) = ReplaceFirst(c, To(rows, h))
      BY <2>1, <3>1, <3>2, <3>4
    <3> QED  BY <1>2, <2>0, <2>4, <3>5
  <2>5. CASE h > k
    <3>1. j >= k /\ ~(j < k) /\ ~(h < k) /\ v = w
      BY <1>2, <1>8, <2>0, <2>1, <2>5
    <3>2. To(q, j) = ReplaceFirst(c, a) /\ Applies(c, a)
      BY <1>10, <2>1, <3>1
    <3>3. /\ ReplaceFirst(c, Then(a, Then(w, n))) = Then(ReplaceFirst(c, a), Then(w, n))
          /\ Applies(c, Then(a, Then(w, n)))
      BY <2>2, <3>2, ReplaceLonger
    <3>4. To(q, h) = ReplaceFirst(c, To(rows, h)) /\ Applies(c, To(rows, h))
      BY <2>1, <3>1, <3>2, <3>3, Zenon
    <3> QED  BY <2>0, <3>1, <3>4
  <2> QED  BY <1>2, <2>0, <2>3, <2>4, <2>5
<1>11. \A j \in 0..m : j \in U
  <2> HIDE DEF U
  <2> QED  BY <1>0, <1>9, <1>10, Inductive
<1>12. To(q, m) = ReplaceFirst(c, To(rows, m))
  <2>1. m \in 0..m /\ ~(m < k)
    BY <1>0, <1>2
  <2> QED  BY <1>11, <2>1
<1>13. AllOf(q) = ReplaceFirst(c, AllOf(rows))
  BY <1>0, <1>8, <1>12, RowsTo
<1> QED  BY <1>0, <1>2, <1>3, <1>4, <1>5, <1>6, <1>7, <1>8, <1>13, Zenon

(* Where c does not apply to the text, it applies to no line.               *)
LEMMA RowsDone ==
  ASSUME NEW rows \in RowSeq, NEW c, Pair(c), ~Applies(c, AllOf(rows)),
         NEW k \in 1..Len(rows)
  PROVE  ~Applies(c, rows[k])
<1> DEFINE T == {j \in 0..Len(rows) : Applies(c, To(rows, j))}
<1>0. PICK m \in Nat : m = Len(rows)
  BY RowsTo
<1>1. SUFFICES ASSUME Applies(c, rows[k]) PROVE FALSE
  OBVIOUS
<1>2. ASSUME NEW j \in 1..m, Applies(c, To(rows, j - 1)) PROVE Applies(c, To(rows, j))
  <2>1. /\ To(rows, j - 1) \in Seq(Letter) /\ Then(rows[j], <<Newline>>) \in Seq(Letter)
        /\ To(rows, j) = Then(To(rows, j - 1), Then(rows[j], <<Newline>>))
    <3>1. j \in 1..Len(rows) /\ j - 1 \in 0..Len(rows)
      BY <1>0
    <3> QED  BY <3>1, RowsTo, RowIs
  <2> QED  BY <1>2, <2>1, ReplaceLonger
<1>3. Applies(c, To(rows, k))
  <2>1. CASE Applies(c, To(rows, k - 1))
    BY <1>0, <1>2, <2>1
  <2>2. CASE ~Applies(c, To(rows, k - 1))
    <3>1. k \in 1..Len(rows) /\ k - 1 \in 0..Len(rows)
      BY <1>0
    <3>2. PICK u, r, n : /\ u = To(rows, k - 1) /\ r = rows[k] /\ n = <<Newline>>
                         /\ u \in Seq(Letter) /\ r \in Seq(Letter) /\ n \in Seq(Letter)
                         /\ Broken(u) /\ Then(r, n) \in Seq(Letter)
                         /\ To(rows, k) = Then(u, Then(r, n))
      <4>1. /\ To(rows, k - 1) \in Seq(Letter) /\ Broken(To(rows, k - 1))
            /\ To(rows, k) = Then(To(rows, k - 1), Then(rows[k], <<Newline>>))
        BY <3>1, RowsTo, RowsBroken
      <4>2. /\ rows[k] \in Seq(Letter) /\ <<Newline>> \in Seq(Letter)
            /\ Then(rows[k], <<Newline>>) \in Seq(Letter)
        BY <3>1, RowIs
      <4> QED  BY <4>1, <4>2
    <3>3. Applies(c, Then(r, n))
      BY <1>1, <3>2, ReplaceLonger
    <3> QED  BY <2>2, <3>2, <3>3, ReplaceInRow
  <2> QED  BY <2>1, <2>2
<1> DEFINE U == {j \in 0..(m - k) : Applies(c, To(rows, k + j))}
<1>4. 0 \in U
  <2>1. 0 \in 0..(m - k) /\ k + 0 = k
    BY <1>0
  <2> QED  BY <1>3, <2>1
<1>5. ASSUME NEW j \in 0..(m - k - 1), j \in U PROVE j + 1 \in U
  <2>1. PICK h : h = k + (j + 1)
    OBVIOUS
  <2>2. h \in 1..m /\ h - 1 = k + j /\ j + 1 \in 0..(m - k)
    BY <1>0, <2>1
  <2>3. Applies(c, To(rows, h))
    BY <1>2, <1>5, <2>2
  <2> QED  BY <2>1, <2>2, <2>3
<1>6. \A j \in 0..(m - k) : j \in U
  <2>1. m - k \in Nat
    BY <1>0
  <2> HIDE DEF U
  <2> QED  BY <1>4, <1>5, <2>1, Inductive
<1>7. Applies(c, To(rows, m))
  <2>1. m - k \in 0..(m - k) /\ k + (m - k) = m
    BY <1>0
  <2> QED  BY <1>6, <2>1
<1> QED  BY <1>0, <1>7, RowsTo

(* The line break at the end is taken off.                                  *)
LEMMA WithoutIs ==
  ASSUME NEW e \in Seq(Letter)
  PROVE  WithoutLastNewline(Then(e, <<Newline>>)) = e
<1>0. <<Newline>> \in Seq(Letter)
  BY DEF Letter
<1>1. PICK n \in Seq(Letter) : n = <<Newline>> /\ Len(n) = 1 /\ n[1] = Newline
  BY <1>0
<1>2. PICK z \in Seq(Letter) : z = Then(e, n)
  BY ThenType
<1>3. PICK l \in Nat : l = Len(e)
  OBVIOUS
<1>4. Len(z) = l + 1 /\ z[l + 1] = Newline /\ \A i \in 1..l : z[i] = e[i]
  <2>1. 1 \in 1..Len(n)
    BY <1>1
  <2>2. /\ Len(Then(e, n)) = Len(e) + Len(n)
        /\ \A i \in 1..Len(e) : Then(e, n)[i] = e[i]
        /\ \A i \in 1..Len(n) : Then(e, n)[Len(e) + i] = n[i]
    BY TwoLetters
  <2> QED  BY <1>1, <1>2, <1>3, <2>1, <2>2, Zenon
<1>5. z # <<>> /\ Last(z) = Newline
  BY <1>4 DEF Last
<1>6. Front(z) = e
  <2>1. l \in 0..Len(z)
    BY <1>3, <1>4
  <2>2. /\ SubSeq(z, 1, l) \in Seq(Letter) /\ Len(SubSeq(z, 1, l)) = l
        /\ \A i \in 1..l : SubSeq(z, 1, l)[i] = z[i]
    BY <2>1, Beginning
  <2>3. SubSeq(z, 1, l) = e
    BY <1>3, <1>4, <2>2, SeqEqual
  <2>4. Len(z) - 1 = l
    BY <1>3, <1>4
  <2> QED  BY <2>3, <2>4, Zenon DEF Front
<1> QED  BY <1>1, <1>2, <1>5, <1>6, Zenon DEF WithoutLastNewline

(***************************************************************************)
(* The text without its last line break is rewritten as the whole of it is. *)
(***************************************************************************)
LEMMA ShownIs ==
  ASSUME NEW rows \in RowSeq, NEW c, Pair(c)
  PROVE  /\ Applies(c, WithoutLastNewline(AllOf(rows))) <=> Applies(c, AllOf(rows))
         /\ Applies(c, AllOf(rows)) =>
              WithoutLastNewline(ReplaceFirst(c, AllOf(rows)))
                = ReplaceFirst(c, WithoutLastNewline(AllOf(rows)))
<1>1. CASE Len(rows) = 0
  <2>1. AllOf(rows) = <<>> /\ WithoutLastNewline(<<>>) = <<>>
    BY <1>1, RowsTo DEF WithoutLastNewline
  <2>2. ~Applies(c, <<>>)
    <3>1. DOMAIN <<>> = {}
      OBVIOUS
    <3> QED  BY <3>1, Zenon DEF Applies, Occurs
  <2> QED  BY <2>1, <2>2
<1>2. CASE Len(rows) # 0
  <2>0. PICK m \in Nat : m = Len(rows) /\ m \in 1..m /\ m - 1 \in 0..m
    BY <1>2, RowsTo
  <2>1. PICK u \in Seq(Letter), r \in Seq(Letter), n \in Seq(Letter) :
          n = <<Newline>> /\ AllOf(rows) = Then(u, Then(r, n))
    <3>1. /\ To(rows, m - 1) \in Seq(Letter)
          /\ AllOf(rows) = Then(To(rows, m - 1), Then(rows[m], <<Newline>>))
      BY <2>0, RowsTo
    <3>2. rows[m] \in Seq(Letter) /\ <<Newline>> \in Seq(Letter)
      BY <2>0, RowIs
    <3> QED  BY <3>1, <3>2
  <2>2. PICK e \in Seq(Letter) : AllOf(rows) = Then(e, n)
    <3>1. Then(Then(u, r), n) = Then(u, Then(r, n)) /\ Then(u, r) \in Seq(Letter)
      BY Three
    <3> QED  BY <2>1, <3>1
  <2>3. WithoutLastNewline(AllOf(rows)) = e
    BY <2>1, <2>2, WithoutIs
  <2>4. Applies(c, AllOf(rows)) <=> Applies(c, e)
    BY <2>1, <2>2, AppliesBefore
  <2>5. ASSUME Applies(c, e)
        PROVE  WithoutLastNewline(ReplaceFirst(c, AllOf(rows))) = ReplaceFirst(c, e)
    <3>1. ReplaceFirst(c, Then(e, n)) = Then(ReplaceFirst(c, e), n)
      BY <2>5, ReplaceLonger
    <3>2. ReplaceFirst(c, e) \in Seq(Letter)
      BY <2>5, AppliesIs, FirstIs
    <3> QED  BY <2>1, <2>2, <3>1, <3>2, WithoutIs
  <2> QED  BY <2>3, <2>4, <2>5
<1> QED  BY <1>1, <1>2

-----------------------------------------------------------------------------
(***************************************************************************)
(* A pair used to exhaustion, and the pairs one after the other.           *)
(***************************************************************************)
Once(c, s)       == IF Applies(c, s) THEN ReplaceFirst(c, s) ELSE s
Used(f, c, s, m) == f = [n \in 0..m |-> IF n = 0 THEN s ELSE Once(c, f[n - 1])]

(* A pair leaves a line a line; where it applies, a shorter one.            *)
LEMMA OnceIs ==
  ASSUME NEW c \in Pairs, NEW r \in Seq(Glyphs)
  PROVE  /\ Once(c, r) \in Seq(Glyphs)
         /\ Applies(c, r) => Pair(c) /\ Len(Once(c, r)) < Len(r)
<1>1. c.find \in Seq(Glyphs) /\ c.by \in Seq(Glyphs)
  BY StackTraceAssumption
<1>2. CASE Applies(c, r)
  <2>1. Pair(c)
    BY <1>1, <1>2 DEF Pair, Applies
  <2> QED  BY <1>2, <2>1, ReplaceShortens DEF Once
<1>3. CASE ~Applies(c, r)
  BY <1>3 DEF Once
<1> QED  BY <1>2, <1>3

(* The recursion of Exhausted defines something.                            *)
LEMMA UsedExists ==
  ASSUME NEW n \in Nat, NEW c, NEW s
  PROVE  \E f : Used(f, c, s, n)
<1> USE DEF Used
<1> DEFINE T == {m \in Nat : \E f : Used(f, c, s, m)}
<1>1. 0 \in T
  <2> DEFINE g == [i \in 0..0 |-> s]
  <2>1. Used(g, c, s, 0)
    BY SMT
  <2> QED  BY <2>1
<1>2. ASSUME NEW m \in 0..(n - 1), m \in T PROVE m + 1 \in T
  <2>0. m \in Nat /\ m + 1 \in Nat
    BY SMT
  <2>1. PICK f : Used(f, c, s, m)
    BY <1>2
  <2> DEFINE After(h, i) == IF i = 0 THEN s ELSE Once(c, h[i - 1])
             g == [i \in 0..(m + 1) |-> After(f, i)]
  <2>2. ASSUME NEW i \in 0..m PROVE g[i] = f[i]
    <3>1. i \in 0..(m + 1)
      BY <2>0, SMT
    <3>2. f[i] = After(f, i)
      BY <2>1, Zenon
    <3> QED  BY <3>1, <3>2, Zenon
  <2>3. ASSUME NEW i \in 0..(m + 1) PROVE After(f, i) = After(g, i)
    <3>1. i # 0 => i - 1 \in 0..m
      BY <2>0, SMT
    <3> HIDE DEF g
    <3> QED  BY <2>2, <3>1, Zenon
  <2>4. g = [i \in 0..(m + 1) |-> After(g, i)]
    BY <2>3, Zenon
  <2>5. \E h : Used(h, c, s, m + 1)
    BY <2>4, Zenon
  <2> QED  BY <2>0, <2>5
<1>3. \A m \in 0..n : m \in T
  <2> HIDE DEF T
  <2> QED  BY <1>1, <1>2, Inductive
<1> QED  BY <1>3, SMT

(* What the pair was used n times on, n by n.                               *)
LEMMA UsedIs ==
  ASSUME NEW c \in Pairs, NEW s \in Seq(Glyphs), NEW m \in Nat, NEW f, Used(f, c, s, m)
  PROVE  /\ f[0] = s
         /\ \A n \in 1..m : f[n] = Once(c, f[n - 1])
         /\ \A n \in 0..m : f[n] \in Seq(Glyphs)
<1>1. f[0] = s
  <2>1. 0 \in 0..m
    OBVIOUS
  <2> QED  BY <2>1, Zenon DEF Used
<1>2. ASSUME NEW n \in 1..m PROVE f[n] = Once(c, f[n - 1])
  <2>1. n \in 0..m /\ n # 0
    OBVIOUS
  <2> QED  BY <2>1, Zenon DEF Used
<1> DEFINE T == {n \in 0..m : f[n] \in Seq(Glyphs)}
<1>3. 0 \in T
  BY <1>1
<1>4. ASSUME NEW n \in 0..(m - 1), n \in T PROVE n + 1 \in T
  <2>1. PICK k \in 1..m : k = n + 1 /\ k - 1 = n
    OBVIOUS
  <2>2. f[k] = Once(c, f[n])
    BY <1>2, <2>1
  <2> QED  BY <1>4, <2>1, <2>2, OnceIs
<1>5. \A n \in 0..m : n \in T
  <2> HIDE DEF T
  <2> QED  BY <1>3, <1>4, Inductive
<1> QED  BY <1>1, <1>2, <1>5

(* Once the pair does not apply, nothing changes any more.                  *)
LEMMA UsedUp ==
  ASSUME NEW c \in Pairs, NEW s \in Seq(Glyphs), NEW m \in Nat, NEW f, Used(f, c, s, m),
         NEW k \in 0..m, ~Applies(c, f[k])
  PROVE  f[m] = f[k]
<1> DEFINE T == {n \in 0..(m - k) : f[k + n] = f[k]}
<1>1. 0 \in T
  BY k + 0 = k
<1>2. ASSUME NEW n \in 0..(m - k - 1), n \in T PROVE n + 1 \in T
  <2>1. PICK j \in 1..m : j = k + (n + 1) /\ j - 1 = k + n /\ n + 1 \in 0..(m - k)
    OBVIOUS
  <2>2. f[j] = Once(c, f[j - 1])
    BY UsedIs
  <2>3. f[j - 1] = f[k]
    BY <1>2, <2>1
  <2>4. f[j] = f[k]
    BY <2>2, <2>3 DEF Once
  <2> QED  BY <2>1, <2>4
<1>3. \A n \in 0..(m - k) : n \in T
  <2>1. m - k \in Nat
    OBVIOUS
  <2> HIDE DEF T
  <2> QED  BY <1>1, <1>2, <2>1, Inductive
<1>4. m - k \in 0..(m - k) /\ k + (m - k) = m
  OBVIOUS
<1> QED  BY <1>3, <1>4

(* A line is used up after no more uses than it has letters.                *)
LEMMA UsedEnds ==
  ASSUME NEW c \in Pairs, NEW s \in Seq(Glyphs), NEW f, Used(f, c, s, Len(s))
  PROVE  ~Applies(c, f[Len(s)])
<1>0. PICK m \in Nat : m = Len(s)
  OBVIOUS
<1> DEFINE T == {n \in 0..m : Applies(c, f[n]) => Len(f[n]) + n <= m}
<1>1. 0 \in T
  BY <1>0, UsedIs
<1>2. ASSUME NEW n \in 0..(m - 1), n \in T PROVE n + 1 \in T
  <2>1. PICK k \in 1..m : k = n + 1 /\ k - 1 = n
    OBVIOUS
  <2>2. /\ f[k] = Once(c, f[n])
        /\ n \in 0..m /\ f[n] \in Seq(Glyphs) /\ f[k] \in Seq(Glyphs)
    <3>1. k \in 0..m /\ n \in 0..m
      BY <2>1
    <3> QED  BY <1>0, <2>1, <3>1, UsedIs
  <2>3. CASE Applies(c, f[n])
    <3>1. Len(f[k]) < Len(f[n]) /\ Len(f[n]) + n <= m
      BY <1>2, <2>2, <2>3, OnceIs
    <3>2. Len(f[k]) \in Nat /\ Len(f[n]) \in Nat
      BY <2>2
    <3> QED  BY <2>1, <3>1, <3>2
  <2>4. CASE ~Applies(c, f[n])
    <3>1. f[k] = f[n]
      BY <2>2, <2>4 DEF Once
    <3> QED  BY <2>1, <2>4, <3>1
  <2> QED  BY <2>3, <2>4
<1>3. \A n \in 0..m : n \in T
  <2> HIDE DEF T
  <2> QED  BY <1>1, <1>2, Inductive
<1>4. m \in 0..m /\ f[m] \in Seq(Glyphs)
  BY <1>0, UsedIs
<1>5. SUFFICES ASSUME Applies(c, f[m]) PROVE FALSE
  BY <1>0
<1>6. Len(f[m]) + m <= m /\ Len(f[m]) \in Nat
  BY <1>3, <1>4, <1>5
<1>7. Len(Once(c, f[m])) < Len(f[m]) /\ Once(c, f[m]) \in Seq(Glyphs)
  BY <1>4, <1>5, OnceIs
<1>8. Len(Once(c, f[m])) \in Nat
  BY <1>7
<1> QED  BY <1>6, <1>7, <1>8

(* Exhausted is the last of such a function.                                *)
LEMMA ExhaustedIs ==
  ASSUME NEW c, NEW s \in Seq(Glyphs)
  PROVE  \E f : Used(f, c, s, Len(s)) /\ Exhausted(s, c) = f[Len(s)]
<1> DEFINE Good(f) == f = [n \in 0..Len(s) |->
                             IF n = 0 THEN s
                             ELSE IF Applies(c, f[n - 1]) THEN ReplaceFirst(c, f[n - 1])
                                  ELSE f[n - 1]]
           g == CHOOSE f : Good(f)
<1>0. Len(s) \in Nat
  OBVIOUS
<1>1. \E f : Good(f)
  <2>1. PICK f : Used(f, c, s, Len(s))
    BY <1>0, UsedExists
  <2>2. Good(f)
    BY <2>1, Zenon DEF Used, Once
  <2> QED  BY <2>2
<1>2. Good(g)
  BY <1>1, Zenon
<1>3. Exhausted(s, c) = g[Len(s)]
  BY Zenon DEF Exhausted
<1>4. Used(g, c, s, Len(s))
  BY <1>2, Zenon DEF Used, Once
<1> QED  BY <1>3, <1>4, Zenon

(* What a line becomes under one pair.                                      *)
LEMMA Exhaust ==
  ASSUME NEW c \in Pairs, NEW s \in Seq(Glyphs)
  PROVE  /\ Exhausted(s, c) \in Seq(Glyphs)
         /\ ~Applies(c, s) => Exhausted(s, c) = s
         /\ Applies(c, s) => Exhausted(s, c) = Exhausted(ReplaceFirst(c, s), c)
<1>1. PICK f : Used(f, c, s, Len(s)) /\ Exhausted(s, c) = f[Len(s)]
  BY ExhaustedIs
<1>2. PICK m \in Nat : m = Len(s)
  OBVIOUS
<1>3. f[0] = s /\ f[m] \in Seq(Glyphs) /\ \A n \in 1..m : f[n] = Once(c, f[n - 1])
  BY <1>1, <1>2, UsedIs
<1>4. ASSUME ~Applies(c, s) PROVE Exhausted(s, c) = s
  <2>1. 0 \in 0..m /\ ~Applies(c, f[0])
    BY <1>3, <1>4
  <2>2. f[m] = f[0]
    BY <1>1, <1>2, <2>1, UsedUp
  <2> QED  BY <1>1, <1>2, <1>3, <2>2
<1>5. ASSUME Applies(c, s) PROVE Exhausted(s, c) = Exhausted(ReplaceFirst(c, s), c)
  <2>1. PICK r \in Seq(Glyphs) : r = ReplaceFirst(c, s) /\ r = Once(c, s) /\ Len(r) < m
    BY <1>2, <1>5, OnceIs DEF Once
  <2>2. PICK g : Used(g, c, r, Len(r)) /\ Exhausted(r, c) = g[Len(r)]
    BY ExhaustedIs
  <2>3. PICK l \in Nat : l = Len(r) /\ l < m
    BY <2>1
  <2>4. g[0] = r /\ \A n \in 1..l : g[n] = Once(c, g[n - 1])
    BY <2>2, <2>3, UsedIs
  <2> DEFINE T == {n \in 0..l : f[n + 1] = g[n]}
  <2>5. 0 \in T
    <3>1. 0 + 1 = 1 /\ 1 \in 1..m /\ 1 - 1 = 0
      BY <2>3
    <3> QED  BY <1>3, <2>1, <2>4, <3>1
  <2>6. ASSUME NEW n \in 0..(l - 1), n \in T PROVE n + 1 \in T
    <3>1. PICK k \in 1..l : k = n + 1 /\ k - 1 = n
      BY <2>3
    <3>2. k + 1 \in 1..m /\ k + 1 - 1 = k
      BY <2>3, <3>1
    <3>3. f[k + 1] = Once(c, f[k]) /\ g[k] = Once(c, g[n])
      BY <1>3, <2>4, <3>1, <3>2
    <3>4. f[k] = g[n]
      BY <2>6, <3>1
    <3> QED  BY <3>1, <3>3, <3>4
  <2>7. \A n \in 0..l : n \in T
    <3> HIDE DEF T
    <3> QED  BY <2>5, <2>6, Inductive
  <2>8. f[l + 1] = g[l] /\ l + 1 \in 0..m
    BY <2>3, <2>7
  <2>9. ~Applies(c, g[l])
    BY <2>2, <2>3, UsedEnds
  <2>10. f[m] = f[l + 1]
    BY <1>1, <1>2, <2>8, <2>9, UsedUp
  <2> QED  BY <1>1, <1>2, <2>1, <2>2, <2>3, <2>8, <2>10
<1> QED  BY <1>1, <1>2, <1>3, <1>4, <1>5

(* The recursion of Stages defines something, and keeps lines lines.        *)
Staged(f, rules, s, m) ==
  f = [n \in 0..m |-> IF n = 0 THEN s ELSE Exhausted(f[n - 1], rules[n])]

LEMMA StagedExists ==
  ASSUME NEW n \in Nat, NEW rules, NEW s
  PROVE  \E f : Staged(f, rules, s, n)
<1> USE DEF Staged
<1> DEFINE T == {m \in Nat : \E f : Staged(f, rules, s, m)}
<1>1. 0 \in T
  <2> DEFINE g == [i \in 0..0 |-> s]
  <2>1. Staged(g, rules, s, 0)
    BY SMT
  <2> QED  BY <2>1
<1>2. ASSUME NEW m \in 0..(n - 1), m \in T PROVE m + 1 \in T
  <2>0. m \in Nat /\ m + 1 \in Nat
    BY SMT
  <2>1. PICK f : Staged(f, rules, s, m)
    BY <1>2
  <2> DEFINE After(h, i) == IF i = 0 THEN s ELSE Exhausted(h[i - 1], rules[i])
             g == [i \in 0..(m + 1) |-> After(f, i)]
  <2>2. ASSUME NEW i \in 0..m PROVE g[i] = f[i]
    <3>1. i \in 0..(m + 1)
      BY <2>0, SMT
    <3>2. f[i] = After(f, i)
      BY <2>1, Zenon
    <3> QED  BY <3>1, <3>2, Zenon
  <2>3. ASSUME NEW i \in 0..(m + 1) PROVE After(f, i) = After(g, i)
    <3>1. i # 0 => i - 1 \in 0..m
      BY <2>0, SMT
    <3> HIDE DEF g
    <3> QED  BY <2>2, <3>1, Zenon
  <2>4. g = [i \in 0..(m + 1) |-> After(g, i)]
    BY <2>3, Zenon
  <2>5. \E h : Staged(h, rules, s, m + 1)
    BY <2>4, Zenon
  <2> QED  BY <2>0, <2>5
<1>3. \A m \in 0..n : m \in T
  <2> HIDE DEF T
  <2> QED  BY <1>1, <1>2, Inductive
<1> QED  BY <1>3, SMT

(* What a line is after each of the rules.                                  *)
LEMMA StagesAre ==
  ASSUME NEW rules \in Seq(Pairs), NEW s \in Seq(Glyphs)
  PROVE  /\ Stages(rules, s)[0] = s /\ Len(rules) \in Nat
         /\ \A n \in 1..Len(rules) :
              Stages(rules, s)[n] = Exhausted(Stages(rules, s)[n - 1], rules[n])
         /\ \A n \in 0..Len(rules) : Stages(rules, s)[n] \in Seq(Glyphs)
<1> DEFINE Good(f) == f = [n \in 0..Len(rules) |->
                             IF n = 0 THEN s ELSE Exhausted(f[n - 1], rules[n])]
           g == CHOOSE f : Good(f)
<1>0. Len(rules) \in Nat
  OBVIOUS
<1>1. \E f : Good(f)
  <2>1. PICK f : Staged(f, rules, s, Len(rules))
    BY <1>0, StagedExists
  <2>2. Good(f)
    BY <2>1, Zenon DEF Staged
  <2> QED  BY <2>2
<1>2. Good(g)
  BY <1>1, Zenon
<1>3. PICK f : f = Stages(rules, s) /\ Staged(f, rules, s, Len(rules))
  <2>1. Stages(rules, s) = g
    BY Zenon DEF Stages
  <2>2. Staged(g, rules, s, Len(rules))
    BY <1>2, Zenon DEF Staged
  <2> QED  BY <2>1, <2>2, Zenon
<1>4. f[0] = s
  <2>1. 0 \in 0..Len(rules)
    BY <1>0
  <2> QED  BY <1>3, <2>1, Zenon DEF Staged
<1>5. ASSUME NEW n \in 1..Len(rules) PROVE f[n] = Exhausted(f[n - 1], rules[n])
  <2>1. n \in 0..Len(rules) /\ n # 0
    BY <1>0
  <2> QED  BY <1>3, <2>1, Zenon DEF Staged
<1> DEFINE T == {n \in 0..Len(rules) : f[n] \in Seq(Glyphs)}
<1>6. 0 \in T
  BY <1>0, <1>4
<1>7. ASSUME NEW n \in 0..(Len(rules) - 1), n \in T PROVE n + 1 \in T
  <2>1. PICK k \in 1..Len(rules) : k = n + 1 /\ k - 1 = n
    BY <1>0
  <2>2. f[k] = Exhausted(f[n], rules[k]) /\ rules[k] \in Pairs
    BY <1>5, <2>1
  <2>3. f[k] \in Seq(Glyphs) /\ k \in 0..Len(rules)
    BY <1>0, <1>7, <2>2, Exhaust
  <2> QED  BY <2>1, <2>3
<1>8. \A n \in 0..Len(rules) : n \in T
  <2> HIDE DEF T
  <2> QED  BY <1>0, <1>6, <1>7, Inductive
<1> QED  BY <1>0, <1>3, <1>4, <1>5, <1>8

-----------------------------------------------------------------------------
(***************************************************************************)
(* The lines stacktrace writes are the rows.                               *)
(***************************************************************************)
(* A name that fits is written with its line break.                         *)
LEMMA LineIs ==
  ASSUME NEW name \in Seq(Glyphs), Len(name) < buf_size
  PROVE  Line(name) = name \o <<Newline>>
<1>1. name \in Seq(Letter) /\ <<Newline>> \in Seq(Letter)
  <2>1. name \in Seq(Letter)
    BY SeqMonotonic DEF Letter
  <2>2. <<Newline>> \in Seq(Letter)
    BY DEF Letter
  <2> QED  BY <2>1, <2>2
<1>2. PICK l \in Seq(Letter) : l = name \o <<Newline>> /\ Len(l) = Len(name) + 1
  <2>1. PICK n \in Seq(Letter) : n = <<Newline>> /\ Len(n) = 1
    BY <1>1
  <2>2. Then(name, n) \in Seq(Letter) /\ Len(Then(name, n)) = Len(name) + Len(n)
    BY <1>1, <2>1, ThenLetters
  <2> QED  BY <2>1, <2>2, Zenon DEF Then
<1>3. Len(l) \in Nat /\ buf_size \in Nat /\ Len(l) <= buf_size
  BY <1>2, StackTraceAssumption
<1>4. Min({Len(l), buf_size}) = Len(l)
  <2>1. PICK m : m = Min({Len(l), buf_size})
    OBVIOUS
  <2>2. {Len(l), buf_size} \in SUBSET Nat /\ {Len(l), buf_size} # {}
    BY <1>3
  <2>3. m \in {Len(l), buf_size} /\ \A j \in {Len(l), buf_size} : m <= j
    BY <2>1, <2>2, MinIs
  <2>4. m = Len(l)
    BY <1>3, <2>3
  <2> QED  BY <2>1, <2>4
<1>5. SubSeq(l, 1, Len(l)) = l
  BY SubSeqFull
<1>6. Line(name) = SubSeq(l, 1, Min({Len(l), buf_size}))
  BY <1>2, Zenon DEF Line
<1> QED  BY <1>2, <1>4, <1>5, <1>6, Zenon

(* A line in front of others.                                               *)
LEMMA OneInFront ==
  ASSUME NEW r \in Seq(Glyphs), NEW rows \in RowSeq
  PROVE  /\ <<r>> \o rows \in RowSeq
         /\ AllOf(<<r>> \o rows) = Then(Then(r, <<Newline>>), AllOf(rows))
<1>1. PICK m \in Nat : m = Len(rows)
  BY RowsTo
<1>2. PICK q : q = <<r>> \o rows
  OBVIOUS
<1>3. /\ q \in RowSeq /\ Len(q) = m + 1 /\ q[1] = r
      /\ \A k \in 1..m : q[k + 1] = rows[k]
  <2>0. <<r>> \in Seq(Seq(Glyphs))
    OBVIOUS
  <2>1. PICK o \in Seq(Seq(Glyphs)) : o = <<r>> /\ Len(o) = 1 /\ o[1] = r
    BY <2>0
  <2>2. /\ Then(o, rows) \in Seq(Seq(Glyphs)) /\ Len(Then(o, rows)) = Len(o) + Len(rows)
        /\ \A i \in 1..Len(o) : Then(o, rows)[i] = o[i]
        /\ \A i \in 1..Len(rows) : Then(o, rows)[Len(o) + i] = rows[i]
    <3>1. rows \in Seq(Seq(Glyphs))
      BY DEF RowSeq
    <3>2. Then(o, rows) \in Seq(Seq(Glyphs)) /\ Len(Then(o, rows)) = Len(o) + Len(rows)
      BY <3>1, ThenLetters
    <3>3. \A i \in 1..Len(o) : Then(o, rows)[i] = o[i]
      BY <3>1, ThenLetters
    <3>4. \A i \in 1..Len(rows) : Then(o, rows)[Len(o) + i] = rows[i]
      BY <3>1, ThenLetters
    <3> QED  BY <3>2, <3>3, <3>4, Zenon
  <2>3. q = Then(o, rows)
    BY <1>2, <2>1, Zenon DEF Then
  <2>4. Len(q) = m + 1 /\ q[1] = r
    <3>1. 1 \in 1..Len(o) /\ Len(o) + Len(rows) = m + 1
      BY <1>1, <2>1
    <3> QED  BY <2>1, <2>2, <2>3, <3>1, Zenon
  <2>5. ASSUME NEW k \in 1..m PROVE q[k + 1] = rows[k]
    <3>1. q[Len(o) + k] = rows[k]
      BY <1>1, <2>2, <2>3
    <3>2. Len(o) + k = k + 1
      BY <2>1
    <3> QED  BY <3>1, <3>2, Zenon
  <2> QED  BY <2>2, <2>3, <2>4, <2>5 DEF RowSeq
<1>4. PICK t, e : /\ t = Then(r, <<Newline>>) /\ t \in Seq(Letter) /\ e = <<>> /\ e \in Seq(Letter)
                  /\ To(q, 1) = t /\ To(rows, 0) = e /\ Then(t, e) = t
  <2>1. 1 \in 1..Len(q) /\ 1 - 1 = 0
    BY <1>1, <1>3
  <2>2. Then(r, <<Newline>>) \in Seq(Letter)
    BY <1>3, <2>1, RowIs
  <2>3. To(q, 1) = Then(To(q, 1 - 1), Then(q[1], <<Newline>>)) /\ To(q, 0) = <<>> /\ To(rows, 0) = <<>>
    BY <1>3, <2>1, RowsTo
  <2>4. To(q, 1) = Then(<<>>, Then(r, <<Newline>>))
    BY <1>3, <2>1, <2>3, Zenon
  <2>5. PICK z \in Seq(Letter) : z = Then(r, <<Newline>>)
    BY <2>2
  <2>6. Then(z, <<>>) = z /\ Then(<<>>, z) = z /\ <<>> \in Seq(Letter)
    BY ThenEmpty
  <2> QED  BY <2>3, <2>4, <2>5, <2>6
<1> DEFINE T == {k \in 0..m : To(q, k + 1) = Then(t, To(rows, k))}
<1>5. 0 \in T
  BY <1>1, <1>4
<1>6. ASSUME NEW k \in 0..(m - 1), k \in T PROVE k + 1 \in T
  <2>1. PICK h \in 1..m : h = k + 1 /\ h - 1 = k
    BY <1>1
  <2>2. h + 1 \in 1..Len(q) /\ h + 1 - 1 = h /\ h \in 1..Len(rows) /\ k \in 0..Len(rows)
    BY <1>1, <1>3, <2>1
  <2>3. PICK a \in Seq(Letter), w \in Seq(Letter) :
          /\ a = To(rows, k) /\ w = Then(rows[h], <<Newline>>)
          /\ To(rows, h) = Then(a, w)
    <3>1. To(rows, k) \in Seq(Letter) /\ To(rows, h) = Then(To(rows, h - 1), Then(rows[h], <<Newline>>))
      BY <2>2, RowsTo
    <3>2. Then(rows[h], <<Newline>>) \in Seq(Letter)
      BY <2>2, RowIs
    <3> QED  BY <2>1, <3>1, <3>2
  <2>4. To(q, h + 1) = Then(To(q, h), w)
    <3>0. PICK j \in 1..Len(q) : j = h + 1 /\ j - 1 = h
      BY <2>2
    <3>1. To(q, j) = Then(To(q, j - 1), Then(q[j], <<Newline>>))
      BY <1>3, RowsTo
    <3>2. q[j] = rows[h]
      BY <1>3, <3>0
    <3> QED  BY <2>3, <3>0, <3>1, <3>2
  <2>5. To(q, h) = Then(t, a)
    BY <1>6, <2>1, <2>3
  <2>6. Then(Then(t, a), w) = Then(t, Then(a, w))
    BY <1>4, Three
  <2>7. To(q, h + 1) = Then(t, To(rows, h))
    BY <2>3, <2>4, <2>5, <2>6, Zenon
  <2> QED  BY <2>1, <2>7
<1>7. \A k \in 0..m : k \in T
  <2> HIDE DEF T
  <2> QED  BY <1>5, <1>6, Inductive
<1>8. To(q, m + 1) = Then(t, To(rows, m))
  BY <1>7
<1>9. AllOf(q) = To(q, m + 1) /\ AllOf(rows) = To(rows, m)
  BY <1>1, <1>3, RowsTo
<1> QED  BY <1>2, <1>3, <1>4, <1>8, <1>9, Zenon

(* The frames from the outermost to the last that is wanted.                *)
ShownOf(frames, n) == SubSeq(frames, n + 1, Len(frames))
RowsOf(frames, n)  == (IF Len(frames) = max_frames THEN <<<<Truncated>>>> ELSE <<>>)
                        \o Reverse(ShownOf(frames, n))
Fit(frames, n)     == \A k \in DOMAIN ShownOf(frames, n) : Len(ShownOf(frames, n)[k]) < buf_size
HeadOf(frames)     == IF Len(frames) = max_frames THEN <<Truncated, Newline>> ELSE <<>>

LEMMA LinesAre ==
  ASSUME NEW frames \in Seq(Symbols), NEW n \in Nat
  PROVE  /\ RowsOf(frames, n) \in RowSeq
         /\ Fit(frames, n) =>
              AllOf(RowsOf(frames, n)) = HeadOf(frames) \o Lines(frames, n)
<1>0. PICK l \in Nat : l = Len(frames)
  OBVIOUS
<1>1. PICK shown : shown = ShownOf(frames, n)
  OBVIOUS
<1>2. /\ shown \in RowSeq
      /\ 1..Len(shown) = 1..(l - n) /\ DOMAIN shown = 1..Len(shown) /\ Len(shown) \in Nat
      /\ \A k \in 1..Len(shown) : Len(shown) = l - n /\ shown[k] = frames[n + k]
  <2>1. frames \in RowSeq
    BY StackTraceAssumption, SeqMonotonic DEF RowSeq
  <2>2. CASE n < l
    <3>1. n + 1 \in 1..(Len(frames) + 1) /\ l \in (n + 1 - 1)..Len(frames)
          /\ l - (n + 1) + 1 = l - n
      BY <1>0, <2>2
    <3>2. PICK j : j = n + 1
      OBVIOUS
    <3>3. /\ SubSeq(frames, j, l) \in RowSeq /\ Len(SubSeq(frames, j, l)) = l - j + 1
          /\ \A i \in 1..(l - j + 1) : SubSeq(frames, j, l)[i] = frames[j + i - 1]
      BY <2>1, <3>1, <3>2, PartLetters DEF RowSeq
    <3>4. shown = SubSeq(frames, j, l)
      BY <1>0, <1>1, <3>2 DEF ShownOf
    <3>5. Len(shown) = l - n /\ \A i \in 1..Len(shown) : shown[i] = frames[n + i]
      <4>1. \A i \in 1..(l - n) : j + i - 1 = n + i
        BY <1>0, <3>2
      <4> QED  BY <3>1, <3>2, <3>3, <3>4, <4>1
    <3> QED  BY <3>3, <3>4, <3>5 DEF RowSeq
  <2>3. CASE ~(n < l)
    <3>1. shown = <<>>
      <4>1. n + 1 > l /\ n + 1 \in Int /\ l \in Int
        BY <1>0, <2>3
      <4>2. SubSeq(frames, n + 1, l) = <<>>
        BY <4>1, SubSeqEmpty
      <4> QED  BY <1>0, <1>1, <4>2 DEF ShownOf
    <3>2. 1..(l - n) = {}
      BY <1>0, <2>3
    <3> QED  BY <3>1, <3>2 DEF RowSeq
  <2> QED  BY <2>2, <2>3
<1>3. PICK rv : /\ rv = Reverse(shown) /\ rv \in RowSeq /\ DOMAIN rv = 1..(l - n)
                /\ \A k \in 1..(l - n) : rv[k] = frames[l + 1 - k]
  <2>1. PICK z : z = Len(shown) /\ z \in Nat
    BY <1>2
  <2>2. Reverse(shown) = [i \in 1..z |-> shown[(z - i) + 1]]
    BY <2>1 DEF Reverse
  <2>3. ASSUME NEW k \in 1..z
        PROVE  shown[(z - k) + 1] = frames[l + 1 - k] /\ shown[(z - k) + 1] \in Seq(Glyphs)
    <3>0. (z - k) + 1 \in 1..z
      BY <2>1
    <3>1. PICK i \in 1..z : i = (z - k) + 1
      BY <3>0
    <3>2. shown[i] = frames[n + i] /\ z = l - n
      BY <1>2, <2>1, <3>1
    <3>3. n + i = l + 1 - k
      BY <1>0, <3>1, <3>2, SMTT(40)
    <3>4. shown[i] \in Seq(Glyphs)
      BY <1>2, <2>1 DEF RowSeq
    <3>5. frames[n + i] = frames[l + 1 - k]
      BY <3>3, Zenon
    <3> QED  BY <3>1, <3>2, <3>4, <3>5
  <2>4. Reverse(shown) \in RowSeq
    BY <2>1, <2>2, <2>3 DEF RowSeq
  <2>5. 1..z = 1..(l - n)
    BY <1>2, <2>1
  <2>6. DOMAIN Reverse(shown) = 1..(l - n)
    BY <2>2, <2>5, Zenon
  <2>7. \A k \in 1..(l - n) : Reverse(shown)[k] = frames[l + 1 - k]
    BY <2>2, <2>3, <2>5, Zenon
  <2> QED  BY <2>4, <2>6, <2>7
<1>4. RowsOf(frames, n) = (IF l = max_frames THEN <<<<Truncated>>>> ELSE <<>>) \o rv
  BY <1>0, <1>1, <1>3, Zenon DEF RowsOf
<1>5. <<Truncated>> \in Seq(Glyphs)
  BY DEF Glyphs
<1>6. ASSUME Fit(frames, n) PROVE AllOf(rv) = Lines(frames, n)
  <2>1. ASSUME NEW k \in 1..(l - n)
        PROVE  Line(frames[l + 1 - k]) = rv[k] \o <<Newline>>
    <3>1. rv[k] = frames[l + 1 - k] /\ rv[k] \in Seq(Glyphs)
      BY <1>3 DEF RowSeq
    <3>2. PICK i : i = l + 1 - k - n
      OBVIOUS
    <3>3. i \in 1..(l - n) /\ n + i = l + 1 - k
      BY <1>0, <3>2
    <3>4. shown[i] = rv[k] /\ i \in DOMAIN shown
      BY <1>2, <3>1, <3>3
    <3>5. Len(rv[k]) < buf_size
      BY <1>1, <1>6, <3>4 DEF Fit
    <3> QED  BY <3>1, <3>5, LineIs
  <2>2. Whole(rv) = [k \in 1..(l - n) |-> Line(frames[l + 1 - k])]
    BY <1>3, <2>1, Zenon DEF Whole
  <2> QED  BY <1>0, <2>2, Zenon DEF AllOf, Text, Lines
<1>7. CASE l = max_frames
  <2>1. RowsOf(frames, n) = <<<<Truncated>>>> \o rv
    BY <1>4, <1>7
  <2>2. PICK r \in Seq(Glyphs) : r = <<Truncated>>
    BY <1>5
  <2>3. /\ <<r>> \o rv \in RowSeq
        /\ AllOf(<<r>> \o rv) = Then(Then(r, <<Newline>>), AllOf(rv))
    BY <1>3, OneInFront
  <2>4. Then(r, <<Newline>>) = <<Truncated, Newline>>
    <3>1. Truncated \in Letter /\ Newline \in Letter
      BY DEF Letter, Glyphs
    <3>a. <<Truncated>> \in Seq(Letter)
      BY <3>1
    <3>b. <<Newline>> \in Seq(Letter)
      BY <3>1
    <3>c. <<Truncated, Newline>> \in Seq(Letter)
      BY <3>1
    <3>d. PICK o \in Seq(Letter) : o = <<Truncated>> /\ Len(o) = 1 /\ o[1] = Truncated
      BY <3>a
    <3>e. PICK b \in Seq(Letter) : b = <<Newline>> /\ Len(b) = 1 /\ b[1] = Newline
      BY <3>b
    <3>2. PICK w \in Seq(Letter) : w = <<Truncated, Newline>>
                                   /\ Len(w) = 2 /\ w[1] = Truncated /\ w[2] = Newline
      BY <3>c
    <3>3. PICK z \in Seq(Letter) : z = Then(o, b)
      BY ThenType
    <3>4. /\ Len(z) = Len(o) + Len(b)
          /\ \A i \in 1..Len(o) : z[i] = o[i]
          /\ \A i \in 1..Len(b) : z[Len(o) + i] = b[i]
      <4>1. /\ Len(Then(o, b)) = Len(o) + Len(b)
            /\ \A i \in 1..Len(o) : Then(o, b)[i] = o[i]
            /\ \A i \in 1..Len(b) : Then(o, b)[Len(o) + i] = b[i]
        BY TwoLetters
      <4> QED  BY <3>3, <4>1, Zenon
    <3>5. Len(z) = 2 /\ z[1] = Truncated
      <4>1. 1 \in 1..Len(o) /\ Len(o) + Len(b) = 2
        BY <3>d, <3>e
      <4> QED  BY <3>d, <3>4, <4>1, Zenon
    <3>6. z[2] = Newline
      <4>1. 1 \in 1..Len(b) /\ Len(o) + 1 = 2
        BY <3>d, <3>e
      <4> QED  BY <3>e, <3>4, <4>1, Zenon
    <3>7. z = w
      <4>1. \A i \in 1..Len(w) : z[i] = w[i]
        BY <3>2, <3>5, <3>6
      <4> QED  BY <3>2, <3>3, <3>5, <4>1, SeqEqual
    <3> QED  BY <2>2, <3>d, <3>e, <3>2, <3>3, <3>7, Zenon
  <2>5. HeadOf(frames) = <<Truncated, Newline>>
    BY <1>0, <1>7 DEF HeadOf
  <2> QED  BY <1>6, <2>1, <2>2, <2>3, <2>4, <2>5, Zenon DEF Then
<1>8. CASE l # max_frames
  <2>1. RowsOf(frames, n) = <<>> \o rv /\ HeadOf(frames) = <<>>
    BY <1>0, <1>4, <1>8, Zenon DEF HeadOf
  <2>2. <<>> \o rv = rv
    BY <1>3, ConcatEmptySeq DEF RowSeq
  <2>3. Fit(frames, n) => <<>> \o AllOf(rv) = AllOf(rv)
    <3>1. AllOf(rv) \in Seq(Letter)
      <4>1. Len(rv) \in 0..Len(rv)
        BY <1>3, RowsTo
      <4> QED  BY <1>3, <4>1, RowsTo
    <3> QED  BY <3>1, ConcatEmptySeq
  <2> QED  BY <1>3, <1>6, <2>1, <2>2, <2>3
<1> QED  BY <1>7, <1>8

-----------------------------------------------------------------------------
(***************************************************************************)
(* The invariant: the text is that of as many lines as the trace has, and  *)
(* each of them will become under the rule what its frame's line does.     *)
(***************************************************************************)
Fits == \A k \in DOMAIN Shown : Len(Shown[k]) < buf_size

StackTypes ==
  /\ rule \in Nat /\ skip \in Nat
  /\ callstack \in Seq(Symbols)
  /\ s_user_stack_cleanups \in Seq(Pairs)

OnItsWay(rows) ==
  /\ Len(rows) = Len(Rows)
  /\ output = WithoutLastNewline(AllOf(rows))
  /\ \A k \in 1..Len(Rows) :
       IF rule \in 1..Len(Rules)
       THEN Exhausted(rows[k], Rules[rule]) = Stages(Rules, Rows[k])[rule]
       ELSE rows[k] = Cleaned(Rows[k])

StackInv ==
  /\ StackTypes
  /\ rule > 0 /\ Fits => \E rows \in RowSeq : OnItsWay(rows)

(* The rules are pairs, and a rule that applies is shorter.                 *)
LEMMA RulesAre ==
  ASSUME StackTypes
  PROVE  /\ Rules \in Seq(Pairs) /\ Len(Rules) \in Nat /\ DOMAIN Rules = 1..Len(Rules)
         /\ \A n \in 1..Len(Rules) : /\ Rules[n] \in Pairs
                                     /\ \A s : Applies(Rules[n], s) => Pair(Rules[n])
         /\ Rows = RowsOf(callstack, skip) /\ Rows \in RowSeq
         /\ \A k \in 1..Len(Rows) : Rows[k] \in Seq(Glyphs)
<1>1. Rules \in Seq(Pairs)
  BY StackTraceAssumption DEF Rules, StackTypes
<1>2. ASSUME NEW n \in 1..Len(Rules), NEW s
      PROVE  Rules[n] \in Pairs /\ (Applies(Rules[n], s) => Pair(Rules[n]))
  <2>1. PICK c \in Pairs : c = Rules[n]
    BY <1>1
  <2>2. c.find \in Seq(Glyphs) /\ c.by \in Seq(Glyphs)
    BY StackTraceAssumption
  <2> QED  BY <2>1, <2>2 DEF Applies, Pair
<1>3. Rows = RowsOf(callstack, skip)
  BY DEF Rows, RowsOf, Shown, ShownOf
<1>4. Rows \in RowSeq
  BY <1>3, LinesAre DEF StackTypes
<1> QED  BY <1>1, <1>2, <1>3, <1>4 DEF RowSeq

(* What the rows are, to cite of the next state.                            *)
LEMMA RowsAreRows == StackTypes => Rows \in RowSeq
BY RulesAre

(* The trace has just been written.                                         *)
LEMMA JustWritten ==
  ASSUME StackTypes, rule = 1, Fits,
         output = WithoutLastNewline(HeadOf(callstack) \o Lines(callstack, skip))
  PROVE  OnItsWay(Rows)
<1>1. Fit(callstack, skip)
  BY DEF Fits, Fit, Shown, ShownOf
<1>2. output = WithoutLastNewline(AllOf(Rows))
  <2>1. AllOf(RowsOf(callstack, skip)) = HeadOf(callstack) \o Lines(callstack, skip)
    BY <1>1, LinesAre DEF StackTypes
  <2>2. Rows = RowsOf(callstack, skip)
    BY RulesAre
  <2> QED  BY <2>1, <2>2
<1>3. ASSUME NEW k \in 1..Len(Rows)
      PROVE  IF rule \in 1..Len(Rules)
             THEN Exhausted(Rows[k], Rules[rule]) = Stages(Rules, Rows[k])[rule]
             ELSE Rows[k] = Cleaned(Rows[k])
  <2>1. PICK r \in Seq(Glyphs), R \in Seq(Pairs) : r = Rows[k] /\ R = Rules
    BY RulesAre
  <2>2. /\ Stages(R, r)[0] = r /\ Len(R) \in Nat
        /\ \A n \in 1..Len(R) : Stages(R, r)[n] = Exhausted(Stages(R, r)[n - 1], R[n])
    BY StagesAre
  <2>3. CASE 1 \in 1..Len(R)
    <3>1. Stages(R, r)[1] = Exhausted(Stages(R, r)[1 - 1], R[1]) /\ 1 - 1 = 0
      BY <2>2, <2>3
    <3>2. Stages(R, r)[1] = Exhausted(r, R[1])
      BY <2>2, <3>1
    <3> QED  BY <2>1, <2>3, <3>2
  <2>4. CASE 1 \notin 1..Len(R)
    <3>1. Len(R) = 0
      BY <2>2, <2>4
    <3> QED  BY <2>1, <2>2, <2>4, <3>1 DEF Cleaned
  <2> QED  BY <2>3, <2>4
<1> QED  BY <1>2, <1>3 DEF OnItsWay

(* A replacement does to one line what it does to the text.                 *)
LEMMA OneReplaced ==
  ASSUME StackTypes, NEW rows \in RowSeq, OnItsWay(rows), rule \in 1..Len(Rules),
         Applies(Rules[rule], output)
  PROVE  \E q \in RowSeq :
           /\ Len(q) = Len(Rows)
           /\ ReplaceFirst(Rules[rule], output) = WithoutLastNewline(AllOf(q))
           /\ \A k \in 1..Len(Rows) :
                Exhausted(q[k], Rules[rule]) = Stages(Rules, Rows[k])[rule]
<1>1. PICK c : c = Rules[rule] /\ c \in Pairs /\ Pair(c)
  BY RulesAre
<1>2. /\ Len(rows) = Len(Rows) /\ output = WithoutLastNewline(AllOf(rows))
      /\ \A k \in 1..Len(Rows) : Exhausted(rows[k], c) = Stages(Rules, Rows[k])[rule]
  BY <1>1 DEF OnItsWay
<1>3. /\ Applies(c, AllOf(rows))
      /\ WithoutLastNewline(ReplaceFirst(c, AllOf(rows))) = ReplaceFirst(c, output)
  BY <1>1, <1>2, ShownIs
<1>4. PICK k \in 1..Len(rows), r \in Seq(Glyphs) :
        /\ Applies(c, rows[k]) /\ r = ReplaceFirst(c, rows[k])
        /\ [rows EXCEPT ![k] = r] \in RowSeq
        /\ AllOf([rows EXCEPT ![k] = r]) = ReplaceFirst(c, AllOf(rows))
  BY <1>1, <1>3, RowReplaced
<1>5. PICK q \in RowSeq : q = [rows EXCEPT ![k] = r]
  BY <1>4
<1>6. /\ Len(q) = Len(rows) /\ q[k] = r
      /\ \A j \in 1..Len(rows) : j # k => q[j] = rows[j]
  BY <1>5, ExceptSeq DEF RowSeq
<1>7. Exhausted(r, c) = Exhausted(rows[k], c)
  <2>1. rows[k] \in Seq(Glyphs)
    BY RowIs
  <2> QED  BY <1>1, <1>4, <2>1, Exhaust
<1>8. ASSUME NEW j \in 1..Len(Rows)
      PROVE  Exhausted(q[j], c) = Stages(Rules, Rows[j])[rule]
  BY <1>2, <1>6, <1>7
<1>9. ReplaceFirst(c, output) = WithoutLastNewline(AllOf(q)) /\ Len(q) = Len(Rows)
  BY <1>2, <1>3, <1>4, <1>5, <1>6
<1> QED  BY <1>1, <1>8, <1>9

(* Where the rule does not apply any more, each line is done with it.       *)
LEMMA RuleDone ==
  ASSUME StackTypes, NEW rows \in RowSeq, OnItsWay(rows), rule \in 1..Len(Rules),
         ~Applies(Rules[rule], output), NEW k \in 1..Len(Rows)
  PROVE  IF rule + 1 \in 1..Len(Rules)
         THEN Exhausted(rows[k], Rules[rule + 1]) = Stages(Rules, Rows[k])[rule + 1]
         ELSE rows[k] = Cleaned(Rows[k])
<1>1. PICK c \in Pairs : c = Rules[rule]
  BY RulesAre
<1>2. /\ Len(rows) = Len(Rows) /\ output = WithoutLastNewline(AllOf(rows))
      /\ Exhausted(rows[k], c) = Stages(Rules, Rows[k])[rule]
  BY <1>1 DEF OnItsWay
<1>3. ~Applies(c, rows[k])
  <2>1. SUFFICES ASSUME Applies(c, rows[k]) PROVE FALSE
    OBVIOUS
  <2>2. Pair(c)
    BY <1>1, <2>1, RulesAre
  <2>3. ~Applies(c, AllOf(rows))
    BY <1>1, <1>2, <2>2, ShownIs
  <2> QED  BY <1>2, <2>1, <2>2, <2>3, RowsDone
<1>4. rows[k] \in Seq(Glyphs)
  BY <1>2, RowIs
<1>5. rows[k] = Stages(Rules, Rows[k])[rule]
  BY <1>2, <1>3, <1>4, Exhaust
<1>6. PICK r \in Seq(Glyphs), R \in Seq(Pairs) : r = Rows[k] /\ R = Rules
  BY RulesAre
<1>7. CASE rule + 1 \in 1..Len(R)
  <2>1. PICK n \in 1..Len(R) : n = rule + 1 /\ n - 1 = rule
    BY <1>6, <1>7 DEF StackTypes
  <2>2. Stages(R, r)[n] = Exhausted(Stages(R, r)[n - 1], R[n])
    BY StagesAre
  <2> QED  BY <1>5, <1>6, <1>7, <2>1, <2>2
<1>8. CASE rule + 1 \notin 1..Len(R)
  <2>1. rule = Len(R)
    BY <1>6, <1>8
  <2> QED  BY <1>5, <1>6, <1>8, <2>1 DEF Cleaned
<1> QED  BY <1>6, <1>7, <1>8

(* No trace yet.                                                            *)
LEMMA StackInit == NoTrace => StackInv
<1> SUFFICES ASSUME NoTrace PROVE StackInv
  OBVIOUS
<1>1. StackTypes /\ ~(rule > 0)
  BY DEF NoTrace, StackTypes
<1> QED  BY <1>1 DEF StackInv

(* Each step keeps the invariant.                                           *)
LEMMA StackStep == StackInv /\ [TraceNext]_trace => StackInv'
<1> SUFFICES ASSUME StackInv, [TraceNext]_trace PROVE StackInv'
  OBVIOUS
<1>1. CASE AddStackCleanup
  <2>1. PICK c \in Cleanups :
          s_user_stack_cleanups' = IF Longer(c) THEN Append(s_user_stack_cleanups, c)
                                   ELSE s_user_stack_cleanups
    BY <1>1 DEF AddStackCleanup
  <2>2. c \in Pairs
    BY DEF Pairs
  <2>3. s_user_stack_cleanups' \in Seq(Pairs)
    BY <2>1, <2>2 DEF StackInv, StackTypes
  <2>4. StackTypes' /\ ~(rule > 0)'
    BY <1>1, <2>3 DEF StackInv, StackTypes, AddStackCleanup
  <2> QED  BY <2>4 DEF StackInv
<1>2. CASE stacktrace
  <2>1. PICK frames \in BoundedSeq(Symbols, max_frames), n \in 0..max_frames :
          /\ callstack' = frames /\ skip' = n
          /\ output' = WithoutLastNewline(HeadOf(frames) \o Lines(frames, n))
    BY <1>2 DEF stacktrace, HeadOf
  <2>2. frames \in Seq(Symbols) /\ n \in Nat
    BY StackTraceAssumption, SMTT(40) DEF BoundedSeq, SeqOf
  <2>3. StackTypes' /\ (rule = 1)'
    BY <1>2, <2>1, <2>2 DEF StackInv, StackTypes, stacktrace
  <2>4. (output = WithoutLastNewline(HeadOf(callstack) \o Lines(callstack, skip)))'
    BY <2>1
  <2>5. Fits' => OnItsWay(Rows)'
    BY <2>3, <2>4, JustWritten, PTL
  <2>6. (Rows \in RowSeq)'
    BY <2>3, RowsAreRows, PTL
  <2> QED  BY <2>3, <2>5, <2>6 DEF StackInv
<1>3. CASE Replace
  <2>1. /\ rule \in 1..Len(Rules) /\ Applies(Rules[rule], output)
        /\ output' = ReplaceFirst(Rules[rule], output)
        /\ UNCHANGED <<s_user_stack_cleanups, callstack, skip, rule>>
    BY <1>3, RulesAre DEF Replace, Cleaning, StackInv
  <2>2. StackTypes'
    BY <2>1 DEF StackInv, StackTypes
  <2>3. Rules' = Rules /\ Rows' = Rows /\ Fits' = Fits
    BY <2>1 DEF Rules, Rows, Shown, Fits
  <2>4. ASSUME Fits' PROVE \E q \in RowSeq : OnItsWay(q)'
    <3>1. PICK rows \in RowSeq : OnItsWay(rows)
      BY <2>1, <2>3, <2>4 DEF StackInv, StackTypes
    <3>2. PICK q \in RowSeq :
            /\ Len(q) = Len(Rows)
            /\ ReplaceFirst(Rules[rule], output) = WithoutLastNewline(AllOf(q))
            /\ \A k \in 1..Len(Rows) :
                 Exhausted(q[k], Rules[rule]) = Stages(Rules, Rows[k])[rule]
      BY <2>1, <3>1, OneReplaced DEF StackInv
    <3>3. OnItsWay(q)'
      BY <2>1, <2>3, <3>2 DEF OnItsWay
    <3> QED  BY <3>3
  <2> QED  BY <2>2, <2>4 DEF StackInv
<1>4. CASE NextRule
  <2>1. /\ rule \in 1..Len(Rules) /\ ~Applies(Rules[rule], output)
        /\ rule' = rule + 1
        /\ UNCHANGED <<s_user_stack_cleanups, callstack, skip, output>>
    BY <1>4, RulesAre DEF NextRule, Cleaning, StackInv
  <2>2. StackTypes'
    BY <2>1 DEF StackInv, StackTypes
  <2>3. Rules' = Rules /\ Rows' = Rows /\ Fits' = Fits
    BY <2>1 DEF Rules, Rows, Shown, Fits
  <2>4. ASSUME Fits' PROVE \E q \in RowSeq : OnItsWay(q)'
    <3>1. PICK rows \in RowSeq : OnItsWay(rows)
      BY <2>1, <2>3, <2>4 DEF StackInv, StackTypes
    <3>2. \A k \in 1..Len(Rows) :
            IF rule + 1 \in 1..Len(Rules)
            THEN Exhausted(rows[k], Rules[rule + 1]) = Stages(Rules, Rows[k])[rule + 1]
            ELSE rows[k] = Cleaned(Rows[k])
      BY <2>1, <3>1, RuleDone DEF StackInv
    <3>3. \A k \in 1..Len(Rows) : Cleaned(Rows[k])' = Cleaned(Rows[k])
      BY <2>3 DEF Cleaned
    <3>4. OnItsWay(rows)'
      BY <2>1, <2>3, <3>1, <3>2, <3>3 DEF OnItsWay
    <3> QED  BY <3>4
  <2> QED  BY <2>2, <2>4 DEF StackInv
<1>5. CASE UNCHANGED trace
  <2>1. UNCHANGED <<s_user_stack_cleanups, callstack, skip, output, rule>>
    BY <1>5 DEF trace
  <2>2. Rules' = Rules /\ Rows' = Rows /\ Fits' = Fits /\ StackTypes' = StackTypes
    BY <2>1 DEF Rules, Rows, Shown, Fits, StackTypes
  <2>3. ASSUME NEW rows \in RowSeq PROVE OnItsWay(rows)' = OnItsWay(rows)
    BY <2>1, <2>2 DEF OnItsWay, Cleaned
  <2> QED  BY <2>1, <2>2, <2>3 DEF StackInv
<1> QED  BY <1>1, <1>2, <1>3, <1>4, <1>5 DEF TraceNext

(* When the rules are through, the lines are those of the frames.           *)
LEMMA StackImplies == StackInv => EachFrameCleaned
<1> SUFFICES ASSUME StackInv, rule > Len(Rules), Fits
             PROVE  output = WithoutLastNewline(
                      FlattenSeq([k \in DOMAIN Rows |-> Cleaned(Rows[k]) \o <<Newline>>]))
  BY DEF EachFrameCleaned, Fits
<1>1. Len(Rules) \in Nat /\ rule \in Nat /\ rule > 0 /\ ~(rule \in 1..Len(Rules)) /\ Rows \in RowSeq
  BY RulesAre DEF StackInv, StackTypes
<1>2. PICK rows \in RowSeq : OnItsWay(rows)
  BY <1>1 DEF StackInv
<1>3. /\ Len(rows) = Len(Rows) /\ output = WithoutLastNewline(AllOf(rows))
      /\ \A k \in 1..Len(Rows) : rows[k] = Cleaned(Rows[k])
  BY <1>1, <1>2 DEF OnItsWay
<1>4. DOMAIN rows = 1..Len(Rows) /\ DOMAIN Rows = 1..Len(Rows)
  BY <1>1, <1>3 DEF RowSeq
<1>5. Whole(rows) = [k \in DOMAIN Rows |-> Cleaned(Rows[k]) \o <<Newline>>]
  BY <1>3, <1>4, Zenon DEF Whole
<1> QED  BY <1>3, <1>5, Zenon DEF AllOf, Text

(* However the replacements cross the lines' boundaries in the text, the    *)
(* printed trace is its frames' lines, each cleaned on its own, in order.   *)
THEOREM EachFrameCleanedCorrect == TraceSpec => []EachFrameCleaned
<1>1. TraceSpec => []StackInv
  BY StackInit, StackStep, PTL DEF TraceSpec
<1> QED  BY <1>1, StackImplies, PTL

=============================================================================
