--------------------------- MODULE LogScopeProofs ---------------------------
(***************************************************************************)
(* Indentation counts scopes: that of stderr exactly, whatever is assigned *)
(* to g_stderr_verbosity, and that of a callback as long as no scope older *)
(* than it ends, for any number of threads, callbacks and scopes.          *)
(***************************************************************************)
EXTENDS LogScope, FiniteSetTheorems, TLAPS

Scope == [state : {"entering", "open", "off"}, verbosity : Levels,
          indent_stderr : BOOLEAN, seen : SUBSET Sinks]

ScopeTypeOK ==
  /\ s_stderr_indentation \in Nat
  /\ s_callbacks \subseteq Sinks /\ fresh \subseteq Sinks \ s_callbacks
  /\ indentation \in [Sinks -> Nat]
  /\ scopes \in [Threads -> Seq(Scope)]
  /\ entered \in 0..MaxScopes
  /\ \A t \in Threads : Len(scopes[t]) <= entered

(* stderr as one more output, and what a scope indented when it was opened. *)
Stderr          == CHOOSE o : o \notin Sinks
Indents(scope, o) ==
  /\ scope.state = "open"
  /\ IF o \in Sinks THEN o \in scope.seen /\ Wants(o, scope.verbosity)
     ELSE scope.indent_stderr
IndentedBy(o) ==
  {w \in Threads \X (1..MaxScopes) :
     w[2] <= Len(scopes[w[1]]) /\ Indents(scopes[w[1]][w[2]], o)}

(***************************************************************************)
(* The indentation of an output is the number of the scopes that indented  *)
(* it; a callback's may be less once a scope that is older has ended.  No  *)
(* scope indented a callback that was not yet added.                       *)
(***************************************************************************)
CountInv ==
  /\ \A o \in Sinks \cup {Stderr} : IsFiniteSet(IndentedBy(o))
  /\ s_stderr_indentation = Cardinality(IndentedBy(Stderr))
  /\ \A s \in fresh : IndentedBy(s) = {} /\ indentation[s] = 0
  /\ \A s \in s_callbacks :
       /\ indentation[s] <= Cardinality(IndentedBy(s))
       /\ s \notin older => indentation[s] = Cardinality(IndentedBy(s))

(* stderr is not a callback. *)
LEMMA StderrApart == Stderr \notin Sinks
BY NoSetContainsEverything DEF Stderr

(* A sequence that is not empty is what is before its last element, and that. *)
LEMMA FrontIs ==
  ASSUME NEW S, NEW s \in Seq(S), s # <<>>
  PROVE  /\ Len(s) \in Nat \ {0}
         /\ Front(s) \in Seq(S) /\ Len(Front(s)) = Len(s) - 1
         /\ \A n \in 1..(Len(s) - 1) : Front(s)[n] = s[n]
         /\ Last(s) = s[Len(s)] /\ Last(s) \in S
<1>1. Len(s) \in Nat \ {0} /\ Last(s) = s[Len(s)]
  BY DEF Last
<1>2. Front(s) = SubSeq(s, 1, Len(s) - 1)
  BY DEF Front
<1>3. s[Len(s)] \in S
  BY <1>1
<1>4. ASSUME NEW k \in Nat, k < Len(s)
      PROVE  /\ SubSeq(s, 1, k) \in Seq(S) /\ Len(SubSeq(s, 1, k)) = k
             /\ \A n \in 1..k : SubSeq(s, 1, k)[n] = s[n]
  BY <1>4
<1>5. Len(s) - 1 \in Nat /\ Len(s) - 1 < Len(s)
  BY <1>1
<1>6. /\ SubSeq(s, 1, Len(s) - 1) \in Seq(S) /\ Len(SubSeq(s, 1, Len(s) - 1)) = Len(s) - 1
      /\ \A n \in 1..(Len(s) - 1) : SubSeq(s, 1, Len(s) - 1)[n] = s[n]
  BY ONLY <1>4, <1>5
<1> QED  BY <1>1, <1>2, <1>3, <1>6

(* The innermost scope of a thread, which has a place among all. *)
LEMMA TopIs ==
  ASSUME ScopeTypeOK, NEW t \in Threads, scopes[t] # <<>>
  PROVE  /\ Len(scopes[t]) \in 1..MaxScopes
         /\ Last(scopes[t]) = scopes[t][Len(scopes[t])] /\ Last(scopes[t]) \in Scope
<1>1. scopes[t] \in Seq(Scope) /\ Len(scopes[t]) <= entered /\ entered \in 0..MaxScopes
  BY DEF ScopeTypeOK
<1>2. MaxScopes \in Nat
  BY ScopeAssumption
<1>3. /\ Len(scopes[t]) \in Nat \ {0}
      /\ Last(scopes[t]) = scopes[t][Len(scopes[t])] /\ Last(scopes[t]) \in Scope
  <2>1. scopes[t] \in Seq(Scope) /\ scopes[t] # <<>>
    BY <1>1
  <2> QED  BY ONLY <2>1, FrontIs
<1> QED  BY <1>1, <1>2, <1>3

-----------------------------------------------------------------------------
(* A scope that is entered indents nothing yet. *)
LEMMA EnterIs ==
  ASSUME ScopeTypeOK, NEW t \in Threads, Enter(t)
  PROVE  ScopeTypeOK' /\ \A o : IndentedBy(o)' = IndentedBy(o)
<1>1. PICK v \in Levels, st \in {"entering", "off"} :
        scopes' = [scopes EXCEPT ![t] = Append(@,
                     [state |-> st, verbosity |-> v, indent_stderr |-> FALSE, seen |-> {}])]
  BY DEF Enter
<1>2. PICK x : x = [state |-> st, verbosity |-> v, indent_stderr |-> FALSE, seen |-> {}]
  OBVIOUS
<1>3. x \in Scope /\ x.state # "open"
  BY <1>2 DEF Scope
<1>4. /\ scopes' = [scopes EXCEPT ![t] = Append(scopes[t], x)]
      /\ scopes[t] \in Seq(Scope) /\ Len(scopes[t]) \in Nat
  <2>1. scopes' = [scopes EXCEPT ![t] = Append(scopes[t], x)]
    BY ONLY <1>1, <1>2
  <2>2. scopes[t] \in Seq(Scope)
    BY DEF ScopeTypeOK
  <2> QED  BY <2>1, <2>2
<1>5. /\ scopes'[t] \in Seq(Scope) /\ Len(scopes'[t]) = Len(scopes[t]) + 1
      /\ \A k \in 1..Len(scopes[t]) : scopes'[t][k] = scopes[t][k]
      /\ scopes'[t][Len(scopes[t]) + 1] = x
      /\ \A u \in Threads : u # t => scopes'[u] = scopes[u]
  BY <1>3, <1>4 DEF ScopeTypeOK
<1>6. entered' = entered + 1 /\ entered < MaxScopes /\ MaxScopes \in Nat
      /\ UNCHANGED <<s_stderr_indentation, s_callbacks, fresh, indentation>>
  BY ScopeAssumption DEF Enter
<1>7. ScopeTypeOK'
  <2>1. scopes' \in [Threads -> Seq(Scope)]
    BY <1>4, <1>5 DEF ScopeTypeOK
  <2>2. \A u \in Threads : Len(scopes'[u]) <= entered'
    BY <1>5, <1>6, SMTT(40) DEF ScopeTypeOK
  <2> QED  BY <1>6, <2>1, <2>2 DEF ScopeTypeOK
<1>8. ASSUME NEW o, NEW u \in Threads, NEW k \in 1..MaxScopes
      PROVE  (k <= Len(scopes'[u]) /\ Indents(scopes'[u][k], o))
               <=> (k <= Len(scopes[u]) /\ Indents(scopes[u][k], o))
  <2>1. CASE u # t
    BY <1>5, <2>1
  <2>2. CASE u = t /\ k <= Len(scopes[t])
    BY <1>4, <1>5, <2>2
  <2>3. CASE u = t /\ ~(k <= Len(scopes[t]))
    <3>1. k <= Len(scopes'[t]) => scopes'[t][k] = x
      BY <1>4, <1>5, <2>3
    <3> QED  BY <1>3, <2>3, <3>1 DEF Indents
  <2> QED  BY <2>1, <2>2, <2>3
<1> QED  BY <1>7, <1>8 DEF IndentedBy

(* What a scope that opens indents is what it adds, and it was not there.   *)
OpensFor(t, scope, o) ==
  /\ <<t, Len(scopes[t])>> \notin IndentedBy(o)
  /\ IndentedBy(o)' = IF Indents(scope, o) THEN IndentedBy(o) \cup {<<t, Len(scopes[t])>>}
                      ELSE IndentedBy(o)

(* The scope that Open leaves. *)
Opened(t) ==
  [state |-> "open", verbosity |-> Last(scopes[t]).verbosity,
   indent_stderr |-> Last(scopes[t]).verbosity <= g_stderr_verbosity,
   seen |-> s_callbacks]

(* A scope opens. *)
LEMMA OpenIs ==
  ASSUME ScopeTypeOK, NEW t \in Threads, Open(t)
  PROVE  /\ \A o : OpensFor(t, Opened(t), o)
         /\ scopes' \in [Threads -> Seq(Scope)]
         /\ \A u \in Threads : Len(scopes'[u]) = Len(scopes[u])
<1>1. /\ scopes[t] # <<>> /\ Last(scopes[t]).state = "entering"
      /\ scopes[t] \in Seq(Scope) /\ Len(scopes[t]) \in 1..MaxScopes
      /\ Last(scopes[t]) = scopes[t][Len(scopes[t])] /\ Last(scopes[t]) \in Scope
  BY TopIs DEF Open, Entering, ScopeTypeOK
<1>2. PICK x : x = Opened(t)
  OBVIOUS
<1>3. x \in Scope
  <2>1. Last(scopes[t]).verbosity \in Levels /\ s_callbacks \in SUBSET Sinks
    BY <1>1 DEF Scope, ScopeTypeOK
  <2> QED  BY <1>2, <2>1 DEF Opened, Scope
<1>4. scopes' = [scopes EXCEPT ![t][Len(scopes[t])] = x]
  BY <1>2 DEF Open, Opened
<1>5. /\ scopes'[t] = [scopes[t] EXCEPT ![Len(scopes[t])] = x]
      /\ \A u \in Threads : u # t => scopes'[u] = scopes[u]
      /\ scopes' \in [Threads -> {scopes'[u] : u \in Threads}]
  BY <1>4 DEF ScopeTypeOK
<1>6. /\ scopes'[t] \in Seq(Scope) /\ Len(scopes'[t]) = Len(scopes[t])
      /\ scopes'[t][Len(scopes[t])] = x
      /\ \A k \in 1..Len(scopes[t]) : k # Len(scopes[t]) => scopes'[t][k] = scopes[t][k]
  BY <1>1, <1>3, <1>5
<1>7. scopes' \in [Threads -> Seq(Scope)] /\ \A u \in Threads : Len(scopes'[u]) = Len(scopes[u])
  BY <1>5, <1>6 DEF ScopeTypeOK
<1>8. ASSUME NEW o
      PROVE  OpensFor(t, x, o)
  <2>1. <<t, Len(scopes[t])>> \notin IndentedBy(o)
    BY <1>1 DEF IndentedBy, Indents
  <2>2. ASSUME NEW u \in Threads, NEW k \in 1..MaxScopes, u # t \/ k # Len(scopes[t])
        PROVE  (k <= Len(scopes'[u]) /\ Indents(scopes'[u][k], o))
                 <=> (k <= Len(scopes[u]) /\ Indents(scopes[u][k], o))
    <3>1. CASE u # t
      BY <1>5, <3>1
    <3>2. CASE u = t
      <4>1. k <= Len(scopes[t]) => k \in 1..Len(scopes[t])
        BY <1>1
      <4> QED  BY <1>6, <2>2, <3>2, <4>1
    <3> QED  BY <3>1, <3>2
  <2>3. Len(scopes[t]) <= Len(scopes'[t])
    BY <1>1, <1>6
  <2>4. CASE Indents(x, o)
    <3>1. ASSUME NEW u \in Threads, NEW k \in 1..MaxScopes
          PROVE  <<u, k>> \in IndentedBy(o)' <=>
                   <<u, k>> \in IndentedBy(o) \/ <<u, k>> = <<t, Len(scopes[t])>>
      BY <1>1, <1>6, <2>2, <2>3, <2>4 DEF IndentedBy
    <3>2. <<t, Len(scopes[t])>> \in Threads \X (1..MaxScopes)
      BY <1>1
    <3>3. IndentedBy(o) \subseteq Threads \X (1..MaxScopes)
          /\ IndentedBy(o)' \subseteq Threads \X (1..MaxScopes)
      BY DEF IndentedBy
    <3>4. IndentedBy(o)' = IndentedBy(o) \cup {<<t, Len(scopes[t])>>}
      BY <3>1, <3>2, <3>3
    <3> QED  BY <2>1, <2>4, <3>4 DEF OpensFor
  <2>5. CASE ~Indents(x, o)
    BY <1>1, <1>6, <2>1, <2>2, <2>5 DEF IndentedBy, OpensFor
  <2> QED  BY <2>1, <2>4, <2>5 DEF OpensFor
<1> QED  BY <1>2, <1>7, <1>8

(* What a scope that ends indented is without it. *)
LeavesFor(t, o) ==
  /\ <<t, Len(scopes[t])>> \in IndentedBy(o) <=> Indents(Last(scopes[t]), o)
  /\ IndentedBy(o)' = IndentedBy(o) \ {<<t, Len(scopes[t])>>}

(* A scope ends. *)
LEMMA LeaveIs ==
  ASSUME ScopeTypeOK, NEW t \in Threads, Leave(t)
  PROVE  /\ \A o : LeavesFor(t, o)
         /\ scopes' \in [Threads -> Seq(Scope)]
         /\ \A u \in Threads : Len(scopes'[u]) <= Len(scopes[u])
<1>1. /\ scopes[t] # <<>>
      /\ scopes[t] \in Seq(Scope) /\ Len(scopes[t]) \in 1..MaxScopes
      /\ Last(scopes[t]) = scopes[t][Len(scopes[t])]
  BY TopIs DEF Leave, ScopeTypeOK
<1>2. scopes' = [scopes EXCEPT ![t] = Front(scopes[t])]
  BY DEF Leave
<1>3. /\ scopes'[t] \in Seq(Scope) /\ Len(scopes'[t]) = Len(scopes[t]) - 1
      /\ \A k \in 1..(Len(scopes[t]) - 1) : scopes'[t][k] = scopes[t][k]
      /\ \A u \in Threads : u # t => scopes'[u] = scopes[u]
  <2>1. scopes'[t] = Front(scopes[t]) /\ \A u \in Threads : u # t => scopes'[u] = scopes[u]
    BY <1>2 DEF ScopeTypeOK
  <2> QED  BY <1>1, <2>1, FrontIs
<1>4. scopes' \in [Threads -> Seq(Scope)]
  BY <1>2, <1>3 DEF ScopeTypeOK
<1>5. \A u \in Threads : Len(scopes'[u]) <= Len(scopes[u])
  <2>1. \A u \in Threads : Len(scopes[u]) \in Nat
    BY DEF ScopeTypeOK
  <2> QED  BY <1>3, <2>1
<1>6. ASSUME NEW o PROVE LeavesFor(t, o)
  <2>1. <<t, Len(scopes[t])>> \in IndentedBy(o) <=> Indents(Last(scopes[t]), o)
    BY <1>1 DEF IndentedBy
  <2>2. ASSUME NEW u \in Threads, NEW k \in 1..MaxScopes, u # t \/ k # Len(scopes[t])
        PROVE  (k <= Len(scopes'[u]) /\ Indents(scopes'[u][k], o))
                 <=> (k <= Len(scopes[u]) /\ Indents(scopes[u][k], o))
    <3>1. CASE u # t
      BY <1>3, <3>1
    <3>2. CASE u = t
      <4>1. /\ k <= Len(scopes[t]) <=> k <= Len(scopes'[t])
            /\ k <= Len(scopes'[t]) => k \in 1..(Len(scopes[t]) - 1)
        BY <1>1, <1>3, <2>2, <3>2
      <4> QED  BY <1>3, <3>2, <4>1
    <3> QED  BY <3>1, <3>2
  <2>3. ~(Len(scopes[t]) <= Len(scopes'[t]))
    BY <1>1, <1>3
  <2>4. IndentedBy(o)' = IndentedBy(o) \ {<<t, Len(scopes[t])>>}
    BY <1>1, <2>2, <2>3 DEF IndentedBy
  <2> QED  BY <2>1, <2>4 DEF LeavesFor
<1> QED  BY <1>4, <1>5, <1>6

-----------------------------------------------------------------------------
(* One scope more, and one less. *)
LEMMA OpenCounts ==
  ASSUME NEW t, NEW scope, NEW o, IsFiniteSet(IndentedBy(o)), OpensFor(t, scope, o)
  PROVE  /\ IsFiniteSet(IndentedBy(o)')
         /\ Cardinality(IndentedBy(o)) \in Nat
         /\ Indents(scope, o) =>
              Cardinality(IndentedBy(o)') = Cardinality(IndentedBy(o)) + 1
         /\ ~Indents(scope, o) => IndentedBy(o)' = IndentedBy(o)
<1>1. CASE Indents(scope, o)
  <2>1. /\ IndentedBy(o)' = IndentedBy(o) \cup {<<t, Len(scopes[t])>>}
        /\ <<t, Len(scopes[t])>> \notin IndentedBy(o)
    BY <1>1 DEF OpensFor
  <2> QED  BY <1>1, <2>1, FS_AddElement, FS_CardinalityType
<1>2. CASE ~Indents(scope, o)
  <2>1. IndentedBy(o)' = IndentedBy(o)
    BY <1>2 DEF OpensFor
  <2> QED  BY <1>2, <2>1, FS_CardinalityType
<1> QED  BY <1>1, <1>2

(* The other one. *)
LEMMA LeaveCounts ==
  ASSUME NEW t, NEW o, IsFiniteSet(IndentedBy(o)), LeavesFor(t, o)
  PROVE  /\ IsFiniteSet(IndentedBy(o)')
         /\ Cardinality(IndentedBy(o)) \in Nat
         /\ Indents(Last(scopes[t]), o) =>
              /\ Cardinality(IndentedBy(o)) >= 1
              /\ Cardinality(IndentedBy(o)') = Cardinality(IndentedBy(o)) - 1
         /\ ~Indents(Last(scopes[t]), o) => IndentedBy(o)' = IndentedBy(o)
<1>1. IndentedBy(o)' = IndentedBy(o) \ {<<t, Len(scopes[t])>>}
  BY DEF LeavesFor
<1>2. CASE Indents(Last(scopes[t]), o)
  <2>1. <<t, Len(scopes[t])>> \in IndentedBy(o)
    BY <1>2 DEF LeavesFor
  <2>2. /\ IsFiniteSet(IndentedBy(o)')
        /\ Cardinality(IndentedBy(o)') = Cardinality(IndentedBy(o)) - 1
    BY <1>1, <2>1, FS_RemoveElement
  <2>3. Cardinality(IndentedBy(o)) \in Nat /\ Cardinality(IndentedBy(o)') \in Nat
    BY <2>2, FS_CardinalityType
  <2> QED  BY <1>2, <2>2, <2>3
<1>3. CASE ~Indents(Last(scopes[t]), o)
  <2>1. <<t, Len(scopes[t])>> \notin IndentedBy(o)
    BY <1>3 DEF LeavesFor
  <2>2. IndentedBy(o)' = IndentedBy(o)
    BY <1>1, <2>1
  <2> QED  BY <1>3, <2>2, FS_CardinalityType
<1> QED  BY <1>2, <1>3

(* Each action keeps the count: VLOG_SCOPE_F and the first half of Init, *)
LEMMA EnterStep ==
  ASSUME ScopeTypeOK, CountInv, NEW t \in Threads, Enter(t)
  PROVE  ScopeTypeOK' /\ CountInv'
<1>1. ScopeTypeOK' /\ \A o : IndentedBy(o)' = IndentedBy(o)
  BY EnterIs
<1>2. UNCHANGED <<s_stderr_indentation, s_callbacks, fresh, indentation, older>>
  BY DEF Enter
<1>3. Stderr' = Stderr
  BY DEF Stderr
<1> QED  BY <1>1, <1>2, <1>3 DEF CountInv

(* the rest of Init, for stderr and for each callback, *)
LEMMA OpenStep ==
  ASSUME ScopeTypeOK, CountInv, NEW t \in Threads, Open(t)
  PROVE  ScopeTypeOK' /\ CountInv'
<1> DEFINE v == Last(scopes[t]).verbosity
<1>1. /\ \A o : OpensFor(t, Opened(t), o)
      /\ scopes' \in [Threads -> Seq(Scope)]
      /\ \A u \in Threads : Len(scopes'[u]) = Len(scopes[u])
  BY OpenIs
<1>2. /\ UNCHANGED <<s_callbacks, fresh, entered, older>>
      /\ s_stderr_indentation' = s_stderr_indentation + (IF v <= g_stderr_verbosity THEN 1 ELSE 0)
      /\ indentation' = [s \in Sinks |->
            IF s \in s_callbacks /\ Wants(s, v) THEN indentation[s] + 1 ELSE indentation[s]]
  BY DEF Open
<1>3. /\ Indents(Opened(t), Stderr) <=> v <= g_stderr_verbosity
      /\ \A s \in Sinks : Indents(Opened(t), s) <=> s \in s_callbacks /\ Wants(s, v)
  BY StderrApart DEF Indents, Opened
<1>4. ScopeTypeOK'
  <2>1. indentation' \in [Sinks -> Nat]
    BY <1>2 DEF ScopeTypeOK
  <2>2. s_stderr_indentation' \in Nat
    BY <1>2 DEF ScopeTypeOK
  <2> QED  BY <1>1, <1>2, <2>1, <2>2 DEF ScopeTypeOK
<1>5. ASSUME NEW o \in Sinks \cup {Stderr}
      PROVE  /\ IsFiniteSet(IndentedBy(o)')
             /\ Cardinality(IndentedBy(o)) \in Nat
             /\ Indents(Opened(t), o) =>
                  Cardinality(IndentedBy(o)') = Cardinality(IndentedBy(o)) + 1
             /\ ~Indents(Opened(t), o) => IndentedBy(o)' = IndentedBy(o)
  BY <1>1, OpenCounts DEF CountInv
<1>6. s_stderr_indentation' = Cardinality(IndentedBy(Stderr)')
  BY <1>2, <1>3, <1>5 DEF CountInv
<1>7. ASSUME NEW s \in fresh PROVE IndentedBy(s)' = {} /\ indentation'[s] = 0
  <2>1. s \in Sinks /\ s \notin s_callbacks
    BY DEF ScopeTypeOK
  <2> QED  BY <1>2, <1>3, <1>5, <2>1 DEF CountInv
<1>8. ASSUME NEW s \in s_callbacks
      PROVE  /\ indentation'[s] <= Cardinality(IndentedBy(s)')
             /\ s \notin older => indentation'[s] = Cardinality(IndentedBy(s)')
  <2>1. s \in Sinks /\ indentation[s] \in Nat
    BY DEF ScopeTypeOK
  <2> QED  BY <1>2, <1>3, <1>5, <2>1 DEF CountInv
<1>9. Stderr' = Stderr
  BY DEF Stderr
<1> QED  BY <1>2, <1>4, <1>5, <1>6, <1>7, <1>8, <1>9 DEF CountInv

(* and the destructor, which may find nothing left to take. *)
LEMMA LeaveStep ==
  ASSUME ScopeTypeOK, CountInv, NEW t \in Threads, Leave(t)
  PROVE  ScopeTypeOK' /\ CountInv'
<1> DEFINE scope == Last(scopes[t])
<1>1. /\ \A o : LeavesFor(t, o)
      /\ scopes' \in [Threads -> Seq(Scope)]
      /\ \A u \in Threads : Len(scopes'[u]) <= Len(scopes[u])
  BY LeaveIs
<1>2. /\ UNCHANGED <<s_callbacks, fresh, entered>>
      /\ scope.state = "open" =>
           /\ s_stderr_indentation' = StderrAfter(scope)
           /\ indentation' = [s \in Sinks |-> SinkAfter(s, scope)]
           /\ older' = older \cup (s_callbacks \ scope.seen)
      /\ scope.state # "open" => UNCHANGED <<s_stderr_indentation, indentation, older>>
  BY DEF Leave
<1>3. ASSUME NEW o \in Sinks \cup {Stderr}
      PROVE  /\ IsFiniteSet(IndentedBy(o)')
             /\ Cardinality(IndentedBy(o)) \in Nat
             /\ Indents(scope, o) =>
                  /\ Cardinality(IndentedBy(o)) >= 1
                  /\ Cardinality(IndentedBy(o)') = Cardinality(IndentedBy(o)) - 1
             /\ ~Indents(scope, o) => IndentedBy(o)' = IndentedBy(o)
  BY <1>1, LeaveCounts DEF CountInv
<1> HIDE DEF scope
<1>4. s_stderr_indentation' = Cardinality(IndentedBy(Stderr)') /\ s_stderr_indentation' \in Nat
  <2>1. s_stderr_indentation \in Nat /\ s_stderr_indentation = Cardinality(IndentedBy(Stderr))
    BY DEF ScopeTypeOK, CountInv
  <2>2. Indents(scope, Stderr) <=> scope.state = "open" /\ scope.indent_stderr
    BY StderrApart DEF Indents
  <2>3. CASE Indents(scope, Stderr)
    BY <1>2, <1>3, <2>1, <2>2, <2>3 DEF StderrAfter
  <2>4. CASE ~Indents(scope, Stderr)
    BY <1>2, <1>3, <2>1, <2>2, <2>4 DEF StderrAfter
  <2> QED  BY <2>3, <2>4
<1>5. ASSUME NEW s \in Sinks
      PROVE  /\ indentation'[s] \in Nat
             /\ s \notin s_callbacks => indentation'[s] = indentation[s]
             /\ indentation'[s] <= indentation[s]
             /\ Indents(scope, s) /\ s \in s_callbacks /\ indentation[s] > 0 =>
                  indentation'[s] = indentation[s] - 1
             /\ ~Indents(scope, s) /\ s \in s_callbacks /\ s \notin older' =>
                  indentation'[s] = indentation[s]
  <2>1. indentation[s] \in Nat
    BY DEF ScopeTypeOK
  <2>2. Indents(scope, s) <=> scope.state = "open" /\ s \in scope.seen /\ Wants(s, scope.verbosity)
    BY DEF Indents
  <2>3. CASE scope.state = "open"
    <3>1. indentation'[s] = SinkAfter(s, scope) /\ older' = older \cup (s_callbacks \ scope.seen)
      BY <1>2, <2>3
    <3> QED  BY <2>1, <2>2, <2>3, <3>1 DEF SinkAfter
  <2>4. CASE scope.state # "open"
    BY <1>2, <2>1, <2>2, <2>4
  <2> QED  BY <2>3, <2>4
<1>6. ScopeTypeOK'
  <2>1. indentation' \in [Sinks -> Nat]
    <3>1. indentation' \in [Sinks -> {indentation'[s] : s \in Sinks}]
      BY <1>2 DEF ScopeTypeOK
    <3> QED  BY <1>5, <3>1
  <2>2. \A u \in Threads : Len(scopes'[u]) <= entered
    <3>1. \A u \in Threads : Len(scopes[u]) \in Nat /\ Len(scopes'[u]) \in Nat
                              /\ Len(scopes[u]) <= entered /\ entered \in 0..MaxScopes
      BY <1>1 DEF ScopeTypeOK
    <3> QED  BY <1>1, <3>1
  <2> QED  BY <1>1, <1>2, <1>4, <2>1, <2>2 DEF ScopeTypeOK
<1>7. ASSUME NEW s \in fresh PROVE IndentedBy(s)' = {} /\ indentation'[s] = 0
  <2>1. s \in Sinks /\ s \notin s_callbacks
    BY DEF ScopeTypeOK
  <2>2. IndentedBy(s) = {} /\ IndentedBy(s)' = IndentedBy(s) \ {<<t, Len(scopes[t])>>}
    BY <1>1 DEF CountInv, LeavesFor
  <2> QED  BY <1>5, <2>1, <2>2 DEF CountInv
<1>8. ASSUME NEW s \in s_callbacks
      PROVE  /\ indentation'[s] <= Cardinality(IndentedBy(s)')
             /\ s \notin older' => indentation'[s] = Cardinality(IndentedBy(s)')
  <2>1. s \in Sinks /\ indentation[s] \in Nat
    BY DEF ScopeTypeOK
  <2>2. s \notin older' => s \notin older
    BY <1>2
  <2>3. /\ indentation[s] <= Cardinality(IndentedBy(s))
        /\ s \notin older => indentation[s] = Cardinality(IndentedBy(s))
    BY DEF CountInv
  <2>4. CASE Indents(scope, s)
    BY <1>3, <1>5, <2>1, <2>2, <2>3, <2>4
  <2>5. CASE ~Indents(scope, s)
    BY <1>3, <1>5, <2>1, <2>2, <2>3, <2>5
  <2> QED  BY <2>4, <2>5
<1>9. Stderr' = Stderr
  BY DEF Stderr
<1> QED  BY <1>2, <1>3, <1>4, <1>6, <1>7, <1>8, <1>9 DEF CountInv

(* The table of callbacks and g_stderr_verbosity change. *)
LEMMA TableStep ==
  ASSUME ScopeTypeOK, CountInv,
         \/ \E s \in Sinks : AddCallback(s) \/ RemoveCallback(s)
         \/ SetStderrVerbosity \/ UNCHANGED svars
  PROVE  ScopeTypeOK' /\ CountInv'
<1>1. UNCHANGED <<s_stderr_indentation, indentation, scopes, entered, older>>
  BY DEF AddCallback, RemoveCallback, SetStderrVerbosity, svars
<1>2. /\ \A o : IndentedBy(o)' = IndentedBy(o)
      /\ Stderr' = Stderr
  BY <1>1 DEF IndentedBy, Stderr
<1>3. /\ s_callbacks' \subseteq Sinks /\ fresh' \subseteq Sinks \ s_callbacks'
      /\ fresh' \subseteq fresh /\ s_callbacks' \subseteq s_callbacks \cup fresh
  BY DEF AddCallback, RemoveCallback, SetStderrVerbosity, svars, ScopeTypeOK
<1>4. ScopeTypeOK'
  BY <1>1, <1>3 DEF ScopeTypeOK
<1>5. ASSUME NEW s \in s_callbacks'
      PROVE  /\ indentation[s] <= Cardinality(IndentedBy(s))
             /\ s \notin older => indentation[s] = Cardinality(IndentedBy(s))
  <2>1. CASE s \in s_callbacks
    BY <2>1 DEF CountInv
  <2>2. CASE s \in fresh
    BY <2>2, FS_EmptySet DEF CountInv
  <2> QED  BY <1>3, <2>1, <2>2
<1> QED  BY <1>1, <1>2, <1>3, <1>4, <1>5 DEF CountInv

(* At the start there is no scope. *)
LEMMA InitCount == Init => ScopeTypeOK /\ CountInv
<1> SUFFICES ASSUME Init PROVE ScopeTypeOK /\ CountInv
  OBVIOUS
<1>1. /\ s_stderr_indentation = 0 /\ s_callbacks = {} /\ fresh = Sinks
      /\ indentation = [s \in Sinks |-> 0] /\ scopes = [t \in Threads |-> <<>>]
      /\ entered = 0 /\ MaxScopes \in Nat
  BY ScopeAssumption DEF Init
<1>2. ScopeTypeOK
  BY <1>1 DEF ScopeTypeOK
<1>3. \A o : IndentedBy(o) = {}
  BY <1>1 DEF IndentedBy
<1> QED  BY <1>1, <1>2, <1>3, FS_EmptySet DEF CountInv

(* The number of scopes that indented an output is kept, step by step. *)
THEOREM CountInvariant == Spec => [](ScopeTypeOK /\ CountInv)
<1>1. Init => ScopeTypeOK /\ CountInv
  BY InitCount
<1>2. ScopeTypeOK /\ CountInv /\ [Next]_svars => (ScopeTypeOK /\ CountInv)'
  BY EnterStep, OpenStep, LeaveStep, TableStep DEF Next
<1> QED  BY <1>1, <1>2, PTL DEF Spec

(* stderr is indented by exactly the open scopes that indented it when they *)
(* were opened, in whatever order they end.                                 *)
THEOREM StderrExactCorrect == Spec => []StderrExact
<1>1. ScopeTypeOK /\ CountInv => StderrExact
  <2> SUFFICES ASSUME CountInv PROVE StderrExact
    OBVIOUS
  <2>1. IndentingStderr = IndentedBy(Stderr)
    BY StderrApart DEF IndentingStderr, OpenScopes, IndentedBy, Indents
  <2> QED  BY <2>1 DEF CountInv, StderrExact
<1> QED  BY <1>1, CountInvariant, PTL

(* A callback is indented by no more than the open scopes that indented it, *)
(* and by all of them until one ends that is older than the callback.       *)
THEOREM SinkIndentationCorrect == Spec => []SinkIndentation
<1>1. ScopeTypeOK /\ CountInv => SinkIndentation
  <2> SUFFICES ASSUME ScopeTypeOK, CountInv, NEW s \in s_callbacks
               PROVE  /\ indentation[s] <= Cardinality(Indenting(s))
                      /\ s \notin older => indentation[s] = Cardinality(Indenting(s))
    BY DEF SinkIndentation
  <2>1. s \in Sinks
    BY DEF ScopeTypeOK
  <2>2. Indenting(s) = IndentedBy(s)
    BY <2>1 DEF Indenting, OpenScopes, IndentedBy, Indents
  <2> QED  BY <2>2 DEF CountInv
<1> QED  BY <1>1, CountInvariant, PTL

=============================================================================
