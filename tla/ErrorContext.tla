---------------------------- MODULE ErrorContext ----------------------------
(***************************************************************************)
(* ERROR_CONTEXT: the list of contexts each thread keeps through its own   *)
(* stack frames, the handle by which another thread reads that list, and   *)
(* get_error_context, which walks a list without any lock.                 *)
(*                                                                         *)
(* A context lives in its scope's stack frame, so that a context made at   *)
(* the same depth later has the same address.  A signal may make a thread  *)
(* print its contexts at any moment, also while it is inside the           *)
(* constructor or the destructor of one.                                   *)
(***************************************************************************)
EXTENDS Integers, SequencesExt

CONSTANTS
  Threads,
  Null,
  MaxDepth,     (* Bounds: contexts of a thread that are open at once ...   *)
  MaxEntries    (* ... and contexts made.                                   *)

ASSUME ErrorContextAssumption ==
  /\ MaxDepth \in Nat /\ MaxEntries \in Nat
  /\ Null \notin Threads \cup (Threads \X Nat)

Addr     == Threads \X (1..MaxDepth)
Entries  == 1..MaxEntries
(* An EcHandle, and (as history) what it stood for when it was taken. *)
Handle   == [ec : Addr \cup {Null}, text : Seq(Entries)]
NoHandle == [ec |-> Null, text |-> <<>>]

VARIABLES
  cells,     (* Threads whose thread-local head was allocated.              *)
  head,      (* What that head points to.                                   *)
  previous,  (* _previous of the entry at an address ...                    *)
  number,    (* ... which entry that is (its description and line) ...      *)
  data,      (* ... and its value, when that is a handle.                   *)
  whole,     (* Entries whose derived part, EcEntryData, exists.            *)
  at,        (* Whether a thread is in a constructor or destructor of one.  *)
  handle,    (* The handle a thread was given by another, its parent.        *)
  walk,      (* get_error_context_for: its cursor and `stack`, and those of *)
             (* the calls nested in it by ec_to_text(EcHandle).             *)
  printed,   (* The entries in the result so far.                           *)
  crashed,   (* Threads that called the pure virtual print_value.           *)
  stack,     (* History: the text of each context that is open ...          *)
  asked,     (* ... the text of those that were when a walk began ...       *)
  made       (* ... and how many were made.                                 *)

memory  == <<previous, number, data, whole>>
walking == <<walk, printed, asked>>
evars == <<cells, head, memory, at, handle, walking, crashed, stack, made>>

Init ==
  /\ cells = {} /\ head = [t \in Threads |-> Null]
  /\ previous = [a \in Addr |-> Null] /\ number = [a \in Addr |-> 0]
  /\ data = [a \in Addr |-> NoHandle] /\ whole = {}
  /\ at = [t \in Threads |-> "run"]
  /\ handle = [t \in Threads |-> NoHandle]
  /\ walk = [t \in Threads |-> <<>>]
  /\ printed = [t \in Threads |-> <<>>] /\ asked = [t \in Threads |-> <<>>]
  /\ crashed = {}
  /\ stack = [t \in Threads |-> <<>>]
  /\ made = 0

-----------------------------------------------------------------------------
Depth(t) == Len(stack[t])
Top(t)   == <<t, Depth(t)>>
Alive(a) == a[2] <= Depth(a[1])
Text(s)  == FlattenSeq(s)

(* The program runs t's code: no signal handler of t, no crash. *)
Runs(t)  == at[t] = "run" /\ walk[t] = <<>> /\ crashed = {}

(***************************************************************************)
(* ERROR_CONTEXT(descr, data): EcEntryBase's constructor links the entry;  *)
(* only then does EcEntryData, with its print_value, begin to exist.       *)
(***************************************************************************)
Link(t, a) ==
  /\ previous' = [previous EXCEPT ![a] = head[t]]
  /\ head' = [head EXCEPT ![t] = a]

Construct(t) ==
  /\ Runs(t) /\ Depth(t) < MaxDepth /\ made < MaxEntries
  /\ LET a == <<t, Depth(t) + 1>>
     IN /\ Link(t, a)
        /\ number' = [number EXCEPT ![a] = made + 1]
        /\ \E d \in {NoHandle, handle[t]} :
             /\ data' = [data EXCEPT ![a] = d]
             /\ stack' = [stack EXCEPT ![t] = Append(@, <<made + 1>> \o d.text)]
  /\ cells' = cells \cup {t}
  /\ at' = [at EXCEPT ![t] = "ctor"]
  /\ made' = made + 1
  /\ UNCHANGED <<whole, handle, walking, crashed>>

Constructed(t) ==
  /\ at[t] = "ctor" /\ walk[t] = <<>> /\ crashed = {}
  /\ whole' = whole \cup {Top(t)}
  /\ at' = [at EXCEPT ![t] = "run"]
  /\ UNCHANGED <<cells, head, previous, number, data, handle, walking,
                 crashed, stack, made>>

(***************************************************************************)
(* The scope ends.  loguru.hpp asks of the program that a handle is not    *)
(* used once the entry it points to is gone: here no handle to it is left, *)
(* held by a thread or by another context.                                 *)
(***************************************************************************)
Pinned(a) == \/ \E u \in Threads : handle[u].ec = a
             \/ \E b \in Addr : Alive(b) /\ data[b].ec = a

Destroy(t) ==
  /\ Runs(t) /\ Depth(t) > 0 /\ ~Pinned(Top(t))
  /\ whole' = whole \ {Top(t)}
  /\ at' = [at EXCEPT ![t] = "dtor"]
  /\ UNCHANGED <<cells, head, previous, number, data, handle, walking,
                 crashed, stack, made>>

KeepHead(t) == UNCHANGED head   \* mutant: the head is not set back

Unlink(t) == head' = [head EXCEPT ![t] = previous[Top(t)]]

Destroyed(t) ==
  /\ at[t] = "dtor" /\ walk[t] = <<>> /\ crashed = {}
  /\ Unlink(t)
  /\ stack' = [stack EXCEPT ![t] = Front(@)]
  /\ at' = [at EXCEPT ![t] = "run"]
  /\ UNCHANGED <<cells, memory, handle, walking, crashed, made>>

(* t passes its get_thread_ec_handle() to u, a new thread or a running one. *)
GiveHandle(t, u) ==
  /\ Runs(t) /\ Depth(t) > 0
  /\ u # t /\ at[u] = "run" /\ walk[u] = <<>> /\ handle[u] = NoHandle
  /\ handle' = [handle EXCEPT ![u] = [ec |-> head[t], text |-> Text(stack[t])]]
  /\ UNCHANGED <<cells, head, memory, at, walking, crashed, stack, made>>

(* t is done with the handle, and the giver, which waited for that, goes on. *)
DropHandle(t) ==
  /\ Runs(t) /\ handle[t] # NoHandle
  /\ handle' = [handle EXCEPT ![t] = NoHandle]
  /\ UNCHANGED <<cells, head, memory, at, walking, crashed, stack, made>>

(* free_ec_head_ref deletes the head of a thread that ends. *)
ThreadExit(t) ==
  /\ Runs(t) /\ Depth(t) = 0 /\ t \in cells
  /\ cells' = cells \ {t}
  /\ head' = [head EXCEPT ![t] = Null]
  /\ UNCHANGED <<memory, at, handle, walking, crashed, stack, made>>

-----------------------------------------------------------------------------
Begin(t, ec, text) ==
  /\ walk[t] = <<>> /\ crashed = {}
  /\ walk' = [walk EXCEPT ![t] = <<[cursor |-> ec, found |-> <<>>]>>]
  /\ asked' = [asked EXCEPT ![t] = text]
  /\ UNCHANGED <<head, memory, at, handle, printed, crashed, stack, made>>

(* get_error_context(), by the program, log_message or a signal handler. *)
GetErrorContext(t) ==
  /\ Begin(t, head[t], Text(stack[t]))
  /\ cells' = cells \cup {t}

(* get_error_context_for(handle). *)
GetErrorContextFor(t) ==
  /\ at[t] = "run" /\ handle[t] # NoHandle
  /\ Begin(t, handle[t].ec, handle[t].text)
  /\ UNCHANGED cells

(* The innermost call of get_error_context_for. *)
Call(t)        == Last(walk[t])
WithCall(t, c) == walk' = [walk EXCEPT ![t] = Front(@) \o c]
Unmoved        == <<cells, head, memory, at, handle, stack, made>>

Unreversed(c) ==   \* mutant: without the std::reverse
  [cursor |-> previous[c.cursor], found |-> Append(c.found, c.cursor)]

StaysThere(c) == c   \* mutant: ec_head is not advanced

(* One turn of the first loop; with the std::reverse that follows it, the *)
(* oldest entry comes first.                                               *)
Reversed(c) ==
  [cursor |-> previous[c.cursor], found |-> <<c.cursor>> \o c.found]

Collect(t) ==
  /\ walk[t] # <<>> /\ crashed = {}
  /\ Call(t).cursor # Null
  /\ WithCall(t, <<Reversed(Call(t))>>)
  /\ UNCHANGED <<Unmoved, printed, asked, crashed>>

(* The second loop: print_value of one entry.  A handle is printed by       *)
(* another call of get_error_context_for.                                   *)
NestedSkipped(a, rest) ==   \* mutant: a handle's context is not printed
  <<rest>>

Nested(a, rest) ==
  IF data[a].ec = Null THEN <<rest>>
  ELSE <<rest, [cursor |-> data[a].ec, found |-> <<>>]>>

PrintValue(t) ==
  /\ walk[t] # <<>> /\ crashed = {}
  /\ Call(t).cursor = Null /\ Call(t).found # <<>>
  /\ LET a == Head(Call(t).found)
     IN IF a \in whole
        THEN /\ printed' = [printed EXCEPT ![t] = Append(@, number[a])]
             /\ WithCall(t, Nested(a, [Call(t) EXCEPT !.found = Tail(@)]))
             /\ UNCHANGED crashed
        ELSE crashed' = {t} /\ UNCHANGED <<walk, printed>>
  /\ UNCHANGED <<Unmoved, asked>>

Done(t) == walk[t] # <<>> /\ Call(t).cursor = Null /\ Call(t).found = <<>>

Return(t) ==
  /\ Done(t) /\ crashed = {}
  /\ WithCall(t, <<>>)
  /\ IF Len(walk[t]) > 1
     THEN UNCHANGED <<printed, asked>>
     ELSE /\ printed' = [printed EXCEPT ![t] = <<>>]
          /\ asked' = [asked EXCEPT ![t] = <<>>]
  /\ UNCHANGED <<Unmoved, crashed>>

Walks(t) == Collect(t) \/ PrintValue(t) \/ Return(t)

Next ==
  \E t \in Threads :
    \/ Construct(t) \/ Constructed(t) \/ Destroy(t) \/ Destroyed(t)
    \/ \E u \in Threads : GiveHandle(t, u)
    \/ DropHandle(t) \/ ThreadExit(t)
    \/ GetErrorContext(t) \/ GetErrorContextFor(t)
    \/ Walks(t)

Spec == Init /\ [][Next]_evars

(* A thread that prints goes on printing. *)
FairSpec == Spec /\ \A t \in Threads : WF_evars(Walks(t))

-----------------------------------------------------------------------------
(* No walk reads an entry whose scope has ended, its own thread's or that of *)
(* the thread whose handle it follows, through any number of handles; the    *)
(* owner may open and close further scopes meanwhile.                        *)
ReadsAlive ==
  \A t \in Threads : \A i \in DOMAIN walk[t] :
    \A a \in {walk[t][i].cursor} \cup Range(walk[t][i].found) :
      a # Null => Alive(a)

(* get_error_context prints the contexts that were open when it was called,  *)
(* oldest first, each parent's context right after the entry that holds its  *)
(* handle, whatever its parents open and close in the meantime.              *)
PrintsTheContext ==
  \A t \in Threads :
    /\ IsPrefix(printed[t], asked[t])
    /\ Done(t) /\ Len(walk[t]) = 1 => printed[t] = asked[t]

(* Only a signal in the middle of a context's own constructor or destructor  *)
(* can meet an entry without print_value; it is the last one to be printed,  *)
(* and never one of another thread.                                          *)
OnlyNewestIncomplete ==
  \A t \in crashed :
    /\ at[t] # "run"
    /\ printed[t] = Text(Front(stack[t]))

(* Printing ends, however handles and contexts of several threads refer to  *)
(* one another.                                                              *)
WalkEnds == \A t \in Threads : walk[t] # <<>> ~> walk[t] = <<>> \/ crashed # {}

=============================================================================
