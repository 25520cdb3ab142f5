----------------------------- MODULE LogService -----------------------------
(***************************************************************************)
(* What the logging core promises, without its mutex, its loops and its    *)
(* cached cutoff: a message is delivered in one indivisible step to        *)
(* exactly the outputs that are attached at that moment and want it, and   *)
(* it is dropped only when no attached callback wants it or while the set  *)
(* of callbacks is changing.  A detached callback never comes back.        *)
(***************************************************************************)
EXTENDS Sequences

CONSTANTS
  Sinks,         (* Outputs that are attached and detached.                 *)
  Stderr,        (* The output that is always there.                        *)
  Message,       (* Everything that can be logged.                          *)
  Wants(_, _)    (* Whether an output is to get a message.                  *)

VARIABLES
  attached,      (* Callbacks that receive messages.                        *)
  detached,      (* Callbacks that were closed.                             *)
  changing,      (* The cutoff does not yet match attached.                 *)
  begun,         (* Messages whose call has begun and not returned.         *)
  log            (* What each output received.                              *)

svars == <<attached, detached, changing, begun, log>>

Outputs == Sinks \cup {Stderr}

Init ==
  /\ attached = {} /\ detached = {}
  /\ changing = FALSE
  /\ begun = {}
  /\ log = [o \in Outputs |-> <<>>]

Begin(m) ==
  /\ m \notin begun
  /\ begun' = begun \cup {m}
  /\ UNCHANGED <<attached, detached, changing, log>>

Receives(o, m) == o \in attached \cup {Stderr} /\ Wants(o, m)

Deliver(m) ==
  /\ m \in begun
  /\ begun' = begun \ {m}
  /\ log' = [o \in Outputs |->
               IF Receives(o, m) THEN Append(log[o], m) ELSE log[o]]
  /\ UNCHANGED <<attached, detached, changing>>

Drop(m) ==
  /\ m \in begun
  /\ changing \/ \A s \in attached : ~Wants(s, m)
  /\ begun' = begun \ {m}
  /\ UNCHANGED <<attached, detached, changing, log>>

Attach(s) ==
  /\ s \notin attached \cup detached
  /\ attached' = attached \cup {s}
  /\ changing' = TRUE
  /\ UNCHANGED <<detached, begun, log>>

Detach(s) ==
  /\ s \in attached
  /\ attached' = attached \ {s}
  /\ detached' = detached \cup {s}
  /\ UNCHANGED <<changing, begun, log>>

Change ==
  /\ changing' \in BOOLEAN
  /\ UNCHANGED <<attached, detached, begun, log>>

Next ==
  \/ \E m \in Message : Begin(m) \/ Deliver(m) \/ Drop(m)
  \/ \E s \in Sinks : Attach(s) \/ Detach(s)
  \/ Change

Spec == Init /\ [][Next]_svars

=============================================================================
