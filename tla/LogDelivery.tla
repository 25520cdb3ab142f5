---------------------------- MODULE LogDelivery -----------------------------
(***************************************************************************)
(* LoguruCore seen by the caller of LOG_F: which outputs a message is owed *)
(* to and whether they got it, and LoguruCore as an implementation of      *)
(* LogService.  owed and disturbed are history variables: they record what *)
(* happened and restrict nothing.                                          *)
(***************************************************************************)
EXTENDS LoguruCore

VARIABLES
  owed,       (* Outputs that wanted a thread's message when its call began *)
              (* (callbacks: add_callback had returned), not closed since.  *)
  disturbed   (* Whether a callback change ran at any time during the call. *)

dvars == <<vars, owed, disturbed>>

(* on_callback_change runs, or is about to run. *)
ChangeRunning == \E t \in Threads : pc[t] \in Changing

DInit ==
  /\ Init
  /\ owed = [t \in Threads |-> {}]
  /\ disturbed = [t \in Threads |-> FALSE]

Starts(t) == cur[t] = NoMessage /\ cur'[t] # NoMessage
Ends(t)   == cur[t] # NoMessage /\ cur'[t] = NoMessage

Added     == Installed \ {arg[t] : t \in Threads}
Open      == {s \in Added : closes[s] = 0} \cup {Stderr}

(* The change of the message a thread logs tells when its call begins. *)
Observe ==
  /\ owed' = [t \in Threads |->
                IF Starts(t) THEN {o \in Open : Wants(o, cur'[t])}
                ELSE {o \in owed[t] : o = Stderr \/ closes'[o] = 0}]
  /\ disturbed' = [t \in Threads |->
                     (~Starts(t) /\ disturbed[t]) \/ ChangeRunning \/ ChangeRunning']

DNext == Next /\ Observe
DSpec == DInit /\ [][DNext]_dvars

Received(o, m) == m \in Range(out[o])

(* When LOG_F returns, the message is in every output that wanted it when    *)
(* the call began and that is still installed, unless a callback change ran  *)
(* meanwhile (then current_verbosity_cutoff may have seen a transient value). *)
DeliveredIfUndisturbed ==
  [][\A t \in Threads : Ends(t) /\ ~disturbed[t] =>
       \A o \in owed[t] : Received(o, cur[t])]_dvars

(* The same without the exception: what loguru.hpp says of add_callback,     *)
(* "Will be called on each log messages with a verbosity less or equal to    *)
(* the given one", and README.md, "Thread-safe".                             *)
DeliveredToOwed ==
  [][\A t \in Threads : Ends(t) =>
       \A o \in owed[t] : Received(o, cur[t])]_dvars

(***************************************************************************)
(* LoguruCore implements LogService.  A message counts as delivered when   *)
(* the call that delivers it lets go of s_mutex: what its owner wrote so   *)
(* far is not there yet.                                                   *)
(***************************************************************************)
Delivered(o) ==
  IF /\ owner # NoOne
     /\ pc[owner] \in Logging
     /\ out[o] # <<>>
     /\ Last(out[o]) = cur[owner]
  THEN Front(out[o])
  ELSE out[o]

Service == INSTANCE LogService WITH
  attached <- {s \in Installed : closes[s] = 0},
  detached <- {s \in Sinks : closes[s] > 0},
  changing <- ChangeRunning,
  begun    <- {cur[t] : t \in Threads} \ {NoMessage},
  log      <- [o \in Outputs |-> Delivered(o)]

(* Every behaviour of the core is one of LogService: the delivery of a       *)
(* message to stderr and to the callbacks is atomic, reaches exactly the     *)
(* outputs installed at one moment, and a message some callback wants is     *)
(* dropped only while the table of callbacks is changing.                    *)
AtomicDelivery == Service!Spec

=============================================================================
