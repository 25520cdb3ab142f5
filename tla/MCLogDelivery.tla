---------------------------- MODULE MCLogDelivery ---------------------------
(***************************************************************************)
(* Values of the constants of LogDelivery: two callbacks, both known by    *)
(* the same id, one for every message and one for errors only.             *)
(***************************************************************************)
EXTENDS LogDelivery

CONSTANTS t1, t2, everything, latest, idA

MCIdOf        == (everything :> idA) @@ (latest :> idA)
MCVerbosityOf == (everything :> 9) @@ (latest :> Verbosity_ERROR)

MCStderrVerbosity == Verbosity_ERROR
MCLevels == {Verbosity_ERROR, 0}

Symmetry == Permutations(Threads)

=============================================================================
