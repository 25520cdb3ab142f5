---------------------------- MODULE MCLoguruCore ----------------------------
(***************************************************************************)
(* Values of the constants of LoguruCore that a configuration cannot       *)
(* write: two files, one named by the id that is looked up first, one that *)
(* wants every message and one that wants only errors.                     *)
(***************************************************************************)
EXTENDS LoguruCore

CONSTANTS t1, t2, everything, latest, idA, idB

MCIdOf        == (everything :> idA) @@ (latest :> idB)
MCVerbosityOf == (everything :> 9) @@ (latest :> Verbosity_ERROR)

Symmetry == Permutations(Threads)

=============================================================================
