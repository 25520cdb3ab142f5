----------------------------- MODULE MCLogScope -----------------------------
(* Values of the constants of LogScope: one callback that takes everything *)
(* and one that takes level 0 only.                                        *)
EXTENDS LogScope

CONSTANTS t1, t2, detailed, brief

MCVerbosityOf == (detailed :> 1) @@ (brief :> 0)

Symmetry == Permutations(Threads)

=============================================================================
