------------------------------ MODULE MCLogFile ------------------------------
(* A header of two lines, and the symmetry of threads and paths. *)
EXTENDS LogFile, TLC

Columns  == <<"verbosity", "columns">>
Symmetry == Permutations(Threads) \cup Permutations(Paths)

=============================================================================
