----------------------------- MODULE MCFileAbs ------------------------------
(* The two files of FileAbs, in order: one appends, one truncates. *)
EXTENDS FileAbs

CONSTANTS fileA, fileB

MCOrder == <<fileA, fileB>>
MCMode  == (fileA :> "a") @@ (fileB :> "w")

Symmetry == Permutations(Inodes)

=============================================================================
