----------------------------- MODULE MCFatalPath ----------------------------
(* FatalPath, with the threads named in the order in which anything first  *)
(* happens to them.  Nothing tells them apart but their names, so that any *)
(* other behaviour is one of these with the names exchanged: TLC's own     *)
(* symmetry would not do, since a liveness property is checked.            *)
EXTENDS FatalPath

CONSTANT first

MCNext ==
  \E t \in Threads : /\ calls = 0 /\ arrivals = 0 => t = first
                     /\ Arrive(t) \/ Step(t)

MCSpec == Init /\ [][MCNext]_fvars /\ \A t \in Threads : WF_fvars(Step(t))

=============================================================================
