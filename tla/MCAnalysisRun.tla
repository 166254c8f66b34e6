--------------------------- MODULE MCAnalysisRun ---------------------------
(***************************************************************************)
(* AnalysisRun on small instances.  Slots are interchangeable, and so are  *)
(* clients; the symmetry is used only where no liveness is checked.  What  *)
(* follows a launch over another is not explored: nothing is claimed there.*)
(***************************************************************************)
EXTENDS AnalysisRun, TLC

Symmetry == Permutations(Runs) \cup Permutations(Clients)

Uncontended == ~raced
=============================================================================
