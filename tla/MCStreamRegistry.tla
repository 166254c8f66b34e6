-------------------------- MODULE MCStreamRegistry --------------------------
(***************************************************************************)
(* StreamRegistry on small instances, with two downstream stages: the one  *)
(* whose failure skips the rest, and the last.                             *)
(***************************************************************************)
EXTENDS StreamRegistry

TwoStages == <<"theory_generation", "recommendation">>
=============================================================================
