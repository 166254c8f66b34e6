----------------------------- MODULE MCEventLog -----------------------------
(***************************************************************************)
(* EventLog with the values MCEventLog.cfg gives it: two readers, which is *)
(* what it takes for one to clear the flag the other relies on, and a run  *)
(* that reports up to three events of two kinds.                           *)
(***************************************************************************)
EXTENDS EventLog
=============================================================================
