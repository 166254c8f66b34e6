---------------------------- MODULE ResumableRun ----------------------------
(***************************************************************************)
(* What "resume from the last checkpoint" promises about one project, seen *)
(* from outside: a project is idle or has exactly one run; only a run      *)
(* moves the mark of what has been completed, and only forward; a run that *)
(* ends leaves the project idle, at its mark, ready for another one; a run *)
(* that dies with the process leaves it stranded, and only deletion takes  *)
(* it out of there.                                                        *)
(*                                                                         *)
(* Where two launches overlap, nothing is promised from then on.           *)
(***************************************************************************)
EXTENDS Naturals

CONSTANT LastMark     \* the furthest a checkpoint can reach

VARIABLES phase,      \* "absent", "idle", "running", "stranded", "gone" or "contended"
          mark        \* how much of the analysis is completed for good

vars == <<phase, mark>>

Init == phase = "absent" /\ mark = 0

Create ==
    /\ phase = "absent"
    /\ phase' \in {"idle", "running"}
    /\ UNCHANGED mark

Launch ==
    /\ phase = "idle"
    /\ phase' = "running"
    /\ UNCHANGED mark

Advance ==
    /\ phase = "running"
    /\ mark' \in (mark + 1)..LastMark
    /\ UNCHANGED phase

End ==
    /\ phase = "running"
    /\ phase' = "idle"
    /\ UNCHANGED mark

Strand ==
    /\ phase = "running"
    /\ phase' = "stranded"
    /\ UNCHANGED mark

Delete ==
    /\ phase \in {"idle", "running", "stranded"}
    /\ phase' = "gone"
    /\ mark' = 0

\* A launch over one that came in between.
Contend ==
    /\ phase \in {"running", "stranded"}
    /\ phase' = "contended"
    /\ UNCHANGED mark

Anything ==
    /\ phase = "contended"
    /\ phase' = "contended"
    /\ mark' \in 0..LastMark

Next ==
    \/ Create \/ Launch \/ Advance \/ End \/ Strand \/ Delete
    \/ Contend \/ Anything

Spec == Init /\ [][Next]_vars
=============================================================================
