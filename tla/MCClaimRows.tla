---------------------------- MODULE MCClaimRows ----------------------------
(***************************************************************************)
(* ClaimRows on small instances: fb is alike to fa and to fc, which are    *)
(* not alike; fc and fd are the same; fm is about the paperwork.           *)
(***************************************************************************)
EXTENDS ClaimRows

CONSTANTS fa, fb, fc, fd, fm, o1, o2, n1, n2

Pairs == {{fa, fb}, {fb, fc}, {fc, fd}}
Copies == {{fc, fd}}
TwoOutcomes == <<o1, o2>>
TwoFound == <<n1, n2>>
=============================================================================
