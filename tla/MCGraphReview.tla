---------------------------- MODULE MCGraphReview ----------------------------
(***************************************************************************)
(* GraphReview on small instances: two claims and a link between them, and *)
(* the changes the review controls and the API's clients send.  An edge is *)
(* restored with a strength of the reviewer's, in one request.             *)
(***************************************************************************)
EXTENDS GraphReview, TLC

Symmetry == Permutations(Sessions)

\* Growth, and the saving of an anchor, overlap with a generation only, changes
\* to rows that were added with none; and neither follows once requests crossed.
Apart ==
    /\ (\A s \in Sessions : request[s] # Idle) =>
          \/ /\ \A s \in Sessions : request[s].op \in {"edit", "infer"}
             /\ Len(rows) = Len(Seed)
          \/ \E s \in Sessions : request[s].op = "generate"
    /\ overtaken \/ crossed # {} =>
          \A s \in Sessions : request[s].op \in {"idle", "edit", "infer", "generate"}

Claim == [kind |-> "claim", key |-> None, from |-> 0, to |-> 0, review |-> Accepted, via |-> "pipeline"]

LinkedClaims == <<Claim, Claim, [Claim EXCEPT !.kind = "edge", !.from = 1, !.to = 2]>>

NoChange == [status |-> None, active |-> None, override |-> None, clear |-> FALSE]

Reject == [NoChange EXCEPT !.status = "rejected"]
Restore == [NoChange EXCEPT !.active = TRUE]

Disable == [NoChange EXCEPT !.active = FALSE]

Reviews ==
    {Reject, Disable, [Restore EXCEPT !.override = "weak"],
     [NoChange EXCEPT !.clear = TRUE]}
==============================================================================
