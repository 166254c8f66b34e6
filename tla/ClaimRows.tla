------------------------------ MODULE ClaimRows ------------------------------
(***************************************************************************)
(* From the claims a model returned to the rows of the project: the drop   *)
(* of document metadata and the merge of restatements in memory, and the   *)
(* rows that were saved before either was decided (pipeline/               *)
(* claim_extractor.py, claim_dedup.py and orchestrator.py, phases A to C;  *)
(* reasoning/source_interest.py).                                          *)
(*                                                                         *)
(* A fact stands for a wording and for its embedding; two facts may be the *)
(* same (above the chunk threshold) or alike (above the dedup threshold).  *)
(* A fact has one source sentence.  Priors are in hundredths; the claim's  *)
(* confidence, which breaks ties between priors, is left out.              *)
(*                                                                         *)
(* Definitions marked (slip) are not the code: each is the form a          *)
(* plausible mistake would give the definition that follows it.            *)
(***************************************************************************)
EXTENDS Indices

CONSTANTS
    Facts,          \* what a document may say
    Metadata,       \* the facts about the paperwork
    SamePairs,      \* pairs of facts above _DEDUP_SIMILARITY_THRESHOLD
    AlikePairs,     \* pairs of facts at or above DEDUP_THRESHOLD
    Outcomes,       \* the outcomes of the decision anchor, in order
    Found,          \* what a discovery layer may find, in order
    Priors,         \* the priors the extractor gives
    MaxClaims,      \* bound: claims extracted
    None            \* no embedding

ASSUME FactsAssumption ==
    /\ Metadata \subseteq Facts
    /\ SamePairs \subseteq AlikePairs
    /\ Outcomes \in Seq(ToSet(Outcomes))
    /\ Found \in Seq(ToSet(Found))
    /\ Priors \subseteq 0..100
    /\ MaxClaims \in Nat
    /\ None \notin Facts

VARIABLES
    pc,         \* where the run is
    extracted,  \* what the model returned
    claims,     \* claims: the dicts in memory, in order
    rows,       \* the rows of the project, in the order they were inserted
    ids         \* claim_db_ids: the row of each claim in memory

vars == <<pc, extracted, claims, rows, ids>>

Interests == {"against_interest", "interested", "unknown"}

Same(f, g) == f = g \/ {f, g} \in SamePairs
Alike(f, g) == f = g \/ {f, g} \in AlikePairs

Lesser(m, n) == IF m < n THEN m ELSE n
Greater(m, n) == IF m > n THEN m ELSE n

Init ==
    /\ pc = "start"
    /\ extracted = <<>>
    /\ claims = <<>>
    /\ rows = <<>>
    /\ ids = <<>>

\* Pairs of places of a list.
PlacesOf(list) == (1..Len(list)) \X (1..Len(list))

\* The places of a list of n in an order, a set of pairs (i, j) where i is to
\* come before j.
Arrangement(n, before) ==
    CHOOSE places \in [1..n -> 1..n] :
        /\ ToSet(places) = 1..n
        /\ \A i, j \in 1..n :
             i < j => places[i] # places[j] /\ <<places[j], places[i]>> \notin before

\* A list so ordered.
Arranged(list, before) ==
    LET places == Arrangement(Len(list), before)
    IN  [k \in DOMAIN list |-> list[places[k]]]

\* _save_claims: one row per claim, and their ids in the same order.
SaveClaims(new) ==
    /\ rows' = rows \o [i \in 1..Len(new) |->
                 [fact |-> new[i].fact, prior |-> new[i].prior, index |-> new[i].index,
                  vector |-> new[i].vector, live |-> TRUE]]
    /\ ids' = ids \o [i \in 1..Len(new) |-> Len(rows) + i]

-----------------------------------------------------------------------------
(* Phase A. *)

\* order_index counts everything the model returned; metadata is dropped after.
Numbered(raw) ==
    Picked([i \in DOMAIN raw |->
              [fact |-> raw[i].fact, prior |-> raw[i].prior,
               interest |-> raw[i].interest, index |-> i - 1,
               vector |-> None, merged |-> 0]],
           {i \in DOMAIN raw : raw[i].fact \notin Metadata})

Extract ==
    /\ pc = "start"
    /\ \E raw \in SeqOf([fact : Facts, prior : Priors, interest : Interests], MaxClaims) :
        /\ extracted' = raw
        /\ claims' = Numbered(raw)
    /\ IF claims' = <<>>
       THEN pc' = "no_claims" /\ UNCHANGED <<rows, ids>>
       ELSE pc' = "saved" /\ SaveClaims(claims')

-----------------------------------------------------------------------------
(* Phase B. *)

\* embed_claims: a claim that is the same as an earlier one is dropped.
Embedded(seq) ==
    Picked([i \in DOMAIN seq |-> [seq[i] EXCEPT !.vector = seq[i].fact]],
           Firsts(Len(seq), {p \in PlacesOf(seq) : Same(seq[p[1]].fact, seq[p[2]].fact)}))

\* apply_to_claims: the prior moves with the stake of who is speaking.
Adjusted(c) ==
    CASE c.interest = "against_interest" ->
             [c EXCEPT !.prior = Greater(5, Lesser(95, c.prior + 15))]
      [] c.interest = "interested" ->
             [c EXCEPT !.prior = Greater(5, Lesser(95, c.prior - 10))]
      [] OTHER -> c

\* corroboration_lift
CorroborationLift(sources) == Lesser(15, 6 * (sources - 1))

\* (slip) a claim joins a group through any of its members.
LeadsOfChains(ordered) ==
    {j \in DOMAIN ordered : \A i \in 1..(j - 1) : ~Alike(ordered[i].fact, ordered[j].fact)}

\* A claim joins a group whose lead it is alike to, or leads its own.
Leads(ordered) ==
    Firsts(Len(ordered),
           {p \in PlacesOf(ordered) : Alike(ordered[p[1]].fact, ordered[p[2]].fact)})

\* The claims whose first such lead is at i.
Members(ordered, i) ==
    {j \in DOMAIN ordered \ Leads(ordered) :
        /\ Alike(ordered[i].fact, ordered[j].fact)
        /\ \A l \in Leads(ordered) : Alike(ordered[l].fact, ordered[j].fact) => i <= l}

\* The survivor of the group led from i, and how many it absorbed.
Survivor(c, absorbed) ==
    IF absorbed = 0 THEN c
    ELSE [c EXCEPT !.prior = Lesser(99, @ + CorroborationLift(absorbed + 1)),
                   !.merged = absorbed]

Survivors(ordered) ==
    Picked([i \in DOMAIN ordered |-> Survivor(ordered[i], Cardinality(Members(ordered, i)))],
           Leads(ordered))

StrongestFirst(seq) ==
    Arranged(seq, {p \in PlacesOf(seq) :
                     \/ seq[p[1]].prior > seq[p[2]].prior
                     \/ seq[p[1]].prior = seq[p[2]].prior /\ seq[p[1]].index < seq[p[2]].index})

ByIndex(seq) ==
    Arranged(seq, {p \in PlacesOf(seq) : seq[p[1]].index < seq[p[2]].index})

\* (slip) the survivors are numbered afresh.
DedupedRenumbering(seq) ==
    LET kept == ByIndex(Survivors(StrongestFirst(seq)))
    IN  [i \in DOMAIN kept |-> [kept[i] EXCEPT !.index = i - 1]]

\* dedup_claims: strongest prior first, then back in the order of the text.
Deduped(seq) == ByIndex(Survivors(StrongestFirst(seq)))

Merge ==
    /\ pc = "saved"
    /\ LET unique == Embedded(claims)
       IN claims' = Deduped([i \in 1..Len(unique) |-> Adjusted(unique[i])])
    /\ pc' = "merged"
    /\ UNCHANGED <<extracted, rows, ids>>

\* The claim that stands for the row at position i, if there is one.
Keeper(i) == {k \in 1..Len(claims) : claims[k].index = i - 1}

\* A row without a claim is deleted; the others get the claim's embedding, and
\* its prior if it absorbed another.
Updated(i) ==
    IF Keeper(i) = {} THEN [rows[i] EXCEPT !.live = FALSE]
    ELSE LET c == claims[CHOOSE k \in Keeper(i) : TRUE]
         IN [rows[i] EXCEPT !.vector = c.vector,
                            !.prior = IF c.merged > 0 THEN c.prior ELSE @]

\* _update_claim_embeddings: order_index is the position of the saved row.
UpdateRows ==
    /\ pc = "merged"
    /\ \A k \in 1..Len(claims) : claims[k].index < Len(ids)
    /\ rows' = [i \in 1..Len(rows) |-> Updated(i)]
    /\ ids' = [k \in 1..Len(claims) |-> ids[claims[k].index + 1]]
    /\ pc' = "updated"
    /\ UNCHANGED <<extracted, claims>>

\* all_claim_db_ids[idx] is past the end of the list: the run fails.
RowMissing ==
    /\ pc = "merged"
    /\ \E k \in 1..Len(claims) : claims[k].index >= Len(ids)
    /\ pc' = "index_error"
    /\ UNCHANGED <<extracted, claims, rows, ids>>

-----------------------------------------------------------------------------
(* Outcome nodes and discovery. *)

\* A claim that is embedded before it is saved.
Node(fact, index) ==
    [fact |-> fact, prior |-> 50, interest |-> "unknown", index |-> index,
     vector |-> fact, merged |-> 0]

\* (slip) numbered from the number of claims that are left.
OutcomeClaimsFromCount(n) ==
    [i \in 1..n |-> Node(Outcomes[i], Len(claims) + i - 1)]

\* _outcome_claims: numbered from past the highest index, which is the last's.
OutcomeClaims(n) ==
    [i \in 1..n |-> Node(Outcomes[i], claims[Len(claims)].index + i)]

\* One node per outcome of the anchor, if there is an anchor.
AddOutcomes ==
    /\ pc = "updated"
    /\ \E n \in {0, Len(Outcomes)} :
        /\ claims' = claims \o OutcomeClaims(n)
        /\ SaveClaims(OutcomeClaims(n))
    /\ pc' = "seeded"
    /\ UNCHANGED extracted

\* A discovery layer: numbered from the number of claims in memory.
Discover ==
    /\ pc = "seeded"
    /\ \E n \in 1..Len(Found) :
        LET new == [i \in 1..n |-> Node(Found[i], Len(claims) + i - 1)]
        IN claims' = claims \o new /\ SaveClaims(new)
    /\ pc' = "discovered"
    /\ UNCHANGED extracted

Next == Extract \/ Merge \/ UpdateRows \/ RowMissing \/ AddOutcomes \/ Discover

Spec == Init /\ [][Next]_vars

\* _load_claims_from_db: the rows a resumed run finds, by order_index.
Loaded ==
    LET present == InOrder({i \in DOMAIN rows : rows[i].live})
    IN  Arranged(present, {p \in PlacesOf(present) :
                             rows[present[p[1]]].index < rows[present[p[2]]].index})

\* What it reads of a row, and what the first run holds of the same: the
\* priors, and what was merged, are not loaded.
Carried(c) == [fact |-> c.fact, vector |-> c.vector, index |-> c.index]

-----------------------------------------------------------------------------
(* Properties. *)

Nodes == Facts \cup {Outcomes[i] : i \in 1..Len(Outcomes)}
               \cup {Found[i] : i \in 1..Len(Found)}

\* The types of the claims in memory and of the rows; a prior is a probability.
TypeOK ==
    /\ pc \in {"start", "no_claims", "saved", "merged", "updated", "index_error",
               "seeded", "discovered"}
    /\ extracted \in Seq([fact : Facts, prior : Priors, interest : Interests])
    /\ claims \in Seq([fact : Nodes, prior : 0..100, interest : Interests, index : Nat,
                       vector : Nodes \cup {None}, merged : Nat])
    /\ rows \in Seq([fact : Nodes, prior : 0..100, index : Nat,
                     vector : Nodes \cup {None}, live : BOOLEAN])
    /\ ids \in Seq(1..Len(rows))

\* Whether the numbering has a gap that is not a merge's: metadata came before
\* something that was kept.
Shifted ==
    \E i, j \in 1..Len(extracted) :
        i < j /\ extracted[i].fact \in Metadata /\ extracted[j].fact \notin Metadata

Said == {extracted[i].fact : i \in 1..Len(extracted)} \ Metadata
Kept == {claims[k].fact : k \in 1..Len(claims)}

\* The merge loses no fact: what a document said is kept, or is alike to
\* something that is (after at most one claim that was the same).
NothingIsLost ==
    pc \notin {"start", "no_claims"} =>
        \A f \in Said : \E g \in Said, h \in Kept : Same(f, g) /\ Alike(g, h)

\* "Merge near-identical claims" (dedup_claims): no two survivors are alike; the
\* outcomes of the anchor and what is discovered are not merged.
NoRestatementIsLeft ==
    pc \notin {"start", "saved", "seeded", "discovered"} =>
        \A k, l \in 1..Len(claims) : k # l => ~Alike(claims[k].fact, claims[l].fact)

\* Each claim in memory has its own row, with its text and its embedding, and
\* there are no other rows.
RowsDescribe ==
    /\ \A k \in 1..Len(claims) :
        LET row == rows[ids[k]]
        IN row.live /\ row.fact = claims[k].fact /\ row.vector = claims[k].fact
    /\ \A i \in 1..Len(rows) : rows[i].live => \E k \in 1..Len(ids) : ids[k] = i

\* The lift a survivor got for corroboration is in its row, from which belief
\* propagation takes it: the claims in memory are not asked again.
LiftIsSaved ==
    pc \in {"updated", "seeded"} =>
        \A k \in 1..Len(claims) :
            claims[k].merged > 0 => rows[ids[k]].prior = claims[k].prior

HasRows == pc \in {"updated", "index_error", "seeded", "discovered"}

\* However many restatements are merged, wherever they are in the text, memory
\* and rows stay in step, as long as all the metadata comes last: each claim has
\* its row, and what it gained by corroboration is in it.
RowsDescribeUnshifted ==
    HasRows /\ ~Shifted => pc # "index_error" /\ RowsDescribe /\ LiftIsSaved

\* The merge (dedup_claims) takes out what is said twice and nothing else.
MergeIsExact == NothingIsLost /\ NoRestatementIsLeft

\* "A resumed run must see what the first attempt saw" (resume_analysis): of
\* the fields that _load_claims_from_db reads, the resumed run is given, in the
\* same order, what the first run goes on with when discovery begins, outcome
\* nodes included, as long as all the metadata comes last.  It reads no prior:
\* what the first run knew of those, a resumed run finds in the rows only.
ResumeSeesSameClaims ==
    pc = "seeded" /\ ~Shifted =>
        /\ Loaded = ids
        /\ [k \in 1..Len(Loaded) |-> Carried(rows[Loaded[k]])]
             = [k \in 1..Len(claims) |-> Carried(claims[k])]

=============================================================================
