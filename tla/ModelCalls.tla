----------------------------- MODULE ModelCalls -----------------------------
(***************************************************************************)
(* Calls to a language model (llm/client.py) behind the semantic cache     *)
(* (llm/cache.py).  Callers are tasks of one event loop: each await is a   *)
(* step, and what stands between two awaits is atomic.                     *)
(*                                                                         *)
(* A prompt is a name; an answer is the prompt it was given for.           *)
(***************************************************************************)
EXTENDS Integers, Sequences, FiniteSets, SequencesExt

CONSTANTS Callers,         \* tasks that call
          Prompts, Topic,  \* prompts, and what each is about
          Earlier,         \* prompts answered before, in the cache already
          MaxEntries,      \* room in the cache
          MaxExpiries,     \* how often everything in the cache grows too old
          EmbeddingFails,  \* the awaits of the cache, "get" or "put", that may fail
          Providers,       \* [refused, faults]: parameters a model does not accept, and
                           \* connection errors that may happen
          None

ASSUME ModelCallsAssumption ==
    /\ MaxEntries \in Nat \ {0}
    /\ Earlier \in Seq(Prompts) /\ Len(Earlier) <= MaxEntries
    /\ Topic \in [Prompts -> Prompts]
    /\ EmbeddingFails \subseteq {"get", "put"}

VARIABLES
    calls,    \* what each caller does
    entries,  \* of the cache: [prompt, answer, at]
    rows,     \* of its matrix: the prompts whose embeddings they are
    clock,    \* of the last touch of an entry
    horizon,  \* entries touched no later are too old
    expiries, \* how often that happened
    blocked,  \* parameters known not to be accepted
    provider  \* the model's, with the connection errors left

callVars == <<calls, entries, rows, clock, horizon, expiries, blocked, provider>>
cache == <<entries, rows, clock, horizon, expiries>>

Params == {"max_tokens", "temperature", "logprobs"}
MaxAttempts == 3

NoCall == [stage |-> "idle", prompt |-> None, tries |-> 0, sent |-> {},
           again |-> FALSE, answer |-> None]

CallsInit ==
    /\ calls = [c \in Callers |-> NoCall]
    /\ entries = [i \in DOMAIN Earlier |-> [prompt |-> Earlier[i], answer |-> Earlier[i], at |-> i]]
    /\ rows = Earlier /\ clock = Len(Earlier) /\ horizon = 0 /\ expiries = 0
    /\ blocked = {} /\ provider \in Providers

-----------------------------------------------------------------------------
(* The cache *)

Fresh(i) == entries[i].at > horizon
Similarity(p, q) == IF p = q THEN 2 ELSE IF Topic[p] = Topic[q] THEN 1 ELSE 0

\* The first row that is most similar, as argmax picks it.
Nearest(p) ==
    CHOOSE i \in DOMAIN rows :
      \A j \in DOMAIN rows : \/ Similarity(p, rows[j]) < Similarity(p, rows[i])
                             \/ Similarity(p, rows[j]) = Similarity(p, rows[i]) /\ i <= j

Asked(call) == [call EXCEPT !.stage = "asked", !.sent = Params \ blocked, !.again = FALSE]
Hit(c, p, i) ==
    /\ calls' = [calls EXCEPT ![c] = [NoCall EXCEPT !.stage = "answered", !.prompt = p,
                                                    !.answer = entries[i].answer]]
    /\ clock' = clock + 1
    /\ entries' = [entries EXCEPT ![i].at = clock + 1]
    /\ UNCHANGED <<rows, horizon, expiries>>

\* Look for the very prompt; if it is not there and there is anything at all,
\* have it embedded.
Lookup(c, p) ==
    /\ calls[c].stage = "idle"
    /\ LET same == {i \in DOMAIN entries : entries[i].prompt = p /\ Fresh(i)}
           call == [NoCall EXCEPT !.prompt = p]
       IN  \/ \E i \in same : (\A j \in same : i <= j) /\ Hit(c, p, i)
           \/ /\ same = {}
              /\ calls' = [calls EXCEPT ![c] = IF entries = <<>> THEN Asked(call)
                                               ELSE [call EXCEPT !.stage = "embedding"]]
              /\ UNCHANGED cache
    /\ UNCHANGED <<blocked, provider>>

\* The embedding is there, or failed: the nearest entry, if it is near enough
\* and fresh, answers.
Embedded(c) ==
    /\ calls[c].stage = "embedding"
    /\ LET p == calls[c].prompt
           near == rows # <<>> /\ Similarity(p, rows[Nearest(p)]) > 0
           Miss == /\ calls' = [calls EXCEPT ![c] = Asked(@)]
                   /\ UNCHANGED cache
       IN  \/ "get" \in EmbeddingFails /\ Miss
           \/ near /\ Fresh(Nearest(p)) /\ Hit(c, p, Nearest(p))
           \/ ~(near /\ Fresh(Nearest(p))) /\ Miss
    /\ UNCHANGED <<blocked, provider>>

\* Slip: the rows are kept in the order of the last touch, not of the entries.
EvictUnsorted(all, matrix) ==
    LET oldest == CHOOSE i \in DOMAIN all : \A j \in DOMAIN all : all[i].at <= all[j].at
        keep == SetToSortSeq(DOMAIN all \ {oldest}, LAMBDA i, j : all[i].at > all[j].at)
    IN  IF Len(all) <= MaxEntries THEN [entries |-> all, rows |-> matrix, broken |-> FALSE]
        ELSE [entries |-> RemoveAt(all, oldest), broken |-> FALSE,
              rows |-> [n \in DOMAIN keep |-> matrix[keep[n]]]]

\* The entry touched longest ago is dropped when there is no room.  Its row is
\* too, by indices that a matrix which lacks a row does not have.
Evict(all, matrix) ==
    LET oldest == CHOOSE i \in DOMAIN all : \A j \in DOMAIN all : all[i].at <= all[j].at
        keep == DOMAIN all \ {oldest}
        broken == matrix # <<>> /\ ~(keep \subseteq DOMAIN matrix)
    IN  IF Len(all) <= MaxEntries THEN [entries |-> all, rows |-> matrix, broken |-> FALSE]
        ELSE [entries |-> RemoveAt(all, oldest), broken |-> broken,
              rows |-> IF broken \/ matrix = <<>> THEN matrix ELSE RemoveAt(matrix, oldest)]

\* The answer is stored, once it is embedded; an eviction that breaks is an
\* error of the call.
Store(c) ==
    /\ calls[c].stage = "storing"
    /\ clock' = clock + 1
    /\ \E embedded \in {TRUE} \cup {e \in {FALSE} : "put" \in EmbeddingFails} :
         LET p == calls[c].prompt
             left == Evict(Append(entries, [prompt |-> p, answer |-> calls[c].answer, at |-> clock']),
                           IF embedded THEN Append(rows, p) ELSE rows)
         IN  /\ entries' = left.entries
             /\ rows' = left.rows
             /\ calls' = [calls EXCEPT ![c].stage = IF left.broken THEN "failed" ELSE "answered"]
    /\ UNCHANGED <<horizon, expiries, blocked, provider>>

\* Time passes: everything in the cache is too old.
Expire ==
    /\ expiries < MaxExpiries
    /\ horizon < clock
    /\ expiries' = expiries + 1
    /\ horizon' = clock
    /\ UNCHANGED <<calls, entries, rows, clock, blocked, provider>>

-----------------------------------------------------------------------------
(* The provider *)

\* A response that cannot be read is an error, and is not asked for again.
Respond(c) ==
    /\ calls[c].stage = "asked"
    /\ calls[c].sent \cap provider.refused = {}
    /\ \/ calls' = [calls EXCEPT ![c].stage = "storing", ![c].answer = calls[c].prompt]
       \/ calls' = [calls EXCEPT ![c].stage = "failed"]
    /\ UNCHANGED <<cache, blocked, provider>>

\* A parameter is refused: it is left out from now on, and the request is
\* repeated once without it.
Refuse(c) ==
    /\ calls[c].stage = "asked"
    /\ \E param \in calls[c].sent \cap provider.refused :
         IF calls[c].again
           THEN /\ calls' = [calls EXCEPT ![c].stage = "failed"]
                /\ UNCHANGED blocked
           ELSE /\ blocked' = blocked \cup {param}
                /\ calls' = [calls EXCEPT ![c].sent = @ \ {param}, ![c].again = TRUE]
    /\ UNCHANGED <<cache, provider>>

\* A connection error, a limit or a timeout: the whole call is tried again, at
\* most twice.
Retried(call) ==
    IF call.tries + 1 < MaxAttempts THEN Asked([call EXCEPT !.tries = @ + 1])
    ELSE [call EXCEPT !.stage = "failed"]

Unreachable(c) ==
    /\ calls[c].stage = "asked"
    /\ provider.faults # 0
    /\ provider' = [provider EXCEPT !.faults = @ - 1]
    /\ calls' = [calls EXCEPT ![c] = Retried(@)]
    /\ UNCHANGED <<cache, blocked>>

CallStep(c) == Embedded(c) \/ Respond(c) \/ Refuse(c) \/ Unreachable(c) \/ Store(c)

-----------------------------------------------------------------------------
(* Properties *)

\* A call is answered with what the model said to its own prompt or to one that
\* is similar, whichever calls, evictions and expiries came in between
\* (cache.py:34-42, 117-129).
AnswersFit ==
    \A c \in Callers : calls[c].stage = "answered" =>
        Similarity(calls[c].prompt, calls[c].answer) > 0

\* Every row of the matrix is the embedding of the entry at its index
\* (cache.py:65-68).
RowsAreOfEntries ==
    /\ Len(rows) = Len(entries)
    /\ \A i \in DOMAIN rows : rows[i] = entries[i].prompt

\* Whatever is stored, dropped or outlived, and in whatever order, the cache
\* gives an answer that fits, and can still tell which entry a row is of
\* (cache.py:61-195).
CacheHolds == AnswersFit /\ RowsAreOfEntries
=============================================================================
