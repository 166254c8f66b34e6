---------------------------- MODULE ReplayStream ----------------------------
(***************************************************************************)
(* What the replay-able event log promises to a client of                  *)
(* GET /analyze/{id}/stream: every connection reads the whole history from *)
(* its first event, in order and without a gap, whatever the moment it     *)
(* was opened, and it ends when (and only when) it has read the sentinel   *)
(* that marks the end of the run.                                          *)
(*                                                                         *)
(* Nothing here says how a reader is told that there is something to read: *)
(* that is the business of EventLog, which implements this module.         *)
(***************************************************************************)
EXTENDS Naturals, Sequences

CONSTANTS Readers,    \* the clients that may open the stream
          Events,     \* what a run may report
          Sentinel    \* the None that closes a run

VARIABLES history,    \* everything published so far
          cursor,     \* how much of it each reader has read
          stream      \* "closed", "open" or "complete", per reader

vars == <<history, cursor, stream>>

Init ==
    /\ history = <<>>
    /\ cursor = [r \in Readers |-> 0]
    /\ stream = [r \in Readers |-> "closed"]

\* Something happens: the history only grows.
Publish ==
    /\ \E e \in Events \cup {Sentinel} : history' = Append(history, e)
    /\ UNCHANGED <<cursor, stream>>

\* A connection always starts from the beginning.
Open(r) ==
    /\ stream[r] # "open"
    /\ stream' = [stream EXCEPT ![r] = "open"]
    /\ cursor' = [cursor EXCEPT ![r] = 0]
    /\ UNCHANGED history

Close(r) ==
    /\ stream[r] = "open"
    /\ stream' = [stream EXCEPT ![r] = "closed"]
    /\ UNCHANGED <<history, cursor>>

\* Exactly the next event, never one further on.
Read(r) ==
    /\ stream[r] = "open"
    /\ cursor[r] < Len(history)
    /\ cursor' = [cursor EXCEPT ![r] = @ + 1]
    /\ stream' = [stream EXCEPT ![r] =
                    IF history[cursor[r] + 1] = Sentinel THEN "complete" ELSE "open"]
    /\ UNCHANGED history

Next ==
    \/ Publish
    \/ \E r \in Readers : Open(r) \/ Close(r) \/ Read(r)

Spec == Init /\ [][Next]_vars
=============================================================================
