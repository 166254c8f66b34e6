------------------------------ MODULE EventLog ------------------------------
(***************************************************************************)
(* _PipelineEventLog and the generator that streams it (_event_generator   *)
(* in api/routes/analysis.py): one append-only list, one asyncio.Event     *)
(* shared by every connection, and one index per connection.               *)
(*                                                                         *)
(* Everything runs on one event loop, so what lies between two awaits is   *)
(* one action.  In particular the generator's last look at the list,       *)
(* notify.clear() and the registration of its waiter are one step          *)
(* (Python 3.12: wait_for awaits the coroutine itself, it does not wrap it *)
(* in a task), and each yield is a step, because the response may suspend  *)
(* there until the client has taken the event.                             *)
(*                                                                         *)
(* Definitions marked (slip) are not the code: each is the form a plausible*)
(* mistake would give the definition that follows it, and is used only to  *)
(* show which property would notice.                                       *)
(***************************************************************************)
EXTENDS Naturals, Sequences

CONSTANTS
    Connections,  \* clients of the stream
    Reported,     \* what the run reports, the sentinel aside
    Sentinel,     \* the None appended by _run_pipeline's finally
    MaxEvents     \* bound: events a run reports before it ends

ASSUME SentinelAssumption == Sentinel \notin Reported
ASSUME MaxEventsAssumption == MaxEvents \in Nat

VARIABLES
    events,       \* _PipelineEventLog.events
    notify,       \* the flag of _PipelineEventLog.notify
    waiters,      \* connections whose wait() has not been resolved yet
    generator,    \* where each connection's generator is
    index,        \* the generator's local index
    received      \* what the reader was sent on this connection (history)

logVars == <<events, notify, waiters, generator, index, received>>

RunEnded == \E i \in 1..Len(events) : events[i] = Sentinel

LogInit ==
    /\ events = <<>>
    /\ notify = FALSE
    /\ waiters = {}
    /\ generator = [r \in Connections |-> "closed"]
    /\ index = [r \in Connections |-> 0]
    /\ received = [r \in Connections |-> <<>>]

-----------------------------------------------------------------------------
(* The run's side. *)

\* (slip) the event is recorded but nobody waiting is told.
AppendQuietly(e) ==
    /\ events' = Append(events, e)
    /\ UNCHANGED <<notify, waiters, generator, index, received>>

\* append(): extend the list, set the event, which resolves every waiter.
AppendEvent(e) ==
    /\ events' = Append(events, e)
    /\ notify' = TRUE
    /\ waiters' = {}
    /\ UNCHANGED <<generator, index, received>>

ReportEvent ==
    /\ ~RunEnded
    /\ Len(events) < MaxEvents
    /\ \E e \in Reported : AppendEvent(e)

\* The finally clause of _run_pipeline, once per run.
Finish ==
    /\ ~RunEnded
    /\ AppendEvent(Sentinel)

-----------------------------------------------------------------------------
(* The reader's side. *)

\* (slip) the position survives from the previous connection.
ConnectKeepingPlace(r) ==
    /\ generator[r] \in {"closed", "complete"}
    /\ generator' = [generator EXCEPT ![r] = "reading"]
    /\ received' = [received EXCEPT ![r] = <<>>]
    /\ UNCHANGED <<events, notify, waiters, index>>

\* (slip) a late client joins at the current stage.
ConnectAtTheEnd(r) ==
    /\ generator[r] \in {"closed", "complete"}
    /\ generator' = [generator EXCEPT ![r] = "reading"]
    /\ index' = [index EXCEPT ![r] = Len(events)]
    /\ received' = [received EXCEPT ![r] = <<>>]
    /\ UNCHANGED <<events, notify, waiters>>

\* A request of GET /stream: a fresh generator, replaying from index 0.
Connect(r) ==
    /\ generator[r] \in {"closed", "complete"}
    /\ generator' = [generator EXCEPT ![r] = "reading"]
    /\ index' = [index EXCEPT ![r] = 0]
    /\ received' = [received EXCEPT ![r] = <<>>]
    /\ UNCHANGED <<events, notify, waiters>>

\* The client goes away: the generator is cancelled where it stands.
Disconnect(r) ==
    /\ generator[r] \in {"reading", "waiting"}
    /\ generator' = [generator EXCEPT ![r] = "closed"]
    /\ waiters' = waiters \ {r}
    /\ UNCHANGED <<events, notify, index, received>>

\* (slip) the sentinel is serialised like any other event.
YieldAnything(r) ==
    /\ generator[r] = "reading"
    /\ index[r] < Len(events)
    /\ index' = [index EXCEPT ![r] = @ + 1]
    /\ received' = [received EXCEPT ![r] = Append(@, events[index[r] + 1])]
    /\ UNCHANGED <<events, notify, waiters, generator>>

\* One turn of the inner loop that finds an event: yield it and go on.
YieldEvent(r) ==
    /\ generator[r] = "reading"
    /\ index[r] < Len(events)
    /\ events[index[r] + 1] # Sentinel
    /\ index' = [index EXCEPT ![r] = @ + 1]
    /\ received' = [received EXCEPT ![r] = Append(@, events[index[r] + 1])]
    /\ UNCHANGED <<events, notify, waiters, generator>>

\* The turn that finds None: yield "complete" and return.
YieldComplete(r) ==
    /\ generator[r] = "reading"
    /\ index[r] < Len(events)
    /\ events[index[r] + 1] = Sentinel
    /\ index' = [index EXCEPT ![r] = @ + 1]
    /\ generator' = [generator EXCEPT ![r] = "complete"]
    /\ UNCHANGED <<events, notify, waiters, received>>

\* (slip) wait without a last look at the list.
WaitWithoutLooking(r) ==
    /\ generator[r] = "reading"
    /\ notify' = FALSE
    /\ waiters' = waiters \cup {r}
    /\ generator' = [generator EXCEPT ![r] = "waiting"]
    /\ UNCHANGED <<events, index, received>>

\* The list is exhausted: clear the shared flag, then wait on it.
Wait(r) ==
    /\ generator[r] = "reading"
    /\ index[r] = Len(events)
    /\ notify' = FALSE
    /\ waiters' = waiters \cup {r}
    /\ generator' = [generator EXCEPT ![r] = "waiting"]
    /\ UNCHANGED <<events, index, received>>

\* wait() returns once its future is resolved, whatever the flag says by then.
Wake(r) ==
    /\ generator[r] = "waiting"
    /\ r \notin waiters
    /\ generator' = [generator EXCEPT ![r] = "reading"]
    /\ UNCHANGED <<events, notify, waiters, index, received>>

\* 300 s without news: a keep-alive comment, and another look at the list.
KeepAlive(r) ==
    /\ generator[r] = "waiting"
    /\ r \in waiters
    /\ waiters' = waiters \ {r}
    /\ generator' = [generator EXCEPT ![r] = "reading"]
    /\ UNCHANGED <<events, notify, index, received>>

Consume(r) == YieldEvent(r) \/ YieldComplete(r) \/ Wait(r) \/ Wake(r)

LogNext ==
    \/ ReportEvent
    \/ Finish
    \/ \E r \in Connections :
        Connect(r) \/ Disconnect(r) \/ Consume(r) \/ KeepAlive(r)

(***************************************************************************)
(* The run ends (every stage's model calls time out) and the event loop    *)
(* schedules every ready generator.  Neither a connection nor its end is   *)
(* promised, and no fairness is put on KeepAlive: readers are told by the  *)
(* notification, not by the timer.                                         *)
(***************************************************************************)
Fairness ==
    /\ WF_logVars(Finish)
    /\ \A r \in Connections : WF_logVars(Consume(r))

LogSpec == LogInit /\ [][LogNext]_logVars
LogFairSpec == LogSpec /\ Fairness

-----------------------------------------------------------------------------
(* Properties. *)

\* The types of the log, the flag and each connection's state.
LogTypeOK ==
    /\ events \in Seq(Reported \cup {Sentinel})
    /\ notify \in BOOLEAN
    /\ waiters \in SUBSET Connections
    /\ generator \in [Connections -> {"closed", "reading", "waiting", "complete"}]
    /\ index \in [Connections -> Nat]
    /\ received \in [Connections -> Seq(Reported)]

\* A reader left waiting (its future unresolved) has read everything there is:
\* clearing the flag that all readers share never costs one of them an event
\* that was appended while another was busy.
NoLostWakeup ==
    \A r \in Connections : r \in waiters => index[r] = Len(events)

\* What a connection was sent is the log itself from its first event on, in
\* order and without a gap or a repetition, up to the reader's index; a
\* connection that was told "complete" was sent everything but the sentinel.
DeliveredIsReplay ==
    \A r \in Connections :
        /\ generator[r] # "complete" => Len(received[r]) = index[r]
        /\ generator[r] = "complete" =>
              /\ Len(received[r]) + 1 = index[r]
              /\ index[r] = Len(events)
        /\ \A i \in 1..Len(received[r]) :
              i <= Len(events) /\ received[r][i] = events[i]

\* A connection that stays open is eventually told that the run is complete,
\* even one opened after the run ended.
StreamTerminates ==
    \A r \in Connections : generator[r] = "reading" ~> generator[r] \in {"complete", "closed"}

\* EventLog implements the replay stream it is there to provide.
Abstract == INSTANCE ReplayStream WITH
    Readers <- Connections,
    Events <- Reported,
    history <- events,
    cursor <- index,
    stream <- [r \in Connections |->
        CASE generator[r] = "closed" -> "closed"
          [] generator[r] = "complete" -> "complete"
          [] OTHER -> "open"]

ImplementsReplay == Abstract!Spec
=============================================================================
