--------------------------- MODULE StreamRegistry ---------------------------
(***************************************************************************)
(* _pipeline_logs: which event log the runs of one project write and which *)
(* one its streams read (api/routes/analysis.py, api/routes/intake.py).    *)
(*                                                                         *)
(* A launch replaces the log in the registry, a run keeps the log it found *)
(* when it began, a stream keeps the log it found when it was opened (or   *)
(* puts one there).  How a stream waits for the next event is EventLog's   *)
(* subject; here a reader just reads.  The events are abstract: a stage of *)
(* the pipeline, an error of the pipeline, a downstream stage, an error of *)
(* one (both kinds reach the browser as "error_event"), and the sentinel   *)
(* None.                                                                   *)
(*                                                                         *)
(* Definitions marked (slip) are not the code: each is the form a          *)
(* plausible mistake would give the definition that follows it.            *)
(***************************************************************************)
EXTENDS Naturals, Sequences

CONSTANTS
    Clients,        \* who may be inside a start or resume request at once
    Readers,        \* who may have the stream open
    Runs,           \* slots for background tasks alive at the same time
    Downstream,     \* the downstream stages, in order
    MaxLogs,        \* bound: logs ever created
    MaxReports,     \* bound: stage events in one log
    Restarts,       \* whether the process may die and come back
    Misconfigured   \* whether get_llm_client may raise

ASSUME BoundsAssumption == MaxLogs \in Nat /\ MaxReports \in Nat

VARIABLES
    status,         \* Project.status
    current,        \* _pipeline_logs[project_id]: a log, or 0 for no entry
    made,           \* logs created so far; a log is its number
    log,            \* the events of each log
    request,        \* where each client's request is
    pc,             \* where each run is
    own,            \* the log a run captured when it began
    told,           \* downstream stages a run is done with
    reader,         \* where each stream is
    source,         \* the log a stream reads, 0 for the one-event stream
    position        \* how much of it was read

vars == <<status, current, made, log, request, pc, own, told,
          reader, source, position>>

runs == <<pc, own, told>>
streams == <<reader, source, position>>

None == "None"
Stages == {Downstream[i] : i \in 1..Len(Downstream)}

ASSUME StagesAssumption ==
    Downstream \in Seq(STRING \ {"stage", "error", "stage_error", None})

Events == {"stage", "error", "stage_error", None} \cup Stages

Init ==
    /\ status = "pending"
    /\ current = 0
    /\ made = 0
    /\ log = [l \in 1..MaxLogs |-> <<>>]
    /\ request = [c \in Clients |-> "idle"]
    /\ pc = [r \in Runs |-> "free"]
    /\ own = [r \in Runs |-> 0]
    /\ told = [r \in Runs |-> 0]
    /\ reader = [x \in Readers |-> "closed"]
    /\ source = [x \in Readers |-> 0]
    /\ position = [x \in Readers |-> 0]

\* _pipeline_logs[project_id] = _PipelineEventLog()
NewLog ==
    /\ made < MaxLogs
    /\ made' = made + 1
    /\ current' = made + 1

Put(l, events) == log' = [log EXCEPT ![l] = @ \o events]

\* Whether some run has written its last word to log l.
Ended(l) == \E i \in 1..Len(log[l]) : log[l][i] = None

-----------------------------------------------------------------------------
(* Requests: check, commit, then register the log and schedule the run. *)

Check(c) ==
    /\ request[c] = "idle"
    /\ status # "processing"
    /\ request' = [request EXCEPT ![c] = "admitted"]
    /\ UNCHANGED <<status, current, made, log, runs, streams>>

Commit(c) ==
    /\ request[c] = "admitted"
    /\ status' = "processing"
    /\ request' = [request EXCEPT ![c] = "committed"]
    /\ UNCHANGED <<current, made, log, runs, streams>>

Schedule(c) ==
    /\ request' = [request EXCEPT ![c] = "idle"]
    /\ \E r \in Runs :
        /\ pc[r] = "free"
        /\ pc' = [pc EXCEPT ![r] = "scheduled"]
    /\ UNCHANGED <<status, log, own, told, streams>>

\* (slip) a log that is there already is kept.
RegisterIfMissing(c) ==
    /\ request[c] = "committed"
    /\ IF current = 0 THEN NewLog ELSE UNCHANGED <<current, made>>
    /\ Schedule(c)

Register(c) ==
    /\ request[c] = "committed"
    /\ NewLog
    /\ Schedule(c)

-----------------------------------------------------------------------------
(* Runs. *)

\* The log is looked up once, and created if there is none.
Begin(r) ==
    /\ pc[r] = "scheduled"
    /\ IF current = 0 THEN NewLog ELSE UNCHANGED <<current, made>>
    /\ own' = [own EXCEPT ![r] = current']
    /\ pc' = [pc EXCEPT ![r] = "running"]
    /\ UNCHANGED <<status, log, request, told, streams>>

Over(r) ==
    /\ pc' = [pc EXCEPT ![r] = "free"]
    /\ own' = [own EXCEPT ![r] = 0]
    /\ told' = [told EXCEPT ![r] = 0]
    /\ UNCHANGED <<current, made, request, streams>>

\* (slip) the search client is closed first, and is not bound yet.
RaiseAtStartClosingFirst(r) ==
    /\ Misconfigured
    /\ pc[r] = "running"
    /\ Put(own[r], <<"error">>)
    /\ Over(r)
    /\ UNCHANGED status

\* get_llm_client raises: the error and the sentinel are logged, no status is
\* written, and only then does the finally clause trip over search_client.
RaiseAtStart(r) ==
    /\ Misconfigured
    /\ pc[r] = "running"
    /\ Put(own[r], <<"error", None>>)
    /\ Over(r)
    /\ UNCHANGED status

\* event_callback, for a stage or a graph update of the pipeline.
Report(r) ==
    /\ pc[r] = "running"
    /\ Len(log[own[r]]) < MaxReports
    /\ Put(own[r], <<"stage">>)
    /\ UNCHANGED <<status, current, made, request, runs, streams>>

\* The pipeline has committed "completed" and returned.
Succeed(r) ==
    /\ pc[r] = "running"
    /\ status' = "completed"
    /\ pc' = [pc EXCEPT ![r] = "downstream"]
    /\ UNCHANGED <<current, made, log, request, own, told, streams>>

\* The pipeline has committed "failed" and is about to raise.
Fail(r) ==
    /\ pc[r] = "running"
    /\ status' = "failed"
    /\ pc' = [pc EXCEPT ![r] = "raised"]
    /\ UNCHANGED <<current, made, log, request, own, told, streams>>

\* (slip) a PipelineError is taken for reported already.
UnwindSilently(r) ==
    /\ pc[r] = "raised"
    /\ \E errors \in {<<>>, <<"error">>} : Put(own[r], errors \o <<None>>)
    /\ Over(r)
    /\ UNCHANGED status

\* A PipelineError is reported by _run_pipeline; any other exception by run()
\* first and then, wrapped, by _run_pipeline as well.  Then the finally clause.
Unwind(r) ==
    /\ pc[r] = "raised"
    /\ \E errors \in {<<"error">>, <<"error", "error">>} :
        Put(own[r], errors \o <<None>>)
    /\ Over(r)
    /\ UNCHANGED status

\* emit() of _generate_downstream appends the event to the log, then hands it
\* to event_callback, which appends it to the same log.  A stage ends with its
\* own event or with an error, which is swallowed; without theories the stages
\* after the first are skipped.
EmitDownstream(r) ==
    /\ pc[r] = "downstream"
    /\ told[r] < Len(Downstream)
    /\ \/ /\ LET e == Downstream[told[r] + 1] IN Put(own[r], <<e, e>>)
          /\ told' = [told EXCEPT ![r] = @ + 1]
       \/ /\ Put(own[r], <<"stage_error", "stage_error">>)
          /\ told' = [told EXCEPT ![r] = IF @ = 0 THEN Len(Downstream) ELSE @ + 1]
    /\ UNCHANGED <<status, current, made, request, pc, own, streams>>

\* Every stage done or skipped; then the finally clause.
FinishDownstream(r) ==
    /\ pc[r] = "downstream"
    /\ told[r] = Len(Downstream)
    /\ Put(own[r], <<None>>)
    /\ Over(r)
    /\ UNCHANGED status

-----------------------------------------------------------------------------
(* Streams. *)

\* GET /stream.  Without a log, a project whose analysis is over gets a stream
\* of one event, and any other project a log of its own.
Open(x) ==
    /\ reader[x] = "closed"
    /\ IF current # 0
       THEN /\ reader' = [reader EXCEPT ![x] = "open"]
            /\ source' = [source EXCEPT ![x] = current]
            /\ UNCHANGED <<current, made>>
       ELSE IF status \in {"completed", "failed"}
       THEN /\ reader' = [reader EXCEPT ![x] = "complete"]
            /\ source' = [source EXCEPT ![x] = 0]
            /\ UNCHANGED <<current, made>>
       ELSE /\ NewLog
            /\ reader' = [reader EXCEPT ![x] = "open"]
            /\ source' = [source EXCEPT ![x] = made + 1]
    /\ position' = [position EXCEPT ![x] = 0]
    /\ UNCHANGED <<status, log, request, runs>>

Read(x) ==
    /\ reader[x] = "open"
    /\ position[x] < Len(log[source[x]])
    /\ position' = [position EXCEPT ![x] = @ + 1]
    /\ reader' = [reader EXCEPT ![x] =
                    IF log[source[x]][position[x] + 1] = None THEN "complete" ELSE "open"]
    /\ UNCHANGED <<status, current, made, log, request, runs, source>>

Close(x) ==
    /\ reader[x] # "closed"
    /\ reader' = [reader EXCEPT ![x] = "closed"]
    /\ source' = [source EXCEPT ![x] = 0]
    /\ position' = [position EXCEPT ![x] = 0]
    /\ UNCHANGED <<status, current, made, log, request, runs>>

\* The process dies and comes back with an empty registry; connections, runs
\* and requests are gone.
Restart ==
    /\ Restarts
    /\ current' = 0
    /\ request' = [c \in Clients |-> "idle"]
    /\ pc' = [r \in Runs |-> "free"]
    /\ own' = [r \in Runs |-> 0]
    /\ told' = [r \in Runs |-> 0]
    /\ reader' = [x \in Readers |-> "closed"]
    /\ source' = [x \in Readers |-> 0]
    /\ position' = [x \in Readers |-> 0]
    /\ UNCHANGED <<status, made, log>>

-----------------------------------------------------------------------------

\* What brings a run closer to its end, whatever it does besides.
Advance(r) ==
    \/ Begin(r) \/ RaiseAtStart(r) \/ Succeed(r) \/ Fail(r) \/ Unwind(r)
    \/ EmitDownstream(r) \/ FinishDownstream(r)

Serve(c) == Commit(c) \/ Register(c)

Next ==
    \/ \E c \in Clients : Check(c) \/ Serve(c)
    \/ \E r \in Runs : Report(r) \/ Advance(r)
    \/ \E x \in Readers : Open(x) \/ Read(x) \/ Close(x)
    \/ Restart

Spec == Init /\ [][Next]_vars

\* Runs end, admitted requests are served, and open streams are read; nobody
\* has to open or close a stream, or to start anything.
FairSpec ==
    /\ Spec
    /\ \A r \in Runs : WF_vars(Advance(r))
    /\ \A c \in Clients : WF_vars(Serve(c))
    /\ \A x \in Readers : WF_vars(Read(x))

-----------------------------------------------------------------------------
(* Properties. *)

\* The types of the registry, the logs, the runs and the streams.
TypeOK ==
    /\ status \in {"pending", "processing", "completed", "failed"}
    /\ made \in 0..MaxLogs
    /\ current \in 0..made
    /\ log \in [1..MaxLogs -> Seq(Events)]
    /\ request \in [Clients -> {"idle", "admitted", "committed"}]
    /\ pc \in [Runs -> {"free", "scheduled", "running", "raised", "downstream"}]
    /\ own \in [Runs -> 0..MaxLogs]
    /\ told \in [Runs -> 0..Len(Downstream)]
    /\ reader \in [Readers -> {"closed", "open", "complete"}]
    /\ source \in [Readers -> 0..MaxLogs]
    /\ position \in [Readers -> Nat]

\* A stream told "complete" has been sent all there will ever be: nothing is
\* appended behind the sentinel it read, and no run still writes to that log.
CompleteIsLast ==
    \A x \in Readers : reader[x] = "complete" /\ source[x] # 0 =>
        /\ position[x] = Len(log[source[x]])
        /\ \A r \in Runs : own[r] # source[x]

\* The log a new stream would replay tells how the run ended the way the
\* database does: once the run is over and nothing is being launched, it holds an
\* error of the pipeline exactly when the project is not "completed".  Errors of
\* downstream stages are no such word (analysis.py:364, 393, 407, 422): they are
\* in logs of completed projects only, although the browser gets them under the
\* same name (599-601).
LastWordMatchesStatus ==
    current # 0 /\ Ended(current) /\ (\A c \in Clients : request[c] # "committed")
    /\ (\A r \in Runs : pc[r] = "free")
        => /\ (\E i \in 1..Len(log[current]) : log[current][i] = "error")
                <=> status # "completed"
           /\ (\E i \in 1..Len(log[current]) : log[current][i] = "stage_error")
                => status = "completed"

\* A stream that reads the log of a run ends, however the run ends.
AttachedStreamEnds ==
    \A x \in Readers :
        (reader[x] = "open" /\ \E r \in Runs : own[r] = source[x])
            ~> reader[x] # "open"

=============================================================================
