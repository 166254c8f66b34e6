------------------------ MODULE StreamRegistryProofs ------------------------
(***************************************************************************)
(* The types of the registry for any number of clients, and the two        *)
(* invariants of what a stream is told when requests come one at a time:   *)
(* the status is checked and committed in two steps, so two requests at    *)
(* once may both launch a run, and the second log is then shared.          *)
(*                                                                         *)
(* That nothing follows the sentinel a stream read is not inductive: it    *)
(* needs that a log has one writer, that the log a scheduled run is about  *)
(* to find has none, and that there is at most one launch under way.       *)
(*                                                                         *)
(* How one log is read is EventLog's subject; what is proved of that is in *)
(* the last part.  The two modules share no variable and are not composed: *)
(* each theorem is about the specification of one of them.                 *)
(***************************************************************************)
EXTENDS StreamRegistry, EventLog, SequenceTheorems, TLAPS

Writing(r) == pc[r] \in {"running", "raised", "downstream"}
Launching(r) == pc[r] \in {"scheduled", "running"}
Failed(l) == \E i \in 1..Len(log[l]) : log[l][i] = "error"
Marred(l) == \E i \in 1..Len(log[l]) : log[l][i] = "stage_error"
Committing == \E c \in Clients : request[c] = "committed"

\* A run has a log of its own from its beginning to its end.
Ownership ==
    /\ \A r \in Runs : own[r] # 0 <=> Writing(r)
    /\ \A r \in Runs : own[r] <= made
    /\ \A r, q \in Runs : own[r] = own[q] /\ own[r] # 0 => r = q

\* From the check of a request until its run has committed a status, nothing
\* else is launched.
OneLaunch ==
    /\ \A c \in Clients, r \in Runs : request[c] # "idle" => ~Launching(r)
    /\ \A c \in Clients : request[c] = "committed" => status = "processing"
    /\ \A r \in Runs : Launching(r) => status = "processing" /\ current # 0
    /\ \A r, q \in Runs : Launching(r) /\ Launching(q) => r = q

\* A log is empty until its run begins, and ends with the sentinel.
Logs ==
    /\ \A l \in 1..MaxLogs : l > made => log[l] = <<>>
    /\ \A l \in 1..MaxLogs : \A i \in 1..Len(log[l]) :
        log[l][i] = None => i = Len(log[l])
    /\ \A r \in Runs : pc[r] = "scheduled" =>
        log[current] = <<>> /\ \A q \in Runs : own[q] # current
    /\ \A r \in Runs : pc[r] = "running" => own[r] = current
    /\ \A r \in Runs : Writing(r) => ~Ended(own[r])

\* What the log says of a run so far, and what the database does.
Verdicts ==
    /\ \A r \in Runs : pc[r] \in {"running", "downstream"} => ~Failed(own[r])
    /\ \A r \in Runs : own[r] = current /\ ~Committing =>
        /\ pc[r] = "downstream" => status = "completed"
        /\ pc[r] = "raised" => status # "completed"
    /\ current # 0 /\ Ended(current) /\ ~Committing =>
        (Failed(current) <=> status # "completed")

\* An open stream is within its log, a completed one at the end of it.
Cursors ==
    \A x \in Readers :
        /\ reader[x] = "open" => source[x] \in 1..made /\ position[x] <= Len(log[source[x]])
        /\ reader[x] = "complete" /\ source[x] # 0 =>
            Ended(source[x]) /\ position[x] = Len(log[source[x]])

Inv == TypeOK /\ Ownership /\ OneLaunch /\ Logs /\ Verdicts /\ Cursors

-----------------------------------------------------------------------------

\* What appending to one log does to it, and to the others.
LEMMA PutFacts ==
    ASSUME TypeOK, NEW l \in 1..MaxLogs, NEW es \in Seq(Events), Put(l, es)
    PROVE  /\ log' \in [1..MaxLogs -> Seq(Events)]
           /\ \A k \in 1..MaxLogs : k # l => log'[k] = log[k]
           /\ Len(log[l]) \in Nat /\ Len(es) \in Nat
           /\ Len(log'[l]) = Len(log[l]) + Len(es)
           /\ \A i \in 1..Len(log[l]) : log'[l][i] = log[l][i]
           /\ \A j \in 1..Len(es) : log'[l][Len(log[l]) + j] = es[j]
  <1>1. log[l] \in Seq(Events) /\ log'[l] = log[l] \o es
    BY DEF TypeOK, Put
  <1>2. log[l] \o es \in Seq(Events)
    BY <1>1, ConcatProperties
  <1>3. /\ log' \in [1..MaxLogs -> Seq(Events)]
        /\ \A k \in 1..MaxLogs : k # l => log'[k] = log[k]
    BY <1>1, <1>2 DEF TypeOK, Put
  <1>4. Len(log[l]) \in Nat /\ Len(es) \in Nat /\ Len(log'[l]) = Len(log[l]) + Len(es)
    BY <1>1, ConcatProperties, LenProperties
  <1>5. \A i \in 1..Len(log[l]) + Len(es) : log'[l][i] =
            IF i <= Len(log[l]) THEN log[l][i] ELSE es[i - Len(log[l])]
    BY <1>1, ConcatProperties
  <1>6. \A i \in 1..Len(log[l]) : log'[l][i] = log[l][i]
    BY <1>4, <1>5
  <1>7. ASSUME NEW j \in 1..Len(es) PROVE log'[l][Len(log[l]) + j] = es[j]
    <2>1. /\ Len(log[l]) + j \in 1..Len(log[l]) + Len(es)
          /\ ~(Len(log[l]) + j <= Len(log[l]))
          /\ Len(log[l]) + j - Len(log[l]) = j
      BY <1>4
    <2>2. QED
      BY <1>5, <2>1
  <1>8. QED
    BY <1>3, <1>4, <1>6, <1>7

\* A log ends or fails by what is appended to it, and by nothing else.
LEMMA PutTells ==
    ASSUME TypeOK, NEW l \in 1..MaxLogs, NEW es \in Seq(Events), Put(l, es)
    PROVE  /\ Ended(l)' <=> Ended(l) \/ \E j \in 1..Len(es) : es[j] = None
           /\ Failed(l)' <=> Failed(l) \/ \E j \in 1..Len(es) : es[j] = "error"
           /\ Marred(l)' <=> Marred(l) \/ \E j \in 1..Len(es) : es[j] = "stage_error"
           /\ \A k \in 1..MaxLogs : k # l =>
                 /\ Ended(k)' <=> Ended(k)
                 /\ Failed(k)' <=> Failed(k)
                 /\ Marred(k)' <=> Marred(k)
  <1>1. /\ Len(log[l]) \in Nat /\ Len(es) \in Nat
        /\ Len(log'[l]) = Len(log[l]) + Len(es)
        /\ \A i \in 1..Len(log[l]) : log'[l][i] = log[l][i]
        /\ \A j \in 1..Len(es) : log'[l][Len(log[l]) + j] = es[j]
        /\ \A k \in 1..MaxLogs : k # l => log'[k] = log[k]
    BY PutFacts
  <1>2. ASSUME NEW e
        PROVE  (\E i \in 1..Len(log'[l]) : log'[l][i] = e) <=>
                  \/ \E i \in 1..Len(log[l]) : log[l][i] = e
                  \/ \E j \in 1..Len(es) : es[j] = e
    <2>1. ASSUME NEW i \in 1..Len(log'[l]), log'[l][i] = e, i > Len(log[l])
          PROVE  \E j \in 1..Len(es) : es[j] = e
      <3>1. i - Len(log[l]) \in 1..Len(es) /\ i = Len(log[l]) + (i - Len(log[l]))
        BY <1>1, <2>1
      <3>2. QED
        BY <1>1, <2>1, <3>1
    <2>2. ASSUME NEW j \in 1..Len(es), es[j] = e
          PROVE  \E i \in 1..Len(log'[l]) : log'[l][i] = e
      <3>1. Len(log[l]) + j \in 1..Len(log'[l])
        BY <1>1
      <3>2. QED
        BY <1>1, <2>2, <3>1
    <2>3. ASSUME NEW i \in 1..Len(log[l]), log[l][i] = e
          PROVE  \E k \in 1..Len(log'[l]) : log'[l][k] = e
      <3>1. i \in 1..Len(log'[l])
        BY <1>1
      <3>2. QED
        BY <1>1, <2>3, <3>1
    <2>4. ASSUME NEW i \in 1..Len(log'[l]), log'[l][i] = e
          PROVE  \/ \E k \in 1..Len(log[l]) : log[l][k] = e
                 \/ \E j \in 1..Len(es) : es[j] = e
      <3>1. CASE i > Len(log[l])
        BY <2>1, <2>4, <3>1
      <3>2. CASE ~(i > Len(log[l]))
        <4>1. i \in 1..Len(log[l])
          BY <1>1, <3>2
        <4>2. QED
          BY <1>1, <2>4, <4>1
      <3>3. QED
        BY <3>1, <3>2
    <2>5. QED
      BY <2>2, <2>3, <2>4
  <1>3. QED
    BY <1>1, <1>2 DEF Ended, Failed, Marred

LEMMA InitInv == Init => Inv
  <1> SUFFICES ASSUME Init PROVE Inv
    OBVIOUS
  <1>1. \A l \in 1..MaxLogs : log[l] = <<>> /\ Len(log[l]) = 0
    BY DEF Init
  <1>2. TypeOK
    BY <<>> \in Seq(Events), StagesAssumption, LenProperties, BoundsAssumption DEF Init, TypeOK
  <1>3. QED
    BY <1>1, <1>2 DEF Init, Inv, Ownership, OneLaunch, Logs, Verdicts, Cursors, Writing,
       Launching, Committing

\* What is one launch at a time when there is one client.
OneClient == \A c, d \in Clients : c = d

\* A run writes an event that is neither its last word nor an error.
LEMMA WriteInv ==
    ASSUME Inv, NEW r \in Runs, pc[r] \in {"running", "downstream"},
           NEW e \in Events \ {None, "error"}, NEW es \in {<<e>>, <<e, e>>},
           Put(own[r], es), told' \in [Runs -> 0..Len(Downstream)],
           UNCHANGED <<status, current, made, request, pc, own, streams>>
    PROVE  Inv'
  <1> DEFINE l == own[r]
  <1>1. l \in 1..MaxLogs /\ es \in Seq(Events) /\ Put(l, es)
    <2>1. es \in Seq(Events)
      <3>1. <<e>> \in Seq(Events)
        OBVIOUS
      <3>2. <<e, e>> \in Seq(Events)
        OBVIOUS
      <3>3. QED
        BY <3>1, <3>2
    <2>2. own[r] # 0 /\ own[r] \in 0..MaxLogs
      BY DEF Inv, TypeOK, Ownership, Writing
    <2>3. QED
      BY <2>1, <2>2, BoundsAssumption
  <1>2. \A j \in 1..Len(es) : es[j] # None /\ es[j] # "error"
    OBVIOUS
  <1>3. \A k \in 1..MaxLogs : (Ended(k)' <=> Ended(k)) /\ (Failed(k)' <=> Failed(k))
    BY <1>1, <1>2, PutTells DEF Inv
  <1>4. /\ log' \in [1..MaxLogs -> Seq(Events)]
        /\ \A k \in 1..MaxLogs : k # l => log'[k] = log[k]
        /\ Len(log[l]) \in Nat /\ Len(log'[l]) \in Nat
        /\ Len(log[l]) <= Len(log'[l])
    BY <1>1, PutFacts DEF Inv
  <1>5. \A i \in 1..Len(log'[l]) : log'[l][i] # None
    BY <1>1, <1>3 DEF Inv, Logs, Writing, Ended
  <1>6. /\ status' = status /\ current' = current /\ made' = made
        /\ request' = request /\ pc' = pc /\ own' = own
        /\ reader' = reader /\ source' = source /\ position' = position
    BY DEF streams
  <1>7. current \in 0..MaxLogs /\ made \in 0..MaxLogs /\ own \in [Runs -> 0..MaxLogs]
    BY BoundsAssumption DEF Inv, TypeOK
  <1> HIDE DEF l
  <1>8. TypeOK' /\ Ownership' /\ OneLaunch'
    BY <1>4, <1>6 DEF Inv, TypeOK, Ownership, OneLaunch, Writing, Launching
  <1>9. Logs'
    <2>1. l <= made /\ l # 0
      BY DEF Inv, Ownership, Writing, l
    <2>2. \A q \in Runs : pc[q] = "scheduled" => current # l /\ current \in 1..MaxLogs
      BY <1>7 DEF Inv, Logs, OneLaunch, Launching, l
    <2>3. \A k \in 1..MaxLogs : k > made => log'[k] = <<>>
      BY <1>4, <1>7, <2>1 DEF Inv, Logs
    <2>4. \A k \in 1..MaxLogs : \A i \in 1..Len(log'[k]) :
             log'[k][i] = None => i = Len(log'[k])
      BY <1>4, <1>5 DEF Inv, Logs
    <2>5. \A q \in Runs : Writing(q) => ~Ended(own[q])'
      BY <1>3, <1>7 DEF Inv, Logs, Ownership, Writing
    <2>6. QED
      BY <1>4, <1>6, <2>2, <2>3, <2>4, <2>5 DEF Inv, Logs, Writing
  <1>10. Verdicts'
    BY <1>3, <1>6, <1>7 DEF Inv, Verdicts, Ownership, Writing, Committing
  <1>11. Cursors'
    <2>1. ASSUME NEW x \in Readers, reader[x] = "open"
          PROVE  position[x] <= Len(log'[source[x]])
      <3>1. source[x] \in 1..MaxLogs /\ position[x] <= Len(log[source[x]]) /\ position[x] \in Nat
        BY <1>7, <2>1 DEF Inv, TypeOK, Cursors
      <3>2. CASE source[x] = l
        BY <1>4, <3>1, <3>2
      <3>3. CASE source[x] # l
        BY <1>4, <3>1, <3>3
      <3>4. QED
        BY <3>2, <3>3
    <2>2. ASSUME NEW x \in Readers, reader[x] = "complete", source[x] # 0
          PROVE  log'[source[x]] = log[source[x]]
      BY <1>1, <1>4, <2>2 DEF Inv, TypeOK, Cursors, Logs, Writing, l
    <2>3. QED
      BY <1>6, <2>1, <2>2 DEF Inv, Cursors, Ended
  <1>12. QED
    BY <1>8, <1>9, <1>10, <1>11 DEF Inv

\* A run writes its last words: errors exactly if it did not complete.
LEMMA EndInv ==
    ASSUME Inv, NEW r \in Runs, Writing(r),
           NEW errors \in {<<>>, <<"error">>, <<"error", "error">>},
           errors = <<>> <=> pc[r] = "downstream",
           Put(own[r], errors \o <<None>>), Over(r), UNCHANGED status
    PROVE  Inv'
  <1> DEFINE es == errors \o <<None>>
  <1>1. PICK l \in 1..MaxLogs : l = own[r]
    <2>1. own[r] # 0 /\ own[r] \in 0..MaxLogs
      BY DEF Inv, TypeOK, Ownership
    <2>2. QED
      BY <2>1, BoundsAssumption
  <1>2. /\ es \in Seq(Events) /\ Len(es) \in Nat \ {0}
        /\ Len(es) \in 1..Len(es)
        /\ \A j \in 1..Len(es) : es[j] = None <=> j = Len(es)
        /\ (\E j \in 1..Len(es) : es[j] = "error") <=> pc[r] # "downstream"
    <2>1. /\ errors \in Seq(Events) /\ <<None>> \in Seq(Events)
          /\ Len(<<None>>) = 1 /\ <<None>>[1] = None
      <3>1. "error" \in Events /\ None \in Events
        BY DEF Events
      <3>2. <<"error">> \in Seq(Events) /\ <<"error", "error">> \in Seq(Events)
        BY <3>1
      <3>3. <<>> \in Seq(Events)
        OBVIOUS
      <3>4. errors \in Seq(Events)
        BY <3>2, <3>3
      <3>5. <<None>> \in Seq(Events) /\ Len(<<None>>) = 1 /\ <<None>>[1] = None
        BY <3>1
      <3>6. QED
        BY <3>4, <3>5
    <2>2. /\ Len(errors) \in Nat /\ Len(errors) # 0 <=> pc[r] # "downstream"
          /\ \A j \in 1..Len(errors) : errors[j] = "error"
      OBVIOUS
    <2>3. /\ es \in Seq(Events) /\ Len(es) = Len(errors) + 1
          /\ \A j \in 1..Len(errors) + 1 :
                es[j] = IF j <= Len(errors) THEN errors[j] ELSE <<None>>[j - Len(errors)]
      BY <2>1, ConcatProperties
    <2>4. es[Len(errors) + 1] = None
      BY <2>1, <2>2, <2>3
    <2>5. \A j \in 1..Len(errors) : es[j] = "error"
      BY <2>2, <2>3
    <2>6. QED
      BY <2>2, <2>3, <2>4, <2>5 DEF None
  <1>3. Put(l, es)
    BY <1>1
  <1> HIDE DEF es
  <1>4. /\ Ended(l)'
        /\ Failed(l)' <=> Failed(l) \/ pc[r] # "downstream"
        /\ \A k \in 1..MaxLogs : k # l =>
              (Ended(k)' <=> Ended(k)) /\ (Failed(k)' <=> Failed(k))
    BY <1>1, <1>2, <1>3, PutTells DEF Inv
  <1>5. /\ log' \in [1..MaxLogs -> Seq(Events)]
        /\ \A k \in 1..MaxLogs : k # l => log'[k] = log[k]
        /\ Len(log[l]) \in Nat
        /\ Len(log'[l]) = Len(log[l]) + Len(es)
        /\ \A i \in 1..Len(log[l]) : log'[l][i] = log[l][i]
        /\ \A j \in 1..Len(es) : log'[l][Len(log[l]) + j] = es[j]
    BY <1>1, <1>2, <1>3, PutFacts DEF Inv
  <1>6. /\ status' = status /\ current' = current /\ made' = made /\ request' = request
        /\ pc' = [pc EXCEPT ![r] = "free"] /\ own' = [own EXCEPT ![r] = 0]
        /\ told' = [told EXCEPT ![r] = 0]
        /\ reader' = reader /\ source' = source /\ position' = position
    BY DEF Over, streams
  <1>7. /\ current \in 0..MaxLogs /\ made \in 0..MaxLogs /\ own \in [Runs -> 0..MaxLogs]
        /\ pc \in [Runs -> {"free", "scheduled", "running", "raised", "downstream"}]
    BY BoundsAssumption DEF Inv, TypeOK
  <1>8. TypeOK' /\ Ownership' /\ OneLaunch'
    <2>1. TypeOK'
      <3>1. Len(Downstream) \in Nat
        BY StagesAssumption, LenProperties
      <3>2. /\ pc' \in [Runs -> {"free", "scheduled", "running", "raised", "downstream"}]
            /\ own' \in [Runs -> 0..MaxLogs]
        BY <1>6, <1>7, BoundsAssumption
      <3>3. told' \in [Runs -> 0..Len(Downstream)]
        BY <1>6, <3>1 DEF Inv, TypeOK
      <3>4. QED
        BY <1>5, <1>6, <3>2, <3>3 DEF Inv, TypeOK
    <2>2. Ownership'
      BY <1>6, <1>7 DEF Inv, TypeOK, Ownership, Writing
    <2>3. OneLaunch'
      BY <1>6, <1>7 DEF Inv, OneLaunch, Launching
    <2>4. QED
      BY <2>1, <2>2, <2>3
  <1>9. \A q \in Runs : q # r /\ own[q] # 0 => own[q] # l /\ own[q] \in 1..MaxLogs
    BY <1>1, <1>7 DEF Inv, Ownership
  <1>10. Logs'
    <2>1. l <= made
      BY <1>1 DEF Inv, Ownership
    <2>2. \A q \in Runs : pc[q] = "scheduled" => current # l /\ current \in 1..MaxLogs
      BY <1>1, <1>7 DEF Inv, Logs, OneLaunch, Launching
    <2>3. \A k \in 1..MaxLogs : k > made => log'[k] = <<>>
      BY <1>5, <1>7, <2>1 DEF Inv, Logs
    <2>4. ASSUME NEW i \in 1..Len(log'[l]), log'[l][i] = None
          PROVE  i = Len(log'[l])
      <3>1. ~(i \in 1..Len(log[l]))
        BY <1>1, <1>5, <2>4 DEF Inv, Logs, Ended
      <3>2. i - Len(log[l]) \in 1..Len(es) /\ i = Len(log[l]) + (i - Len(log[l]))
        BY <1>2, <1>5, <3>1
      <3>3. es[i - Len(log[l])] = None
        BY <1>5, <2>4, <3>2
      <3>4. i - Len(log[l]) = Len(es)
        BY <1>2, <3>2, <3>3
      <3>5. QED
        BY <1>2, <1>5, <3>4
    <2>5. \A k \in 1..MaxLogs : \A i \in 1..Len(log'[k]) :
             log'[k][i] = None => i = Len(log'[k])
      <3> SUFFICES ASSUME NEW k \in 1..MaxLogs, NEW i \in 1..Len(log'[k]), log'[k][i] = None
                   PROVE  i = Len(log'[k])
        OBVIOUS
      <3>1. CASE k = l
        BY <2>4, <3>1
      <3>2. CASE k # l
        BY <1>5, <3>2 DEF Inv, Logs
      <3>3. QED
        BY <3>1, <3>2
    <2>6. \A q \in Runs : q # r /\ Writing(q) => ~Ended(own[q])'
      BY <1>4, <1>6, <1>7, <1>9 DEF Inv, Logs, Ownership, Writing
    <2>7. \A q \in Runs : (pc[q] = "scheduled" \/ Writing(q)')
             => q # r /\ pc'[q] = pc[q] /\ own'[q] = own[q]
      BY <1>6, <1>7 DEF Writing
    <2>8. \A q \in Runs : pc'[q] = "scheduled" =>
             log'[current] = <<>> /\ \A u \in Runs : own'[u] # current
      BY <1>5, <1>6, <1>7, <2>2 DEF Inv, Logs
    <2>9. \A q \in Runs : pc'[q] = "running" => own'[q] = current
      BY <1>6, <1>7 DEF Inv, Logs
    <2>10. \A q \in Runs : Writing(q)' => ~Ended(own[q])'
      BY <1>6, <1>7, <2>6 DEF Writing
    <2>11. QED
      BY <1>6, <2>3, <2>5, <2>8, <2>9, <2>10 DEF Logs
  <1>11. Verdicts'
    <2>1. \A q \in Runs : pc'[q] \in {"running", "downstream"} => ~Failed(own[q])'
      BY <1>4, <1>6, <1>7, <1>9 DEF Inv, Verdicts, Ownership, Writing
    <2>2. \A q \in Runs : own'[q] = current /\ ~Committing =>
            /\ pc'[q] = "downstream" => status = "completed"
            /\ pc'[q] = "raised" => status # "completed"
      BY <1>6, <1>7 DEF Inv, Verdicts
    <2>3. ASSUME current # 0, Ended(current)', ~Committing
          PROVE  Failed(current)' <=> status # "completed"
      <3>1. CASE current = l
        <4>1. pc[r] = "running" => status # "completed"
          BY DEF Inv, OneLaunch, Launching
        <4>2. pc[r] = "downstream" => status = "completed" /\ ~Failed(l)
          BY <1>1, <2>3, <3>1 DEF Inv, Verdicts
        <4>3. pc[r] = "raised" => status # "completed"
          BY <1>1, <2>3, <3>1 DEF Inv, Verdicts
        <4>4. QED
          BY <1>1, <1>4, <1>6, <3>1, <4>1, <4>2, <4>3 DEF Writing
      <3>2. CASE current # l
        BY <1>4, <1>6, <1>7, <2>3, <3>2 DEF Inv, Verdicts
      <3>3. QED
        BY <3>1, <3>2
    <2>4. QED
      BY <1>6, <2>1, <2>2, <2>3 DEF Verdicts, Committing
  <1>12. Cursors'
    <2>1. ASSUME NEW x \in Readers, reader[x] = "open"
          PROVE  position[x] <= Len(log'[source[x]])
      <3>1. source[x] \in 1..MaxLogs /\ position[x] <= Len(log[source[x]]) /\ position[x] \in Nat
        BY <1>7, <2>1 DEF Inv, TypeOK, Cursors
      <3>2. CASE source[x] = l
        BY <1>2, <1>5, <3>1, <3>2
      <3>3. CASE source[x] # l
        BY <1>5, <3>1, <3>3
      <3>4. QED
        BY <3>2, <3>3
    <2>2. ASSUME NEW x \in Readers, reader[x] = "complete", source[x] # 0
          PROVE  log'[source[x]] = log[source[x]]
      BY <1>1, <1>5, <2>2 DEF Inv, TypeOK, Cursors, Logs
    <2>3. QED
      BY <1>6, <2>1, <2>2 DEF Inv, Cursors, Ended
  <1>13. QED
    BY <1>8, <1>10, <1>11, <1>12 DEF Inv

\* A request is checked, committed, and registers an empty log for a run that
\* it schedules.
LEMMA RequestInv ==
    ASSUME Inv, OneClient, NEW c \in Clients, Check(c) \/ Commit(c) \/ Register(c)
    PROVE  Inv'
  <1>1. ASSUME NEW d \in Clients PROVE d = c
    BY DEF OneClient
  <1>2. /\ log' = log /\ own' = own /\ told' = told
        /\ reader' = reader /\ source' = source /\ position' = position
    BY DEF Check, Commit, Register, Schedule, runs, streams
  <1>3. \A k \in 1..MaxLogs : (Ended(k)' <=> Ended(k)) /\ (Failed(k)' <=> Failed(k))
    BY <1>2 DEF Ended, Failed
  <1>4. /\ current \in 0..MaxLogs /\ made \in 0..MaxLogs /\ own \in [Runs -> 0..MaxLogs]
        /\ current <= made
        /\ request \in [Clients -> {"idle", "admitted", "committed"}]
        /\ pc \in [Runs -> {"free", "scheduled", "running", "raised", "downstream"}]
    BY BoundsAssumption DEF Inv, TypeOK
  <1>5. \A q \in Runs : own[q] # 0 => own[q] \in 1..MaxLogs
    BY <1>4
  <1>6. CASE Check(c) \/ Commit(c)
    <2>1. /\ current' = current /\ made' = made /\ pc' = pc
          /\ request' \in [Clients -> {"idle", "admitted", "committed"}]
          /\ status' \in {"pending", "processing", "completed", "failed"}
          /\ request'[c] # "idle"
          /\ request'[c] = "committed" => status' = "processing"
          /\ \A q \in Runs : ~Launching(q)
      <3>1. CASE Check(c)
        BY <1>4, <3>1 DEF Check, runs, Inv, OneLaunch, TypeOK
      <3>2. CASE Commit(c)
        BY <1>4, <3>2 DEF Commit, runs, Inv, OneLaunch, TypeOK
      <3>3. QED
        BY <1>6, <3>1, <3>2
    <2>2. TypeOK' /\ Ownership' /\ Cursors'
      BY <1>2, <2>1 DEF Inv, TypeOK, Ownership, Cursors, Writing, Ended
    <2>3. OneLaunch'
      BY <1>1, <2>1 DEF OneLaunch, Launching
    <2>4. Logs'
      BY <1>2, <2>1 DEF Inv, Logs, Writing, Ended
    <2>5. Verdicts'
      <3>1. CASE Check(c)
        <4>1. status' = status /\ (Committing' <=> Committing)
          BY <1>1, <1>4, <3>1 DEF Check, Committing
        <4>2. QED
          BY <1>2, <2>1, <4>1 DEF Inv, Verdicts, Ended, Failed
      <3>2. CASE Commit(c)
        <4>1. Committing'
          BY <1>4, <3>2 DEF Commit, Committing
        <4>2. QED
          BY <1>2, <2>1, <4>1 DEF Inv, Verdicts, Failed
      <3>3. QED
        BY <1>6, <3>1, <3>2
    <2>6. QED
      BY <2>2, <2>3, <2>4, <2>5 DEF Inv
  <1>7. CASE Register(c)
    <2>1. PICK r \in Runs : pc[r] = "free" /\ pc' = [pc EXCEPT ![r] = "scheduled"]
      BY <1>7 DEF Register, Schedule
    <2>2. /\ status' = status
          /\ made < MaxLogs /\ made' = made + 1 /\ current' = made + 1
          /\ request[c] = "committed"
          /\ request' = [request EXCEPT ![c] = "idle"]
      BY <1>7 DEF Register, Schedule, NewLog
    <2>3. \A q \in Runs : ~Launching(q)
      BY <2>2 DEF Inv, OneLaunch
    <2>4. TypeOK'
      BY <1>2, <1>4, <2>1, <2>2, BoundsAssumption DEF Inv, TypeOK
    <2>5. Ownership'
      BY <1>2, <1>4, <2>1, <2>2 DEF Inv, Ownership, Writing
    <2>6. current' \in 1..MaxLogs /\ log[current'] = <<>> /\ \A q \in Runs : own[q] # current'
      <3>1. made + 1 \in 1..MaxLogs /\ made + 1 > made
        BY <1>4, <2>2, BoundsAssumption
      <3>2. \A q \in Runs : own[q] # made + 1
        BY <1>4, <3>1 DEF Inv, Ownership
      <3>3. QED
        BY <2>2, <3>1, <3>2 DEF Inv, Logs
    <2>7. OneLaunch'
      <3>1. \A q \in Runs : Launching(q)' => q = r
        BY <1>4, <2>1, <2>3 DEF Launching
      <3>2. status' = "processing"
        BY <2>2 DEF Inv, OneLaunch
      <3>3. QED
        BY <1>1, <1>4, <2>2, <2>6, <3>1, <3>2 DEF OneLaunch
    <2>8. Logs'
      BY <1>2, <1>4, <2>1, <2>2, <2>3, <2>6 DEF Inv, Logs, Launching, Writing, Ended
    <2>9. Verdicts'
      BY <1>2, <1>4, <2>1, <2>2, <2>6 DEF Inv, Verdicts, Committing, Ended, Failed
    <2>10. Cursors'
      BY <1>2, <1>4, <2>2 DEF Inv, Cursors, TypeOK, Ended
    <2>11. QED
      BY <2>4, <2>5, <2>7, <2>8, <2>9, <2>10 DEF Inv
  <1>8. QED
    BY <1>6, <1>7

\* A run takes the log of its launch, and its outcome is committed.
LEMMA OutcomeInv ==
    ASSUME Inv, NEW r \in Runs, Begin(r) \/ Succeed(r) \/ Fail(r)
    PROVE  Inv'
  <1>1. /\ log' = log /\ request' = request /\ told' = told
        /\ current' = current /\ made' = made
        /\ reader' = reader /\ source' = source /\ position' = position
    BY DEF Begin, Succeed, Fail, Inv, OneLaunch, Launching, streams
  <1>2. /\ current \in 0..MaxLogs /\ made \in 0..MaxLogs /\ own \in [Runs -> 0..MaxLogs]
        /\ current <= made
        /\ pc \in [Runs -> {"free", "scheduled", "running", "raised", "downstream"}]
    BY BoundsAssumption DEF Inv, TypeOK
  <1>3. /\ Launching(r) /\ current # 0 /\ status = "processing"
        /\ \A q \in Runs : Launching(q) => q = r
        /\ \A c \in Clients : request[c] = "idle"
    <2>1. Launching(r)
      BY DEF Begin, Succeed, Fail, Launching
    <2>2. QED
      BY <2>1 DEF Inv, OneLaunch
  <1>4. ~Committing
    BY <1>3 DEF Committing
  <1>5. Cursors'
    BY <1>1 DEF Inv, Cursors, Ended
  <1>6. CASE Begin(r)
    <2>1. /\ status' = status /\ pc[r] = "scheduled"
          /\ pc' = [pc EXCEPT ![r] = "running"] /\ own' = [own EXCEPT ![r] = current]
      BY <1>1, <1>6 DEF Begin
    <2>2. log[current] = <<>> /\ \A q \in Runs : own[q] # current
      BY <2>1 DEF Inv, Logs
    <2>3. ~Ended(current) /\ ~Failed(current)
      BY <2>2 DEF Ended, Failed
    <2>4. TypeOK'
      BY <1>1, <1>2, <2>1 DEF Inv, TypeOK
    <2>5. Ownership'
      BY <1>1, <1>2, <1>3, <2>1, <2>2 DEF Inv, Ownership, Writing
    <2>6. OneLaunch'
      BY <1>1, <1>2, <1>3, <2>1 DEF OneLaunch, Launching
    <2>7. Logs'
      <3>1. \A q \in Runs : q # r => pc'[q] = pc[q] /\ own'[q] = own[q]
        BY <1>2, <2>1
      <3>2. pc'[r] = "running" /\ own'[r] = current
        BY <1>2, <2>1
      <3>3. \A q \in Runs : pc'[q] # "scheduled"
        BY <1>3, <3>1, <3>2 DEF Launching
      <3>4. \A q \in Runs : Writing(q)' => ~Ended(own[q])'
        BY <1>1, <2>3, <3>1, <3>2 DEF Inv, Logs, Writing, Ended
      <3>5. \A q \in Runs : pc'[q] = "running" => own'[q] = current
        BY <3>1, <3>2 DEF Inv, Logs
      <3>6. QED
        BY <1>1, <3>3, <3>4, <3>5 DEF Inv, Logs
    <2>8. Verdicts'
      <3>1. \A q \in Runs : q # r => pc'[q] = pc[q] /\ own'[q] = own[q]
        BY <1>2, <2>1
      <3>2. pc'[r] = "running" /\ own'[r] = current
        BY <1>2, <2>1
      <3>3. \A q \in Runs : pc'[q] \in {"running", "downstream"} => ~Failed(own[q])'
        BY <1>1, <2>3, <3>1, <3>2 DEF Inv, Verdicts, Failed
      <3>4. QED
        BY <1>1, <1>4, <2>1, <2>2, <2>3, <3>1, <3>2, <3>3 DEF Inv, Verdicts, Committing, Ended, Failed
    <2>9. QED
      BY <1>5, <2>4, <2>5, <2>6, <2>7, <2>8 DEF Inv
  <1>7. CASE Succeed(r) \/ Fail(r)
    <2>1. /\ own' = own /\ pc[r] = "running" /\ own[r] = current
          /\ ~Failed(current) /\ ~Ended(current)
      BY <1>7 DEF Succeed, Fail, Inv, Logs, Verdicts, Writing
    <2>2. \/ status' = "completed" /\ pc' = [pc EXCEPT ![r] = "downstream"]
          \/ status' = "failed" /\ pc' = [pc EXCEPT ![r] = "raised"]
      BY <1>7 DEF Succeed, Fail
    <2>3. TypeOK'
      BY <1>1, <1>2, <2>1, <2>2 DEF Inv, TypeOK
    <2>4. \A q \in Runs : q # r => pc'[q] = pc[q]
      BY <1>2, <2>2
    <2>5. \/ pc'[r] = "downstream" /\ status' = "completed"
          \/ pc'[r] = "raised" /\ status' = "failed"
      BY <1>2, <2>2
    <2>6. Ownership'
      BY <1>1, <2>1, <2>4, <2>5 DEF Inv, Ownership, Writing
    <2>7. \A q \in Runs : ~Launching(q)'
      BY <1>3, <2>4, <2>5 DEF Launching
    <2>8. OneLaunch'
      BY <1>1, <1>3, <2>7 DEF OneLaunch
    <2>9. Logs'
      BY <1>1, <2>1, <2>4, <2>5, <2>7 DEF Inv, Logs, Launching, Writing, Ended
    <2>10. Verdicts'
      <3>1. \A q \in Runs : own[q] = current => q = r
        BY <1>3, <2>1 DEF Inv, Ownership
      <3>2. \A q \in Runs : pc'[q] \in {"running", "downstream"} => ~Failed(own[q])'
        BY <1>1, <2>1, <2>4, <2>5 DEF Inv, Verdicts, Failed
      <3>3. QED
        BY <1>1, <1>4, <2>1, <2>4, <2>5, <3>1, <3>2 DEF Inv, Verdicts, Committing, Ended, Failed
    <2>11. QED
      BY <1>5, <2>3, <2>6, <2>8, <2>9, <2>10 DEF Inv
  <1>8. QED
    BY <1>6, <1>7

\* A stream is opened, read or closed.
LEMMA StreamInv ==
    ASSUME Inv, NEW x \in Readers, Open(x) \/ Read(x) \/ Close(x)
    PROVE  Inv'
  <1>1. /\ status' = status /\ log' = log /\ request' = request
        /\ pc' = pc /\ own' = own /\ told' = told
    BY DEF Open, Read, Close, runs
  <1>2. /\ current \in 0..MaxLogs /\ made \in 0..MaxLogs /\ own \in [Runs -> 0..MaxLogs]
        /\ current <= made
        /\ reader \in [Readers -> {"closed", "open", "complete"}]
        /\ source \in [Readers -> 0..MaxLogs] /\ position \in [Readers -> Nat]
    BY BoundsAssumption DEF Inv, TypeOK
  <1>3. \/ current' = current /\ made' = made
        \/ current = 0 /\ made < MaxLogs /\ made' = made + 1 /\ current' = made + 1
    BY DEF Open, Read, Close, NewLog
  <1>4. \A l \in 1..MaxLogs : Len(log[l]) \in Nat
    BY DEF Inv, TypeOK
  <1>5. TypeOK'
    <2>1. made' \in 0..MaxLogs /\ current' \in 0..made'
      BY <1>2, <1>3, BoundsAssumption
    <2>2. /\ reader' \in [Readers -> {"closed", "open", "complete"}]
          /\ source' \in [Readers -> 0..MaxLogs] /\ position' \in [Readers -> Nat]
      <3>1. CASE Open(x)
        <4>1. made + 1 \in 0..MaxLogs \/ made = MaxLogs
          BY <1>2, BoundsAssumption
        <4>2. QED
          BY <1>2, <3>1, <4>1 DEF Open, NewLog
      <3>2. CASE Read(x)
        BY <1>2, <3>2 DEF Read
      <3>3. CASE Close(x)
        BY <1>2, <3>3, BoundsAssumption DEF Close
      <3>4. QED
        BY <3>1, <3>2, <3>3
    <2>3. QED
      BY <1>1, <2>1, <2>2 DEF Inv, TypeOK
  <1>6. Ownership' /\ OneLaunch'
    BY <1>1, <1>2, <1>3 DEF Inv, Ownership, OneLaunch, Writing, Launching
  <1>7. Logs' /\ Verdicts'
    <2>1. CASE current' = current /\ made' = made
      BY <1>1, <2>1 DEF Inv, Logs, Verdicts, Writing, Committing, Ended, Failed
    <2>2. CASE current = 0 /\ made < MaxLogs /\ made' = made + 1 /\ current' = made + 1
      <3>1. \A q \in Runs : ~Launching(q) /\ own[q] # made + 1
        BY <1>2, <2>2 DEF Inv, OneLaunch, Ownership
      <3>2. made + 1 \in 1..MaxLogs /\ log[made + 1] = <<>>
        BY <1>2, <2>2, BoundsAssumption DEF Inv, Logs
      <3>3. Logs'
        <4>1. \A l \in 1..MaxLogs : l > made' => log[l] = <<>>
          BY <1>2, <2>2 DEF Inv, Logs
        <4>2. \A q \in Runs : pc[q] # "scheduled" /\ pc[q] # "running"
          BY <3>1 DEF Launching
        <4>3. QED
          BY <1>1, <4>1, <4>2 DEF Inv, Logs, Writing, Ended
      <3>4. Verdicts'
        BY <1>1, <2>2, <3>1, <3>2 DEF Inv, Verdicts, Committing, Ended, Failed
      <3>5. QED
        BY <3>3, <3>4
    <2>3. QED
      BY <1>3, <2>1, <2>2
  <1>8. Cursors'
    <2>1. \A y \in Readers : y # x =>
            reader'[y] = reader[y] /\ source'[y] = source[y] /\ position'[y] = position[y]
      BY <1>2 DEF Open, Read, Close
    <2> DEFINE Within(y) ==
                 /\ reader[y] = "open" => source[y] \in 1..made /\ position[y] <= Len(log[source[y]])
                 /\ reader[y] = "complete" /\ source[y] # 0 =>
                      Ended(source[y]) /\ position[y] = Len(log[source[y]])
    <2>2. ASSUME NEW y \in Readers, y # x PROVE Within(y)'
      <3>1. reader'[y] = reader[y] /\ source'[y] = source[y] /\ position'[y] = position[y]
        BY <2>1, <2>2
      <3>2. Within(y)
        BY <2>2 DEF Inv, Cursors
      <3>3. made' \in Nat /\ made \in Nat /\ made <= made' /\ log' = log
        BY <1>1, <1>2, <1>3, BoundsAssumption
      <3>4. source[y] \in 1..made => source[y] \in 1..made'
        BY <3>3
      <3>5. Ended(source[y]) => Ended(source[y])'
        BY <3>1, <3>3 DEF Ended
      <3>6. QED
        BY <3>1, <3>2, <3>3, <3>4, <3>5
    <2>3. CASE Open(x)
      <3>1. position'[x] = 0
        BY <1>2, <2>3 DEF Open
      <3>2. \/ reader'[x] = "complete" /\ source'[x] = 0
            \/ reader'[x] = "open" /\ source'[x] = current' /\ current' # 0
        BY <1>2, <2>3 DEF Open, NewLog
      <3>3. current' <= made' /\ current' \in 0..MaxLogs /\ made' \in 0..MaxLogs
        BY <1>5, BoundsAssumption DEF TypeOK
      <3>4. Within(x)'
        BY <1>1, <1>4, <3>1, <3>2, <3>3
      <3>5. QED
        BY <2>2, <3>4 DEF Cursors
    <2>4. CASE Read(x)
      <3>1. /\ source[x] \in 1..made /\ source[x] \in 1..MaxLogs
            /\ position[x] \in Nat /\ position[x] < Len(log[source[x]])
            /\ source' = source /\ made' = made
            /\ position'[x] = position[x] + 1
            /\ reader'[x] = IF log[source[x]][position[x] + 1] = None THEN "complete" ELSE "open"
        BY <1>2, <2>4 DEF Read, Inv, Cursors
      <3>2. position[x] + 1 \in 1..Len(log[source[x]])
        BY <1>4, <3>1
      <3>3. Within(x)'
        BY <1>1, <1>4, <3>1, <3>2 DEF Inv, Logs, Ended
      <3>4. QED
        BY <2>2, <3>3 DEF Cursors
    <2>5. CASE Close(x)
      <3>1. reader'[x] = "closed"
        BY <1>2, <2>5 DEF Close
      <3>2. QED
        BY <2>2, <3>1 DEF Cursors
    <2>6. QED
      BY <2>3, <2>4, <2>5
  <1>9. QED
    BY <1>5, <1>6, <1>7, <1>8 DEF Inv

\* The logs survive a restart in the model, but nothing refers to them.
LEMMA RestartInv == ASSUME Inv, Restart PROVE Inv'
  <1>1. TypeOK'
    <2>1. Len(Downstream) \in Nat
      BY StagesAssumption, LenProperties
    <2>2. QED
      BY <2>1, BoundsAssumption DEF Restart, Inv, TypeOK
  <1>2. QED
    BY <1>1, BoundsAssumption
    DEF Restart, Inv, TypeOK, Ownership, OneLaunch, Logs, Verdicts, Cursors, Writing, Launching,
        Committing, Ended, Failed

\* Whatever a run does.
LEMMA RunInv ==
    ASSUME Inv, NEW r \in Runs, Report(r) \/ Advance(r)
    PROVE  Inv'
  <1>1. CASE Report(r)
    <2>1. "stage" \in Events \ {None, "error"}
      BY DEF Events, None
    <2>2. told' \in [Runs -> 0..Len(Downstream)]
      BY <1>1 DEF Report, runs, Inv, TypeOK
    <2>3. QED
      BY <1>1, <2>1, <2>2, WriteInv DEF Report, runs
  <1>2. CASE EmitDownstream(r)
    <2>1. Len(Downstream) \in Nat /\ told[r] + 1 \in 1..Len(Downstream)
      BY <1>2, StagesAssumption, LenProperties DEF EmitDownstream, Inv, TypeOK
    <2>2. /\ Downstream[told[r] + 1] \in Events \ {None, "error"}
          /\ "stage_error" \in Events \ {None, "error"}
      <3>1. Downstream[told[r] + 1] \in STRING \ {"stage", "error", "stage_error", None}
        BY <2>1, StagesAssumption, ElementOfSeq
      <3>2. Downstream[told[r] + 1] \in Stages
        BY <2>1 DEF Stages
      <3>3. QED
        BY <3>1, <3>2 DEF Events, None
    <2>3. PICK e \in Events \ {None, "error"} : Put(own[r], <<e, e>>)
      BY <1>2, <2>2 DEF EmitDownstream
    <2>4. told' \in [Runs -> 0..Len(Downstream)]
      <3>1. PICK v \in 0..Len(Downstream) : told' = [told EXCEPT ![r] = v]
        BY <1>2, <2>1 DEF EmitDownstream
      <3>2. QED
        BY <3>1 DEF Inv, TypeOK
    <2>5. QED
      BY <1>2, <2>3, <2>4, WriteInv DEF EmitDownstream
  <1>3. CASE RaiseAtStart(r)
    <2>1. <<"error", None>> = <<"error">> \o <<None>>
      OBVIOUS
    <2>2. QED
      BY <1>3, <2>1, EndInv DEF RaiseAtStart, Writing
  <1>4. CASE Unwind(r)
    BY <1>4, EndInv DEF Unwind, Writing
  <1>5. CASE FinishDownstream(r)
    <2>1. <<None>> = <<>> \o <<None>>
      OBVIOUS
    <2>2. QED
      BY <1>5, <2>1, EndInv DEF FinishDownstream, Writing
  <1>6. CASE Begin(r) \/ Succeed(r) \/ Fail(r)
    BY <1>6, OutcomeInv
  <1>7. QED
    BY <1>1, <1>2, <1>3, <1>4, <1>5, <1>6 DEF Advance

LEMMA NextInv == Inv /\ OneClient /\ [Next]_vars => Inv'
  <1> SUFFICES ASSUME Inv, OneClient, [Next]_vars PROVE Inv'
    OBVIOUS
  <1>1. CASE UNCHANGED vars
    BY <1>1 DEF vars, Inv, TypeOK, Ownership, OneLaunch, Logs, Verdicts, Cursors, Writing,
                Launching, Committing, Ended, Failed
  <1>2. CASE Next
    BY <1>2, RequestInv, RunInv, StreamInv, RestartInv DEF Next, Serve
  <1>3. QED
    BY <1>1, <1>2

-----------------------------------------------------------------------------

LEMMA SpecInv == ASSUME OneClient PROVE Spec => []Inv
  <1>1. Inv /\ [Next]_vars => Inv'
    BY NextInv
  <1>2. QED
    BY <1>1, InitInv, PTL DEF Spec

\* The errors of downstream stages: in no log of a run that has not completed.
Marks ==
    /\ \A r \in Runs : pc[r] \in {"running", "raised"} => ~Marred(own[r])
    /\ current # 0 /\ Ended(current) /\ ~Committing /\ Marred(current)
          => status = "completed"

\* What a run writes: an error of a stage only once it has completed.
LEMMA WriteMarks ==
    ASSUME Inv, Marks, NEW r \in Runs, Report(r) \/ Advance(r),
           ~(Begin(r) \/ Succeed(r) \/ Fail(r))
    PROVE  Marks'
  <1>1. PICK l \in 1..MaxLogs : l = own[r]
    <2>1. Writing(r)
      BY DEF Report, Advance, RaiseAtStart, Unwind, EmitDownstream, FinishDownstream, Writing
    <2>2. own[r] # 0 /\ own[r] \in 0..MaxLogs
      BY <2>1 DEF Inv, TypeOK, Ownership
    <2>3. QED
      BY <2>2, BoundsAssumption
  <1>2. /\ current \in 0..MaxLogs /\ own \in [Runs -> 0..MaxLogs]
        /\ pc \in [Runs -> {"free", "scheduled", "running", "raised", "downstream"}]
        /\ status' = status /\ current' = current /\ request' = request
    BY BoundsAssumption
       DEF Inv, TypeOK, Report, Advance, RaiseAtStart, Unwind, EmitDownstream, FinishDownstream, Over
  <1>3. \A q \in Runs : q # r => own[q] # l /\ (pc[q] \in {"running", "raised"} => own[q] \in 1..MaxLogs)
    BY <1>1, <1>2 DEF Inv, Ownership, Writing
  <1>4. /\ "stage" \in Events /\ "error" \in Events /\ None \in Events
        /\ "stage_error" \in Events
    BY DEF Events
  <1>5. CASE Report(r)
    <2>1. <<"stage">> \in Seq(Events) /\ Put(l, <<"stage">>)
      BY <1>1, <1>4, <1>5 DEF Report
    <2>2. \A j \in 1..Len(<<"stage">>) :
             <<"stage">>[j] # None /\ <<"stage">>[j] # "stage_error"
      BY DEF None
    <2>3. \A k \in 1..MaxLogs : (Ended(k)' <=> Ended(k)) /\ (Marred(k)' <=> Marred(k))
      BY <2>1, <2>2, PutTells DEF Inv
    <2>4. pc' = pc /\ own' = own
      BY <1>5 DEF Report, runs
    <2>5. QED
      BY <1>1, <1>2, <1>3, <2>3, <2>4 DEF Marks, Committing
  <1>6. CASE EmitDownstream(r)
    <2>1. PICK e \in Events \ {None} : Put(l, <<e, e>>)
      <3>1. told[r] + 1 \in 1..Len(Downstream)
        BY <1>6, StagesAssumption, LenProperties DEF EmitDownstream, Inv, TypeOK
      <3>2. /\ Downstream[told[r] + 1] \in STRING \ {"stage", "error", "stage_error", None}
            /\ Downstream[told[r] + 1] \in Events
        BY <3>1, StagesAssumption, ElementOfSeq DEF Stages, Events
      <3>3. "stage_error" # None
        BY DEF None
      <3>4. QED
        BY <1>1, <1>4, <1>6, <3>2, <3>3 DEF EmitDownstream
    <2>2. <<e, e>> \in Seq(Events) /\ \A j \in 1..Len(<<e, e>>) : <<e, e>>[j] # None
      OBVIOUS
    <2>3. /\ Ended(l)' <=> Ended(l)
          /\ \A k \in 1..MaxLogs : k # l => (Ended(k)' <=> Ended(k)) /\ (Marred(k)' <=> Marred(k))
      BY <2>1, <2>2, PutTells DEF Inv
    <2>4. pc' = pc /\ own' = own /\ pc[r] = "downstream" /\ ~Ended(l)
      BY <1>1, <1>6 DEF EmitDownstream, Inv, Logs, Writing
    <2>5. QED
      BY <1>1, <1>2, <1>3, <2>3, <2>4 DEF Marks, Committing
  <1>7. ASSUME NEW errors \in {<<>>, <<"error">>, <<"error", "error">>},
               Put(l, errors \o <<None>>), Over(r), Writing(r)
        PROVE  Marks'
    <2> DEFINE es == errors \o <<None>>
    <2>1. /\ errors \in Seq(Events) /\ <<None>> \in Seq(Events)
          /\ Len(errors) \in Nat /\ \A j \in 1..Len(errors) : errors[j] = "error"
      <3>1. /\ <<>> \in Seq(Events) /\ <<"error">> \in Seq(Events)
            /\ <<"error", "error">> \in Seq(Events) /\ <<None>> \in Seq(Events)
        BY <1>4
      <3>2. errors \in Seq(Events)
        BY <3>1
      <3>3. Len(errors) \in Nat /\ \A j \in 1..Len(errors) : errors[j] = "error"
        OBVIOUS
      <3>4. QED
        BY <3>1, <3>2, <3>3
    <2>2. es \in Seq(Events) /\ \A j \in 1..Len(es) : es[j] # "stage_error"
      <3>1. /\ es \in Seq(Events) /\ Len(es) = Len(errors) + 1
            /\ \A j \in 1..Len(errors) + 1 :
                  es[j] = IF j <= Len(errors) THEN errors[j] ELSE <<None>>[j - Len(errors)]
        BY <2>1, ConcatProperties
      <3>2. \A j \in 1..Len(errors) + 1 : j <= Len(errors) \/ j - Len(errors) = 1
        BY <2>1
      <3>3. <<None>>[1] # "stage_error"
        BY DEF None
      <3> HIDE DEF es
      <3>4. QED
        BY <2>1, <3>1, <3>2, <3>3
    <2> HIDE DEF es
    <2>3. /\ \A k \in 1..MaxLogs : Marred(k)' <=> Marred(k)
          /\ \A k \in 1..MaxLogs : k # l => (Ended(k)' <=> Ended(k))
      <3>1. Put(l, es)
        BY <1>7 DEF es
      <3>2. QED
        BY <2>2, <3>1, PutTells DEF Inv
    <2>4. /\ \A q \in Runs : q # r => pc'[q] = pc[q] /\ own'[q] = own[q]
          /\ pc'[r] = "free"
      BY <1>2, <1>7 DEF Over
    <2>5. ASSUME current = l, ~Committing, Marred(l)
          PROVE  status = "completed"
      BY <1>1, <1>7, <2>5 DEF Marks, Writing, Inv, Verdicts
    <2>6. QED
      BY <1>2, <1>3, <2>3, <2>4, <2>5 DEF Marks, Committing
  <1>8. CASE RaiseAtStart(r)
    <2>1. <<"error", None>> = <<"error">> \o <<None>>
      OBVIOUS
    <2>2. QED
      BY <1>1, <1>7, <1>8, <2>1 DEF RaiseAtStart, Writing
  <1>9. CASE Unwind(r)
    BY <1>1, <1>7, <1>9 DEF Unwind, Writing
  <1>10. CASE FinishDownstream(r)
    <2>1. <<None>> = <<>> \o <<None>>
      OBVIOUS
    <2>2. QED
      BY <1>1, <1>7, <1>10, <2>1 DEF FinishDownstream, Writing
  <1>11. QED
    BY <1>5, <1>6, <1>8, <1>9, <1>10 DEF Advance

\* What reads or replaces the logs writes into none of them.
LEMMA OthersMark ==
    ASSUME Inv, Inv', OneClient, Marks,
           \/ UNCHANGED vars \/ Restart
           \/ \E c \in Clients : Check(c) \/ Commit(c) \/ Register(c)
           \/ \E r \in Runs : Begin(r) \/ Succeed(r) \/ Fail(r)
           \/ \E x \in Readers : Open(x) \/ Read(x) \/ Close(x)
    PROVE  Marks'
  <1>1. log' = log
    BY DEF vars, Restart, Check, Commit, Register, Schedule, Begin, Succeed, Fail, Open,
           Read, Close
  <1>2. \A l : (Ended(l)' <=> Ended(l)) /\ (Marred(l)' <=> Marred(l))
    BY <1>1 DEF Ended, Marred
  <1>3. \A l \in 1..MaxLogs : log[l] = <<>> => ~Ended(l) /\ ~Marred(l)
    BY DEF Ended, Marred
  <1>4. /\ current \in 0..MaxLogs /\ made \in 0..MaxLogs /\ own \in [Runs -> 0..MaxLogs]
        /\ pc \in [Runs -> {"free", "scheduled", "running", "raised", "downstream"}]
        /\ request \in [Clients -> {"idle", "admitted", "committed"}]
    BY BoundsAssumption DEF Inv, TypeOK
  <1>5. NewLog => current' # 0 /\ ~Ended(current')
    <2>1. NewLog => made + 1 \in 1..MaxLogs /\ log[made + 1] = <<>>
      BY <1>4, BoundsAssumption DEF NewLog, Inv, Logs
    <2>2. QED
      BY <1>3, <1>4, <2>1 DEF NewLog
  <1>6. CASE UNCHANGED vars
    BY <1>2, <1>6 DEF vars, Marks, Committing
  <1>7. CASE Restart
    BY <1>7 DEF Restart, Marks
  <1>8. ASSUME NEW c \in Clients, Check(c) \/ Commit(c) \/ Register(c)
        PROVE  Marks'
    <2>1. CASE Check(c)
      BY <1>2, <1>4, <2>1 DEF Check, runs, Marks, Committing
    <2>2. CASE Commit(c)
      <3>1. Committing'
        BY <1>4, <2>2 DEF Commit, Committing
      <3>2. QED
        BY <1>2, <2>2, <3>1 DEF Commit, runs, Marks
    <2>3. CASE Register(c)
      <3>1. \A q \in Runs : pc'[q] \in {"running", "raised"} => pc'[q] = pc[q] /\ own'[q] = own[q]
        BY <1>4, <2>3 DEF Register, Schedule
      <3>2. ~Ended(current')
        BY <1>5, <2>3 DEF Register
      <3>3. QED
        BY <1>1, <1>2, <3>1, <3>2 DEF Marks, Ended, Marred
    <2>4. QED
      BY <1>8, <2>1, <2>2, <2>3
  <1>9. ASSUME NEW r \in Runs, Begin(r) \/ Succeed(r) \/ Fail(r)
        PROVE  Marks'
    <2>1. CASE Begin(r)
      <3>1. current \in 1..MaxLogs /\ current' = current /\ log[current] = <<>>
        BY <1>4, <2>1 DEF Begin, Inv, OneLaunch, Launching, Logs
      <3>2. ~Ended(current) /\ ~Marred(current)
        BY <1>3, <3>1
      <3>3. /\ \A q \in Runs : q # r => pc'[q] = pc[q] /\ own'[q] = own[q]
            /\ own'[r] = current
        BY <1>4, <2>1, <3>1 DEF Begin
      <3>4. QED
        BY <1>1, <1>2, <3>1, <3>2, <3>3 DEF Marks, Ended, Marred
    <2>2. CASE Succeed(r) \/ Fail(r)
      <3>1. /\ own' = own /\ current' = current /\ pc[r] = "running"
            /\ \A q \in Runs : q # r => pc'[q] = pc[q]
        BY <1>4, <2>2 DEF Succeed, Fail
      <3>2. own[r] = current /\ ~Ended(current) /\ ~Marred(own[r])
        BY <3>1 DEF Inv, Logs, Writing, Marks
      <3>3. QED
        BY <1>2, <3>1, <3>2 DEF Marks
    <2>3. QED
      BY <1>9, <2>1, <2>2
  <1>10. ASSUME NEW x \in Readers, Open(x) \/ Read(x) \/ Close(x)
         PROVE  Marks'
    <2>1. status' = status /\ request' = request /\ pc' = pc /\ own' = own
      BY <1>10 DEF Open, Read, Close, runs
    <2>2. current' = current \/ NewLog
      BY <1>10 DEF Open, Read, Close
    <2>3. QED
      BY <1>1, <1>2, <1>5, <2>1, <2>2 DEF Marks, Committing, Ended, Marred
  <1>11. QED
    BY <1>6, <1>7, <1>8, <1>9, <1>10

LEMMA SpecMarks == ASSUME OneClient PROVE Spec => []Marks
  <1>1. Init => Marks
    BY DEF Init, Marks
  <1>2. Inv /\ Inv' /\ Marks /\ [Next]_vars => Marks'
    BY WriteMarks, OthersMark DEF Next, Serve, Advance
  <1>3. QED
    BY <1>1, <1>2, SpecInv, PTL DEF Spec

\* When requests come one at a time, a stream told "complete" has been sent all
\* its log will ever hold, whatever runs, other streams and restarts do.
THEOREM NothingFollowsComplete == ASSUME OneClient PROVE Spec => []CompleteIsLast
  <1>1. Inv => CompleteIsLast
    <2> SUFFICES ASSUME Inv, NEW x \in Readers, reader[x] = "complete", source[x] # 0
                 PROVE  /\ position[x] = Len(log[source[x]])
                        /\ \A r \in Runs : own[r] # source[x]
      BY DEF CompleteIsLast
    <2>1. Ended(source[x]) /\ position[x] = Len(log[source[x]])
      BY DEF Inv, Cursors
    <2>2. QED
      BY <2>1 DEF Inv, Ownership, Logs
  <1>2. QED
    BY <1>1, SpecInv, PTL

\* When requests come one at a time, a stream opened after a run replays an
\* error of the pipeline exactly when the database does not say the run
\* completed, and errors of downstream stages only when it does.
THEOREM LogAgreesWithStatus == ASSUME OneClient PROVE Spec => []LastWordMatchesStatus
  <1>1. Inv /\ Marks => LastWordMatchesStatus
    BY DEF Inv, Verdicts, Marks, LastWordMatchesStatus, Committing, Failed, Marred
  <1>2. QED
    BY <1>1, SpecInv, SpecMarks, PTL

-----------------------------------------------------------------------------

\* The types hold however many requests come at once.
LEMMA NextTypeOK == TypeOK /\ [Next]_vars => TypeOK'
  <1> SUFFICES ASSUME TypeOK, [Next]_vars PROVE TypeOK'
    OBVIOUS
  <1>0. Len(Downstream) \in Nat /\ MaxLogs \in Nat
    BY StagesAssumption, LenProperties, BoundsAssumption
  <1>1. ASSUME NewLog PROVE made' \in 0..MaxLogs /\ current' \in 0..made'
    BY <1>0, <1>1 DEF NewLog, TypeOK
  <1>2. ASSUME NEW l \in 0..MaxLogs, NEW es \in Seq(Events), Put(l, es)
        PROVE  log' \in [1..MaxLogs -> Seq(Events)]
    <2>1. ASSUME NEW k \in 1..MaxLogs PROVE log[k] \o es \in Seq(Events)
      BY ConcatProperties DEF TypeOK
    <2>2. QED
      BY <1>2, <2>1 DEF Put, TypeOK
  <1>3. ASSUME NEW c \in Clients, Check(c) \/ Commit(c) PROVE TypeOK'
    BY <1>3 DEF Check, Commit, TypeOK, runs, streams
  <1>4. ASSUME NEW c \in Clients, Register(c) PROVE TypeOK'
    BY <1>1, <1>4 DEF Register, Schedule, TypeOK, streams
  <1>5. ASSUME NEW r \in Runs, Begin(r) PROVE TypeOK'
    <2>1. made' \in 0..MaxLogs /\ current' \in 0..made'
      BY <1>1, <1>5 DEF Begin, TypeOK
    <2>2. current' \in 0..MaxLogs
      BY <1>0, <2>1
    <2>3. QED
      BY <1>5, <2>1, <2>2 DEF Begin, TypeOK, streams
  <1>6. ASSUME NEW r \in Runs, Succeed(r) \/ Fail(r) PROVE TypeOK'
    BY <1>6 DEF Succeed, Fail, TypeOK, streams
  <1>7. ASSUME NEW r \in Runs, Report(r) PROVE TypeOK'
    <2>1. log' \in [1..MaxLogs -> Seq(Events)]
      BY <1>2, <1>7, <<"stage">> \in Seq(Events) DEF Report, TypeOK, Events
    <2>2. QED
      BY <1>7, <2>1 DEF Report, TypeOK, runs, streams
  <1>8. ASSUME NEW r \in Runs, EmitDownstream(r) PROVE TypeOK'
    <2>1. told[r] + 1 \in 1..Len(Downstream)
      BY <1>0, <1>8 DEF EmitDownstream, TypeOK
    <2>2. Downstream[told[r] + 1] \in Events
      BY <2>1 DEF Stages, Events
    <2>3. /\ <<Downstream[told[r] + 1], Downstream[told[r] + 1]>> \in Seq(Events)
          /\ <<"stage_error", "stage_error">> \in Seq(Events)
      BY <2>2 DEF Events
    <2>4. log' \in [1..MaxLogs -> Seq(Events)]
      BY <1>2, <1>8, <2>3 DEF EmitDownstream, TypeOK
    <2>5. told' \in [Runs -> 0..Len(Downstream)]
      BY <1>0, <1>8, <2>1 DEF EmitDownstream, TypeOK
    <2>6. QED
      BY <1>8, <2>4, <2>5 DEF EmitDownstream, TypeOK, streams
  <1>9. ASSUME NEW r \in Runs, NEW errors \in {<<>>, <<"error">>, <<"error", "error">>},
               Put(own[r], errors \o <<None>>), Over(r), UNCHANGED status
        PROVE  TypeOK'
    <2>1. errors \o <<None>> \in Seq(Events)
      <3>1. "error" \in Events /\ None \in Events
        BY DEF Events
      <3>2. <<>> \in Seq(Events) /\ <<"error">> \in Seq(Events) /\ <<"error", "error">> \in Seq(Events)
        BY <3>1
      <3>3. <<None>> \in Seq(Events)
        BY <3>1
      <3>4. errors \in Seq(Events)
        BY <1>9, <3>2
      <3>5. QED
        BY <3>3, <3>4, ConcatProperties
    <2>2. log' \in [1..MaxLogs -> Seq(Events)]
      BY <1>2, <1>9, <2>1 DEF TypeOK
    <2>3. /\ pc' \in [Runs -> {"free", "scheduled", "running", "raised", "downstream"}]
          /\ own' \in [Runs -> 0..MaxLogs]
          /\ told' \in [Runs -> 0..Len(Downstream)]
      BY <1>0, <1>9 DEF Over, TypeOK
    <2>4. QED
      BY <1>9, <2>2, <2>3 DEF Over, TypeOK, streams
  <1>10. ASSUME NEW r \in Runs, RaiseAtStart(r) \/ Unwind(r) \/ FinishDownstream(r)
         PROVE  TypeOK'
    <2>1. <<"error", None>> = <<"error">> \o <<None>> /\ <<None>> = <<>> \o <<None>>
      OBVIOUS
    <2>2. QED
      BY <1>9, <1>10, <2>1 DEF RaiseAtStart, Unwind, FinishDownstream
  <1>11. ASSUME NEW x \in Readers, Open(x) PROVE TypeOK'
    <2>1. made' \in 0..MaxLogs /\ current' \in 0..made'
      BY <1>1, <1>11 DEF Open, TypeOK
    <2>2. current \in 0..MaxLogs /\ (made < MaxLogs => made + 1 \in 0..MaxLogs)
      BY <1>0 DEF TypeOK
    <2>3. source' \in [Readers -> 0..MaxLogs]
      <3>1. \/ source' = [source EXCEPT ![x] = current]
            \/ source' = [source EXCEPT ![x] = 0]
            \/ source' = [source EXCEPT ![x] = made + 1] /\ made < MaxLogs
        BY <1>11 DEF Open, NewLog
      <3>2. source \in [Readers -> 0..MaxLogs] /\ 0 \in 0..MaxLogs
        BY <1>0 DEF TypeOK
      <3>3. QED
        BY <2>2, <3>1, <3>2
    <2>4. /\ reader' \in [Readers -> {"closed", "open", "complete"}]
          /\ position' \in [Readers -> Nat]
      BY <1>11 DEF Open, TypeOK
    <2>5. QED
      BY <1>11, <2>1, <2>3, <2>4 DEF Open, TypeOK, runs
  <1>12. ASSUME NEW x \in Readers, Read(x) \/ Close(x) PROVE TypeOK'
    <2>1. CASE Read(x)
      BY <2>1 DEF Read, TypeOK, runs
    <2>2. CASE Close(x)
      BY <1>0, <2>2 DEF Close, TypeOK, runs
    <2>3. QED
      BY <1>12, <2>1, <2>2
  <1>13. CASE Restart
    BY <1>0, <1>13 DEF Restart, TypeOK
  <1>14. CASE UNCHANGED vars
    BY <1>14 DEF vars, TypeOK
  <1>15. QED
    BY <1>3, <1>4, <1>5, <1>6, <1>7, <1>8, <1>10, <1>11, <1>12, <1>13, <1>14
    DEF Next, Serve, Advance

\* The registry, its logs, its runs and its streams keep their types, however
\* many requests, runs and streams there are.
THEOREM TypeCorrect == Spec => []TypeOK
  <1>1. Init => TypeOK
    BY InitInv DEF Inv
  <1>2. QED
    BY <1>1, NextTypeOK, PTL DEF Spec

-----------------------------------------------------------------------------
(***************************************************************************)
(* One log and its connections: the types, the two safety invariants of    *)
(* EventLog, and that it implements the abstract replay stream, for any    *)
(* set of connections, any events and any bound.                           *)
(*                                                                         *)
(* That one told "complete" has read the whole log needs that nothing      *)
(* follows the sentinel, and that its replay is exact needs that its index *)
(* never runs past the log; LogInv says so too.                            *)
(***************************************************************************)

\* The sentinel, when there, is the last entry of the log.
SentinelIsLast ==
    \A i \in 1..Len(events) : events[i] = Sentinel => i = Len(events)

\* No index runs past the end of the log, and only waiting readers wait.
LogCursors ==
    \A r \in Connections :
        /\ index[r] <= Len(events)
        /\ r \in waiters => generator[r] = "waiting"

\* A reader is complete exactly when it has passed the sentinel.
PastSentinel ==
    \A r \in Connections :
        /\ generator[r] = "complete" => RunEnded
        /\ generator[r] # "complete" => \A i \in 1..index[r] : events[i] # Sentinel

LogInv ==
    /\ LogTypeOK
    /\ SentinelIsLast
    /\ LogCursors
    /\ PastSentinel
    /\ NoLostWakeup
    /\ DeliveredIsReplay

-----------------------------------------------------------------------------

LEMMA AppendFacts ==
    ASSUME NEW S, NEW s \in Seq(S), NEW e \in S
    PROVE  /\ Append(s, e) \in Seq(S)
           /\ Len(Append(s, e)) = Len(s) + 1
           /\ \A i \in 1..Len(s) : Append(s, e)[i] = s[i]
           /\ Append(s, e)[Len(s) + 1] = e
  OBVIOUS

LEMMA LogInitInv == LogInit => LogInv
  <1> SUFFICES ASSUME LogInit PROVE LogInv
    OBVIOUS
  <1>1. events = <<>> /\ Len(events) = 0 /\ waiters = {}
    BY DEF LogInit
  <1>2. LogTypeOK
    BY <<>> \in Seq(Reported), <<>> \in Seq(Reported \cup {Sentinel}) DEF LogInit, LogTypeOK
  <1>3. \A r \in Connections : generator[r] = "closed" /\ index[r] = 0 /\ received[r] = <<>>
    BY DEF LogInit
  <1>4. QED
    BY <1>1, <1>2, <1>3 DEF LogInv, SentinelIsLast, LogCursors, PastSentinel,
       NoLostWakeup, DeliveredIsReplay

\* Appending an event of the run, or its sentinel, to a log that has not ended.
LEMMA AppendInv ==
    ASSUME LogInv, ~RunEnded, NEW e \in Reported \cup {Sentinel}, AppendEvent(e)
    PROVE  LogInv'
  <1>1. /\ events \in Seq(Reported \cup {Sentinel})
        /\ events' = Append(events, e)
        /\ waiters' = {} /\ notify' = TRUE
        /\ generator' = generator /\ index' = index /\ received' = received
    BY DEF AppendEvent, LogInv, LogTypeOK
  <1>2. /\ events' \in Seq(Reported \cup {Sentinel})
        /\ Len(events) \in Nat
        /\ Len(events') = Len(events) + 1
        /\ \A i \in 1..Len(events) : events'[i] = events[i]
    BY <1>1, AppendFacts
  <1>3. LogTypeOK'
    BY <1>1, <1>2 DEF LogInv, LogTypeOK
  <1>4. SentinelIsLast'
    BY <1>1, <1>2 DEF SentinelIsLast, RunEnded
  <1>5. LogCursors'
    BY <1>1, <1>2 DEF LogInv, LogCursors, LogTypeOK
  <1>6. PastSentinel'
    <2> SUFFICES ASSUME NEW r \in Connections
                 PROVE  /\ generator[r] # "complete"
                        /\ \A i \in 1..index[r] : events'[i] # Sentinel
      BY <1>1 DEF PastSentinel
    <2>1. generator[r] # "complete" /\ index[r] <= Len(events) /\ index[r] \in Nat
      BY DEF LogInv, PastSentinel, LogCursors, LogTypeOK
    <2>2. QED
      BY <1>2, <2>1 DEF LogInv, PastSentinel
  <1>7. NoLostWakeup'
    BY <1>1 DEF NoLostWakeup
  <1>8. DeliveredIsReplay'
    <2> SUFFICES ASSUME NEW r \in Connections
                 PROVE  /\ generator[r] # "complete"
                        /\ Len(received[r]) = index[r]
                        /\ \A i \in 1..Len(received[r]) :
                              i <= Len(events') /\ received[r][i] = events'[i]
      BY <1>1 DEF DeliveredIsReplay
    <2>1. generator[r] # "complete"
      BY DEF LogInv, PastSentinel
    <2>2. QED
      BY <1>1, <1>2, <2>1 DEF LogInv, DeliveredIsReplay, LogTypeOK
  <1>9. QED
    BY <1>3, <1>4, <1>5, <1>6, <1>7, <1>8 DEF LogInv

\* Every other action leaves the log alone.  What a reader does to its own
\* index and to what it received has to be shown for the reader that moves
\* only; the others are as they were.
LEMMA ReaderInv ==
    ASSUME LogInv, NEW r \in Connections,
           Connect(r) \/ Disconnect(r) \/ Consume(r) \/ KeepAlive(r)
    PROVE  LogInv'
  <1> USE DEF LogInv
  <1>0. /\ events' = events
        /\ Len(events) \in Nat
        /\ index \in [Connections -> Nat]
        /\ received \in [Connections -> Seq(Reported)]
        /\ \A q \in Connections : received[q] \in Seq(Reported) /\ Len(received[q]) \in Nat
    BY DEF Connect, Disconnect, Consume, YieldEvent, YieldComplete, Wait, Wake,
           KeepAlive, LogTypeOK
  <1>1. SentinelIsLast'
    BY <1>0 DEF SentinelIsLast
  <1>2. RunEnded' = RunEnded
    BY <1>0 DEF RunEnded
  <1>3. CASE Connect(r)
    <2>1. LogTypeOK'
      BY <1>0, <1>3, <<>> \in Seq(Reported) DEF Connect, LogTypeOK
    <2>2. LogCursors' /\ PastSentinel' /\ NoLostWakeup' /\ DeliveredIsReplay'
      BY <1>0, <1>2, <1>3, Len(<<>>) = 0
      DEF Connect, LogTypeOK, LogCursors, PastSentinel, NoLostWakeup, DeliveredIsReplay
    <2>3. QED
      BY <1>1, <2>1, <2>2
  <1>4. CASE Disconnect(r)
    <2>1. LogTypeOK' /\ LogCursors' /\ NoLostWakeup'
      BY <1>0, <1>4 DEF Disconnect, LogTypeOK, LogCursors, NoLostWakeup
    <2>2. /\ events' = events /\ index' = index /\ received' = received
          /\ \A y \in Connections : y # r => generator'[y] = generator[y]
          /\ generator[r] \in {"reading", "waiting"} /\ generator'[r] = "closed"
      BY <1>0, <1>4 DEF Disconnect, LogTypeOK
    <2>3. PastSentinel'
      BY <1>2, <2>2 DEF PastSentinel
    <2>4. DeliveredIsReplay'
      BY <1>2, <2>2 DEF DeliveredIsReplay
    <2>5. QED
      BY <1>1, <2>1, <2>3, <2>4
  <1>5. CASE YieldEvent(r)
    <2> DEFINE e == events[index[r] + 1]
    <2>1. /\ e \in Reported
          /\ index[r] + 1 \in 1..Len(events)
          /\ r \notin waiters
          /\ generator[r] = "reading" /\ generator' = generator /\ waiters' = waiters /\ notify' = notify
          /\ index' = [index EXCEPT ![r] = @ + 1]
          /\ received' = [received EXCEPT ![r] = Append(@, e)]
      BY <1>0, <1>5 DEF YieldEvent, LogTypeOK, LogCursors
    <2> HIDE DEF e
    <2>2. /\ Append(received[r], e) \in Seq(Reported)
          /\ Len(Append(received[r], e)) = Len(received[r]) + 1
          /\ \A i \in 1..Len(received[r]) : Append(received[r], e)[i] = received[r][i]
          /\ Append(received[r], e)[Len(received[r]) + 1] = e
      BY <1>0, <2>1, AppendFacts
    <2>3. LogTypeOK'
      BY <1>0, <2>1, <2>2 DEF LogTypeOK
    <2>4. LogCursors' /\ NoLostWakeup'
      BY <1>0, <2>1 DEF LogCursors, NoLostWakeup
    <2>5. PastSentinel'
      <3>1. ASSUME NEW i \in 1..(index[r] + 1) PROVE events[i] # Sentinel
        <4>1. CASE i = index[r] + 1
          BY <1>5, <4>1 DEF YieldEvent
        <4>2. CASE i # index[r] + 1
          BY <1>0, <2>1, <4>2 DEF PastSentinel
        <4>3. QED
          BY <4>1, <4>2
      <3>2. QED
        BY <1>0, <1>2, <2>1, <3>1 DEF PastSentinel
    <2>6. DeliveredIsReplay'
      <3>1. Len(received[r]) = index[r]
        BY <2>1 DEF DeliveredIsReplay
      <3>2. /\ Len(received'[r]) = index'[r]
            /\ \A i \in 1..Len(received'[r]) :
                  i <= Len(events) /\ received'[r][i] = events[i]
        BY <1>0, <2>1, <2>2, <3>1 DEF DeliveredIsReplay, e
      <3>3. QED
        BY <1>0, <2>1, <3>2 DEF DeliveredIsReplay
    <2>7. QED
      BY <1>1, <2>3, <2>4, <2>5, <2>6
  <1>6. CASE YieldComplete(r)
    <2>1. index[r] + 1 = Len(events) /\ RunEnded /\ r \notin waiters
      BY <1>0, <1>6 DEF YieldComplete, SentinelIsLast, RunEnded, LogCursors
    <2>2. LogTypeOK' /\ LogCursors' /\ NoLostWakeup'
      BY <1>0, <1>6, <2>1 DEF YieldComplete, LogTypeOK, LogCursors, NoLostWakeup
    <2>3. /\ received' = received /\ index'[r] = index[r] + 1 /\ generator'[r] = "complete"
          /\ \A y \in Connections : y # r => generator'[y] = generator[y] /\ index'[y] = index[y]
      BY <1>0, <1>6 DEF YieldComplete, LogTypeOK
    <2>4. PastSentinel'
      BY <1>0, <1>2, <2>1, <2>3 DEF PastSentinel
    <2>5. DeliveredIsReplay'
      <3>1. generator[r] = "reading" /\ events' = events
        BY <1>6 DEF YieldComplete
      <3>2. Len(received[r]) = index[r]
        BY <1>0, <3>1 DEF DeliveredIsReplay
      <3>3. QED
        BY <1>0, <2>1, <2>3, <3>1, <3>2 DEF DeliveredIsReplay
    <2>6. QED
      BY <1>1, <2>2, <2>4, <2>5
  <1>7. CASE Wait(r)
    <2>1. LogTypeOK' /\ LogCursors' /\ NoLostWakeup'
      BY <1>0, <1>7 DEF Wait, LogTypeOK, LogCursors, NoLostWakeup
    <2>2. /\ events' = events /\ index' = index /\ received' = received
          /\ \A y \in Connections : y # r => generator'[y] = generator[y]
          /\ generator[r] \in {"reading", "waiting"} /\ generator'[r] \in {"reading", "waiting"}
      BY <1>0, <1>7 DEF Wait, LogTypeOK
    <2>3. PastSentinel'
      BY <1>2, <2>2 DEF PastSentinel
    <2>4. DeliveredIsReplay'
      BY <1>2, <2>2 DEF DeliveredIsReplay
    <2>5. QED
      BY <1>1, <2>1, <2>3, <2>4
  <1>8. CASE Wake(r) \/ KeepAlive(r)
    <2>1. LogTypeOK' /\ LogCursors' /\ NoLostWakeup'
      BY <1>0, <1>8 DEF Wake, KeepAlive, LogTypeOK, LogCursors, NoLostWakeup
    <2>2. /\ events' = events /\ index' = index /\ received' = received
          /\ \A y \in Connections : y # r => generator'[y] = generator[y]
          /\ generator[r] \in {"reading", "waiting"} /\ generator'[r] \in {"reading", "waiting"}
      BY <1>0, <1>8 DEF Wake, KeepAlive, LogTypeOK
    <2>3. PastSentinel'
      BY <1>2, <2>2 DEF PastSentinel
    <2>4. DeliveredIsReplay'
      BY <1>2, <2>2 DEF DeliveredIsReplay
    <2>5. QED
      BY <1>1, <2>1, <2>3, <2>4
  <1>9. QED
    BY <1>3, <1>4, <1>5, <1>6, <1>7, <1>8 DEF Consume

LEMMA LogNextInv == LogInv /\ [LogNext]_logVars => LogInv'
  <1> SUFFICES ASSUME LogInv, [LogNext]_logVars PROVE LogInv'
    OBVIOUS
  <1>1. CASE ReportEvent
    BY <1>1, AppendInv DEF ReportEvent
  <1>2. CASE Finish
    BY <1>2, AppendInv DEF Finish
  <1>3. ASSUME NEW r \in Connections,
               Connect(r) \/ Disconnect(r) \/ Consume(r) \/ KeepAlive(r)
        PROVE  LogInv'
    BY <1>3, ReaderInv
  <1>4. CASE UNCHANGED logVars
    BY <1>4 DEF logVars, LogInv, LogTypeOK, SentinelIsLast, LogCursors, PastSentinel, RunEnded,
                NoLostWakeup, DeliveredIsReplay
  <1>5. QED
    BY <1>1, <1>2, <1>3, <1>4 DEF LogNext

LEMMA LogSpecInv == LogSpec => []LogInv
  BY LogInitInv, LogNextInv, PTL DEF LogSpec

-----------------------------------------------------------------------------

\* The log, its flag, and every connection keep their types, whatever the
\* number of readers and the length of the run.
THEOREM LogTypesCorrect == LogSpec => []LogTypeOK
  <1>1. LogInv => LogTypeOK
    BY DEF LogInv
  <1>2. QED
    BY <1>1, LogSpecInv, PTL

\* No reader is ever left waiting while the log holds something it has not
\* read, although every reader clears the one flag they share.
THEOREM WakeupsAreNotLost == LogSpec => []NoLostWakeup
  <1>1. LogInv => NoLostWakeup
    BY DEF LogInv
  <1>2. QED
    BY <1>1, LogSpecInv, PTL

\* Every connection is sent exactly the log, from its first event on.
THEOREM EveryStreamIsAReplay == LogSpec => []DeliveredIsReplay
  <1>1. LogInv => DeliveredIsReplay
    BY DEF LogInv
  <1>2. QED
    BY <1>1, LogSpecInv, PTL

-----------------------------------------------------------------------------

\* The readers' states as the abstract stream sees them.
Shown == [r \in Connections |->
            CASE generator[r] = "closed" -> "closed"
              [] generator[r] = "complete" -> "complete"
              [] OTHER -> "open"]

LEMMA StepRefines ==
    ASSUME LogInv, [LogNext]_logVars
    PROVE  [Abstract!Next]_<<events, index, Shown>>
  <1> USE DEF LogInv
  <1>1. ASSUME NEW e \in Reported \cup {Sentinel}, AppendEvent(e)
        PROVE  Abstract!Publish
    BY <1>1 DEF AppendEvent, Abstract!Publish
  <1>2. ASSUME NEW r \in Connections, Connect(r)
        PROVE  Abstract!Open(r)
    BY <1>2 DEF Connect, Abstract!Open, LogTypeOK
  <1>3. ASSUME NEW r \in Connections, Disconnect(r)
        PROVE  Abstract!Close(r)
    BY <1>3 DEF Disconnect, Abstract!Close, LogTypeOK
  <1>4. ASSUME NEW r \in Connections, YieldEvent(r) \/ YieldComplete(r)
        PROVE  Abstract!Read(r)
    BY <1>4 DEF YieldEvent, YieldComplete, Abstract!Read, LogTypeOK
  <1>5. ASSUME NEW r \in Connections, Wait(r) \/ Wake(r) \/ KeepAlive(r)
        PROVE  UNCHANGED <<events, index, Shown>>
    BY <1>5 DEF Wait, Wake, KeepAlive, Shown, LogTypeOK
  <1>6. CASE UNCHANGED logVars
    BY <1>6 DEF logVars, Shown
  <1>7. QED
    BY <1>1, <1>2, <1>3, <1>4, <1>5, <1>6
    DEF LogNext, ReportEvent, Finish, Consume, Abstract!Next

\* The event log implements the replay stream: whoever connects, whenever, is
\* given the history from its first event, one event at a time.
THEOREM LogImplementsReplay == LogSpec => ImplementsReplay
  <1>1. LogInit => Abstract!Init
    BY DEF LogInit, Abstract!Init
  <1>2. LogInv /\ [LogNext]_logVars => [Abstract!Next]_Abstract!vars
    BY StepRefines DEF Shown, Abstract!vars
  <1>3. QED
    BY <1>1, <1>2, LogSpecInv, PTL DEF LogSpec, ImplementsReplay, Abstract!Spec
=============================================================================
