------------------------------ MODULE LiveApi ------------------------------
(***************************************************************************)
(* The live API's shared state (src/src/api.rs): LiveApiHandle's core      *)
(* behind a RwLock, the bounded delta log behind a Mutex, the content      *)
(* backend, and the threads that use them: the pipeline, which publishes   *)
(* events, statistics, queue figures and the end of the run; front ends    *)
(* (src/src/frontend/app.js), each of which polls the delta log and the    *)
(* health endpoint in a loop; and users, who edit streams and hide rules.  *)
(*                                                                         *)
(* One step is one critical section, except where the code takes a second  *)
(* contended lock inside: health() holds the core lock for reading while   *)
(* it waits for the delta log, delta_response() holds the delta log while  *)
(* it waits for the core.  The content lock is never held while another is *)
(* awaited, so its sections are part of the steps they occur in.  The core *)
(* lock is std::sync::RwLock, whose readers queue behind a waiting writer. *)
(*                                                                         *)
(* Abstractions: a row is the number of pipeline updates it has seen and   *)
(* its favorite flag; statistics and queue figures are deltas without a    *)
(* body; eviction from the view, filters and pages are left out.  The      *)
(* 100 ms throttle of queue deltas is a choice.                            *)
(***************************************************************************)
EXTENDS Integers, Sequences, FiniteSets

CONSTANTS
    Pipeline,       \* the coordinator thread of the run
    Clients,        \* front ends
    Users,          \* other requests: edits of streams and rules
    Streams,
    Capacity,       \* api_delta_capacity
    Limit,          \* deltas per response
    MaxBatches,     \* bound: publish_events calls
    MaxCalls,       \* bound: all publish_* calls of the pipeline
    MaxEdits        \* bound: edits by users

Threads == {Pipeline} \cup Clients \cup Users

ASSUME LiveApiAssumption ==
    /\ Pipeline \notin Clients \cup Users /\ Clients \cap Users = {}
    /\ Capacity \in Nat \ {0} /\ Limit \in Nat \ {0}
    /\ MaxBatches \in Nat /\ MaxCalls \in Nat /\ MaxEdits \in Nat

VARIABLES
    core,           \* LiveApiCore: the rows, run_status
    backend,        \* LiveContentBackend
    log,            \* LiveDeltaLog
    pc,             \* where each thread is
    call,           \* what a writing thread was asked to do
    deltas,         \* the deltas it will append
    cursor,         \* app.js state.deltaCursor
    rows,           \* app.js state.streams
    reply,          \* the poll response a front end is working on
    batches, calls, edits,      \* counters for the bounds
    pushed,         \* history: every payload appended to the log
    got,            \* history: every delta a front end was sent
    lost,           \* history: up to where it was told that deltas are missing
    raced           \* history: streams changed while an older row awaited its append

pipelineVars == <<batches, calls>>
clientVars == <<cursor, rows, reply, got, lost>>
vars == <<core, backend, log, pc, call, deltas, cursor, rows, reply,
          batches, calls, edits, pushed, got, lost, raced>>

NoRow == [updates |-> 0, favorite |-> FALSE]
NoCall == [kind |-> "none"]
NoReply == [held |-> {}, run_status |-> "Running"]

Init ==
    /\ core = [view |-> [s \in Streams |-> NoRow], run_status |-> "Running"]
    /\ backend = "None"
    /\ log = [entries |-> <<>>, next_cursor |-> 1, dropped_before |-> 0]
    /\ pc = [t \in Threads |-> IF t = Pipeline THEN "attach"
                               ELSE IF t \in Clients THEN "reload" ELSE "idle"]
    /\ call = [t \in Threads |-> NoCall]
    /\ deltas = [t \in Threads |-> <<>>]
    /\ cursor = [c \in Clients |-> 0]
    /\ rows = [c \in Clients |-> [s \in Streams |-> NoRow]]
    /\ reply = [c \in Clients |-> NoReply]
    /\ batches = 0 /\ calls = 0 /\ edits = 0
    /\ pushed = <<>>
    /\ got = [c \in Clients |-> {}]
    /\ lost = [c \in Clients |-> 0]
    /\ raced = {}

Tracked(view, s) == view[s].updates > 0

-----------------------------------------------------------------------------
(* The locks, told by where the threads are.                                  *)

CoreReaders == {t \in Threads : pc[t] = "healthDeltas"}     \* across a step
WriterWaits == \E t \in Threads : pc[t] = "write"
CoreReadable == ~ WriterWaits
CoreWritable == CoreReaders = {}
DeltasFree == \A t \in Threads : pc[t] \notin {"pollCore", "againCore"}

Goto(t, place) == pc' = [pc EXCEPT ![t] = place]

-----------------------------------------------------------------------------
(* LiveDeltaLog.                                                              *)

LatestCursor == log.next_cursor - 1

\* Mutant: what is gone is reported one delta short.
PushShort(lg, payloads) ==
    LET added == [i \in 1 .. Len(payloads) |->
                    [cursor |-> lg.next_cursor + i - 1, payload |-> payloads[i]]]
        all == lg.entries \o added
        excess == IF Len(all) > Capacity THEN Len(all) - Capacity ELSE 0
    IN  [entries |-> SubSeq(all, excess + 1, Len(all)),
         next_cursor |-> lg.next_cursor + Len(payloads),
         dropped_before |-> IF excess > 0 THEN all[excess].cursor - 1 ELSE lg.dropped_before]

\* push of several payloads one after the other: the oldest entries go.
Push(lg, payloads) ==
    LET added == [i \in 1 .. Len(payloads) |->
                    [cursor |-> lg.next_cursor + i - 1, payload |-> payloads[i]]]
        all == lg.entries \o added
        excess == IF Len(all) > Capacity THEN Len(all) - Capacity ELSE 0
    IN  [entries |-> SubSeq(all, excess + 1, Len(all)),
         next_cursor |-> lg.next_cursor + Len(payloads),
         dropped_before |-> IF excess > 0 THEN all[excess].cursor ELSE lg.dropped_before]

Floor(c) == IF c < log.dropped_before THEN log.dropped_before ELSE c

\* The first Limit entries beyond the cursor.
Taken(c) ==
    LET newer == {i \in DOMAIN log.entries : log.entries[i].cursor > Floor(c)}
    IN  {log.entries[i] : i \in {j \in newer : Cardinality({k \in newer : k <= j}) <= Limit}}

\* Mutant: the client is told to go on from where it was.
LastCursorKept(taken, floor) == floor

LastCursor(taken, floor) ==
    IF taken = {} THEN floor ELSE CHOOSE n \in {d.cursor : d \in taken} : \A d \in taken : d.cursor <= n

\* Mutant: a gap of one delta is not reported.
ResponseForgiving(c) ==
    [taken |-> Taken(c), next |-> LastCursor(Taken(c), Floor(c)),
     missed |-> c + 1 < log.dropped_before, run_status |-> core.run_status]

Response(c) ==
    [taken |-> Taken(c), next |-> LastCursor(Taken(c), Floor(c)),
     missed |-> c < log.dropped_before, run_status |-> core.run_status]

-----------------------------------------------------------------------------
(* Writers: a call, a section under the core lock, an append to the log.      *)

Call(t, what) ==
    /\ call' = [call EXCEPT ![t] = what]
    /\ Goto(t, "write")

\* The pipeline attaches the shards' content before it publishes anything.
AttachContent ==
    /\ pc[Pipeline] = "attach"
    /\ backend' = "Sharded"
    /\ Goto(Pipeline, "idle")
    /\ UNCHANGED <<core, log, call, deltas, edits, clientVars, pipelineVars, pushed, raced>>

PublishEvents(updated, matched) ==
    /\ pc[Pipeline] = "idle"
    /\ batches < MaxBatches /\ calls < MaxCalls
    /\ batches' = batches + 1 /\ calls' = calls + 1
    /\ Call(Pipeline, [kind |-> "events", updated |-> updated, matched |-> matched])
    /\ UNCHANGED <<core, backend, log, deltas, edits, clientVars, pushed, raced>>

PublishStats ==
    /\ pc[Pipeline] = "idle"
    /\ calls < MaxCalls
    /\ calls' = calls + 1
    /\ Call(Pipeline, [kind |-> "stats"])
    /\ UNCHANGED <<core, backend, log, deltas, edits, clientVars, batches, pushed, raced>>

PublishQueue(emit_delta) ==
    /\ pc[Pipeline] = "idle"
    /\ calls < MaxCalls
    /\ calls' = calls + 1
    /\ Call(Pipeline, [kind |-> "queue", emit_delta |-> emit_delta])
    /\ UNCHANGED <<core, backend, log, deltas, edits, clientVars, batches, pushed, raced>>

\* Mutant: the run is marked complete while the stopped shards still serve content.
SnapshotNothing ==
    /\ pc[Pipeline] = "idle"
    /\ Goto(Pipeline, "complete")
    /\ UNCHANGED <<core, backend, log, call, deltas, edits, clientVars, pipelineVars, pushed, raced>>

\* The end of a good run: the shards' stores become the content backend first.
SnapshotContent ==
    /\ pc[Pipeline] = "idle"
    /\ backend' = "Snapshot"
    /\ Goto(Pipeline, "complete")
    /\ UNCHANGED <<core, log, call, deltas, edits, clientVars, pipelineVars, pushed, raced>>

MarkCompleted ==
    /\ pc[Pipeline] = "complete"
    /\ Call(Pipeline, [kind |-> "status", run_status |-> "Completed"])
    /\ UNCHANGED <<core, backend, log, deltas, edits, clientVars, pipelineVars, pushed, raced>>

MarkFailed ==
    /\ pc[Pipeline] = "idle"
    /\ Call(Pipeline, [kind |-> "status", run_status |-> "Failed"])
    /\ UNCHANGED <<core, backend, log, deltas, edits, clientVars, pipelineVars, pushed, raced>>

\* update_stream_state, add_hide_rule / clear_hide_rules.
EditStream(u, s, favorite) ==
    /\ pc[u] = "idle" /\ edits < MaxEdits
    /\ edits' = edits + 1
    /\ Call(u, [kind |-> "patch", stream |-> s, favorite |-> favorite])
    /\ UNCHANGED <<core, backend, log, deltas, clientVars, pipelineVars, pushed, raced>>

EditRules(u) ==
    /\ pc[u] = "idle" /\ edits < MaxEdits
    /\ edits' = edits + 1
    /\ Call(u, [kind |-> "rules"])
    /\ UNCHANGED <<core, backend, log, deltas, clientVars, pipelineVars, pushed, raced>>

\* Mutant: a stream without a row can be marked.
TouchedAny(what) ==
    CASE what.kind = "events" -> what.updated \cup {s \in what.matched : Tracked(core.view, s)}
      [] what.kind = "patch" -> {what.stream}
      [] OTHER -> {}

\* The core after a call.  A match on a stream without a row changes nothing.
Touched(what) ==
    CASE what.kind = "events" -> what.updated \cup {s \in what.matched : Tracked(core.view, s)}
      [] what.kind = "patch" -> {s \in {what.stream} : Tracked(core.view, s)}
      [] OTHER -> {}

Changed(row, what) ==
    IF what.kind = "patch" THEN [row EXCEPT !.favorite = what.favorite]
    ELSE [row EXCEPT !.updates = @ + 1]

Updated(what) ==
    [view |-> [s \in Streams |-> IF s \in Touched(what) THEN Changed(core.view[s], what) ELSE core.view[s]],
     run_status |-> IF what.kind = "status" THEN what.run_status ELSE core.run_status]

\* Mutant: the rows are read before the change.
RowsDeltaBefore(view, some) ==
    IF some = {} THEN <<>> ELSE <<[kind |-> "Streams", rows |-> {[stream |-> s, row |-> core.view[s]] : s \in some}]>>

\* The deltas a call appends, with the rows as they are under the lock.
RowsDelta(view, some) ==
    IF some = {} THEN <<>> ELSE <<[kind |-> "Streams", rows |-> {[stream |-> s, row |-> view[s]] : s \in some}]>>

DeltasOf(what, view, touched) ==
    CASE what.kind = "events" ->
            RowsDelta(view, touched)
            \o (IF what.matched = {} THEN <<>> ELSE <<[kind |-> "Matches"]>>)
            \o <<[kind |-> "Stats"]>>
      [] what.kind = "patch" ->
            IF touched = {} THEN <<>>       \* 404 not found
            ELSE RowsDelta(view, touched) \o <<[kind |-> "Stats"]>>
      [] what.kind = "queue" -> IF what.emit_delta THEN <<[kind |-> "Queue"]>> ELSE <<>>
      [] what.kind = "status" -> <<[kind |-> "Status", run_status |-> what.run_status]>>
      [] OTHER -> <<[kind |-> "Stats"]>>

RowsAwaited(t) ==
    {s \in Streams : \E i \in DOMAIN deltas[t] :
        deltas[t][i].kind = "Streams" /\ \E r \in deltas[t][i].rows : r.stream = s}

After(t) == IF call[t].kind = "status" THEN "done" ELSE "idle"

UpdateCore(t) ==
    /\ pc[t] = "write" /\ CoreWritable
    /\ LET touched == Touched(call[t])
           new == Updated(call[t])
           next == DeltasOf(call[t], new.view, touched)
       IN  /\ core' = new
           /\ deltas' = [deltas EXCEPT ![t] = next]
           /\ call' = [call EXCEPT ![t] = IF next = <<>> THEN NoCall ELSE [kind |-> @.kind]]
           /\ Goto(t, IF next = <<>> THEN After(t) ELSE "append")
           /\ raced' = (raced \ touched)
                        \cup {s \in touched : \E u \in Threads \ {t} : s \in RowsAwaited(u)}
    /\ UNCHANGED <<backend, log, edits, clientVars, pipelineVars, pushed>>

\* append_deltas, then notify_waiters: every waiting poll is woken.
AppendDeltas(t) ==
    /\ pc[t] = "append" /\ DeltasFree
    /\ log' = Push(log, deltas[t])
    /\ pushed' = pushed \o deltas[t]
    /\ deltas' = [deltas EXCEPT ![t] = <<>>]
    /\ call' = [call EXCEPT ![t] = NoCall]
    /\ pc' = [u \in Threads |-> IF u = t THEN After(t) ELSE IF pc[u] = "wait" THEN "againDeltas" ELSE pc[u]]
    /\ UNCHANGED <<core, backend, edits, clientVars, pipelineVars, raced>>

-----------------------------------------------------------------------------
(* A front end: pollDeltas of app.js against LiveApiHandle::deltas, health.   *)

\* delta_response takes the log's lock, then the core's.
LockDeltas(c) ==
    /\ pc[c] \in {"pollDeltas", "againDeltas"} /\ DeltasFree
    /\ Goto(c, IF pc[c] = "pollDeltas" THEN "pollCore" ELSE "againCore")
    /\ UNCHANGED <<core, backend, log, call, deltas, edits, clientVars, pipelineVars, pushed, raced>>

\* Rows by the deltas in the order of the log.
Replay(old, taken) ==
    [s \in Streams |->
        LET about == {d \in taken : d.payload.kind = "Streams" /\ \E r \in d.payload.rows : r.stream = s}
            latest == CHOOSE d \in about : \A e \in about : e.cursor <= d.cursor
        IN  IF about = {} THEN old[s] ELSE (CHOOSE r \in latest.payload.rows : r.stream = s).row]

\* The response goes out, with what the client makes of it (all of it local):
\* when told that it missed deltas it first loads the list of streams again.
Answer(c, response) ==
    /\ got' = [got EXCEPT ![c] = @ \cup response.taken]
    /\ lost' = [lost EXCEPT ![c] = IF response.missed THEN log.dropped_before ELSE @]
    /\ cursor' = [cursor EXCEPT ![c] = response.next]
    /\ reply' = [reply EXCEPT ![c] = [held |-> IF response.missed THEN response.taken ELSE {},
                                      run_status |-> response.run_status]]
    /\ IF response.missed
       THEN UNCHANGED rows /\ Goto(c, "reload")
       ELSE rows' = [rows EXCEPT ![c] = Replay(@, response.taken)] /\ Goto(c, "telemetry")

\* The first look: an empty response is sent only when the run is over, else the
\* request goes on to wait.
FirstResponse(c) ==
    /\ pc[c] = "pollCore" /\ CoreReadable
    /\ IF Response(cursor[c]).taken = {} /\ core.run_status = "Running"
       THEN Goto(c, "register") /\ UNCHANGED clientVars
       ELSE Answer(c, Response(cursor[c]))
    /\ UNCHANGED <<core, backend, log, call, deltas, edits, pipelineVars, pushed, raced>>

\* notified(): from here on an append wakes the request.
Register(c) ==
    /\ pc[c] = "register"
    /\ Goto(c, "wait")
    /\ UNCHANGED <<core, backend, log, call, deltas, edits, clientVars, pipelineVars, pushed, raced>>

Timeout(c) ==
    /\ pc[c] = "wait"
    /\ Goto(c, "againDeltas")
    /\ UNCHANGED <<core, backend, log, call, deltas, edits, clientVars, pipelineVars, pushed, raced>>

SecondResponse(c) ==
    /\ pc[c] = "againCore" /\ CoreReadable
    /\ Answer(c, Response(cursor[c]))
    /\ UNCHANGED <<core, backend, log, call, deltas, edits, pipelineVars, pushed, raced>>

\* GET /api/streams, at page load and after a gap; then the held deltas.
Reload(c) ==
    /\ pc[c] = "reload" /\ CoreReadable
    /\ rows' = [rows EXCEPT ![c] = Replay(core.view, reply[c].held)]
    /\ reply' = [reply EXCEPT ![c] = [held |-> {}, run_status |-> @.run_status]]
    /\ Goto(c, "telemetry")
    /\ UNCHANGED <<core, backend, log, call, deltas, edits, cursor, got, lost, pipelineVars, pushed, raced>>

\* refreshHealthTelemetry asks for the health at most once a second.
SkipHealth(c) ==
    /\ pc[c] = "telemetry"
    /\ Goto(c, "pollDeltas")
    /\ UNCHANGED <<core, backend, log, call, deltas, edits, clientVars, pipelineVars, pushed, raced>>

\* health takes the core's lock, then the log's.
LockCore(c) ==
    /\ pc[c] = "telemetry" /\ CoreReadable
    /\ Goto(c, "healthDeltas")
    /\ UNCHANGED <<core, backend, log, call, deltas, edits, clientVars, pipelineVars, pushed, raced>>

HealthResponse(c) ==
    /\ pc[c] = "healthDeltas" /\ DeltasFree
    /\ Goto(c, "pollDeltas")
    /\ UNCHANGED <<core, backend, log, call, deltas, edits, clientVars, pipelineVars, pushed, raced>>

-----------------------------------------------------------------------------

Begin ==
    \/ AttachContent \/ PublishStats \/ SnapshotContent \/ MarkCompleted \/ MarkFailed
    \/ \E updated, matched \in SUBSET Streams : PublishEvents(updated, matched)
    \/ \E emit_delta \in BOOLEAN : PublishQueue(emit_delta)
    \/ \E u \in Users :
        \/ \E s \in Streams, favorite \in BOOLEAN : EditStream(u, s, favorite)
        \/ EditRules(u)

Write(t) == UpdateCore(t) \/ AppendDeltas(t)

FrontEnd(c) ==
    \/ LockDeltas(c) \/ FirstResponse(c) \/ Register(c) \/ Timeout(c) \/ SecondResponse(c)
    \/ Reload(c) \/ SkipHealth(c) \/ LockCore(c) \/ HealthResponse(c)

Next ==
    \/ Begin
    \/ \E t \in {Pipeline} \cup Users : Write(t)
    \/ \E c \in Clients : FrontEnd(c)

\* A call that was made is carried on with, and a front end loops for ever; nobody
\* is obliged to make a call.  Strong, because a lock that is free again and again
\* is obtained: between two requests of a front end lies a network round trip.
Fairness ==
    /\ \A t \in {Pipeline} \cup Users : SF_vars(Write(t))
    /\ \A c \in Clients : SF_vars(FrontEnd(c))

Spec == Init /\ [][Next]_vars /\ Fairness

-----------------------------------------------------------------------------
(* Properties.                                                                *)

Rows == [updates : Nat, favorite : BOOLEAN]
Statuses == {"Running", "Completed", "Failed"}

Payloads ==
    [kind : {"Streams"}, rows : SUBSET [stream : Streams, row : Rows]]
    \cup [kind : {"Stats", "Queue", "Matches"}]
    \cup [kind : {"Status"}, run_status : Statuses]

Requests ==
    [kind : {"events"}, updated : SUBSET Streams, matched : SUBSET Streams]
    \cup [kind : {"queue"}, emit_delta : BOOLEAN]
    \cup [kind : {"patch"}, stream : Streams, favorite : BOOLEAN]
    \cup [kind : {"status"}, run_status : Statuses]
    \cup [kind : {"stats", "rules"}]

ClientPlaces == {"reload", "telemetry", "pollDeltas", "pollCore", "register", "wait",
                 "againDeltas", "againCore", "healthDeltas"}
WriterPlaces == {"attach", "idle", "complete", "write", "append", "done"}

\* The types of the state; only a stream with a row is a favorite, and the delta
\* log's Mutex, held between two steps by a polling thread, has one holder.
TypeOK ==
    /\ core \in [view : [Streams -> Rows], run_status : Statuses]
    /\ \A s \in Streams : core.view[s].favorite => Tracked(core.view, s)
    /\ backend \in {"None", "Sharded", "Snapshot"}
    /\ log \in [entries : Seq([cursor : Nat, payload : Payloads]), next_cursor : Nat, dropped_before : Nat]
    /\ pc \in [Threads -> ClientPlaces \cup WriterPlaces]
    /\ \A t \in Threads : pc[t] \in ClientPlaces <=> t \in Clients
    /\ DOMAIN call = Threads /\ \A t \in Threads : pc[t] = "write" => call[t] \in Requests
    /\ deltas \in [Threads -> Seq(Payloads)]
    /\ pushed \in Seq(Payloads)
    /\ cursor \in [Clients -> Nat] /\ lost \in [Clients -> Nat]
    /\ DOMAIN got = Clients /\ DOMAIN reply = Clients
    /\ \A t, u \in Threads :
        pc[t] \in {"pollCore", "againCore"} /\ pc[u] \in {"pollCore", "againCore"} => t = u

\* The log is the end of everything pushed, under consecutive cursors, never
\* longer than its capacity, and dropped_before says exactly what is gone.
WindowIsTheTail ==
    /\ Len(log.entries) <= Capacity
    /\ log.dropped_before + Len(log.entries) = Len(pushed)
    /\ log.next_cursor = Len(pushed) + 1
    /\ \A i \in DOMAIN log.entries :
        log.entries[i] = [cursor |-> log.dropped_before + i, payload |-> pushed[log.dropped_before + i]]

\* The bounded log, its cursors and missed flags are the feed that README.md
\* (251-254) promises, whatever is dropped and however clients are delayed.
Feed == INSTANCE DeltaFeed WITH feed <- pushed, read <- cursor
FeedSpec == Feed!Spec

Quiet == \A t \in Threads : pc[t] \notin {"write", "append"}
UpToDate(c) == cursor[c] = LatestCursor /\ pc[c] # "reload"

\* A front end at the end of the log shows the rows of the core, through gaps and
\* reloads, except where two changes of a stream overlapped: the rows of a
\* change are read under the core's lock and appended after it is released.
UnracedRowsConverge ==
    Quiet => \A c \in Clients : UpToDate(c) =>
        \A s \in Streams \ raced : rows[c][s] = core.view[s]

\* Once a client has been told that the run is complete, content is served from
\* the retained stores, never asked of shards that have stopped (README.md:66-68).
CompletedMeansSnapshot ==
    \A c \in Clients : reply[c].run_status = "Completed" => backend = "Snapshot"

\* A front end that is behind catches up (the calls of a run are bounded here): a
\* notification missed between the first look and notified() only costs a timeout.
ClientsCatchUp == \A c \in Clients : (cursor[c] < LatestCursor) ~> (cursor[c] = LatestCursor)

\* Polling does not hold up the run (README.md:250-251: "Stream list, detail, match,
\* health, and content endpoints are safe for polling."): a publication returns.
PublishingReturns == (pc[Pipeline] \in {"write", "append"}) ~> (pc[Pipeline] \notin {"write", "append"})

=============================================================================
