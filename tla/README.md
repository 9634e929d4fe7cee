# rustmate: specifications

TLA+ models of rustmate: its threads and locks, and the layers that turn packets
into streams, content, matches, protocol messages and the rows a client lists.
All are checked with TLC; safety properties of the shard coordinator, the sharded
pipeline, TCP reassembly and the live API are also proved with TLAPS. The Rust code is under `src/src/`; `README.md:n` in
comments is the repository's `src/README.md`.

## The system

A capture source yields batches of packets. With more than one worker the
coordinator (`sharded_pipeline.rs`) routes each packet to a worker shard over a
bounded queue; a shard decodes it, updates its flow table and TCP reassembly,
and sends the reassembled stream chunks to stream offload workers (or parses
them itself); both send events over one bounded output queue to the coordinator,
which writes them to the sinks and publishes them to the live API.

| component | state | operations | interacts with | what makes it correct |
|---|---|---|---|---|
| shard coordinator, `shard.rs` | owner table and its eviction queue, flow loads and theirs, load metrics, round-robin cursor | route a packet, observe the route | called by the coordinator task for each packet | one worker per TCP flow, bounded tables whose two halves agree, loads that add up |
| sharded pipeline, `sharded_pipeline.rs` | queues, batches of events, placement caches, reports | dispatch, process, offload, drain, snapshot, slice request, shut down | threads and channels; sinks, live API, source | order per flow, nothing lost or counted twice, the run always ends, and succeeds only when nothing failed |
| flow table and TCP reassembly, `flow/mod.rs` | flows; per direction next sequence number and out-of-order buffer | observe a packet, expire, evict | called by a shard or by the single-threaded pipeline; its chunks feed the layers below | released bytes are the stream's bytes in order, bounded buffers |
| single-threaded pipeline, `pipeline.rs` | the same layers as one shard | run | source, sinks, live API | what clients are shown is what the streams carried |
| stream inventory, `stream_inventory.rs`, `protocol_detection.rs` | bounded records: status, service, kind of content, counts | observe a packet, evict | one per shard; its events make the rows | a row never lags behind a change it should show |
| content store, `stream_content.rs` | segments of the latest bytes, logical offsets | store, evict, windows | one per shard or offload worker; read by slices | what is kept is the end of the stream; bytes are accounted for |
| pattern engine, `pattern.rs` | match counters | search each new range with a lookbehind | reads the content store | every literal reported once, whatever it was split over |
| stream view, `stream_view.rs`, `service_profile.rs` | bounded rows, matches, favorites, hide rules, indexes | observe events, edit, query | the coordinator and the live API each own one | places that agree; pages that neither repeat nor lose rows |
| content slices, `stream_slice.rs` | none | clip a range, highlight matches in it | content store and view | the bytes and highlights are the stream's |
| parsers and messages, `stream_message.rs`, `stream_parser.rs` | parser state per direction, bounded message store | push a chunk, parse a datagram, insert | chunks of the flow table; the API's message lists | messages do not depend on how the stream was cut; none lost uncounted |
| live API, `api.rs` | a core under a RwLock, the delta log under a mutex, a content backend | publish, mark status, query, long poll, patch | pipeline threads and HTTP handlers concurrently | cursors that lose nothing silently, no deadlock |
| ingest, `ingest/*` | capture handle, counters | next batch, stats | the coordinator awaits it | an empty batch is not the end |
| front end, `frontend/app.js` | rows, cursor | poll deltas, reload after a gap, refresh health | HTTP requests to the live API | rows that agree with the core's once it has caught up |
| transforms, analyzers, health, output, CLI, harness | little or none | pure functions, formatting and I/O | | not concurrent |

Hard behaviours: threads that block on each other's bounded queues, faults of
one of them in the middle of a run, shutdown in stages, caches and tables that
evict while in use and independently of each other, sequence numbers that wrap,
streams cut anywhere, pages of a list that changes while it is read. `PROJECT.json` lists each hazard
at its line with the properties that would catch it.

## Modules

`ShardCoordinator` models `ShardCoordinator::route` and `observe` of one run.
`RouteFlow`, `RouteUnkeyed` are one packet each, with everything the code does
for it: choice of shard, insertion and eviction in the owner table, metrics and
elephant tracker. Hash functions are constants, any function of the flow (and
of the packet's turn). `owners`/`owner_order` and `loads`/`load_order` are the
code's `HashMap` and `VecDeque` pairs. History variables record where each flow
went. Left out: parsing a packet into a flow key.

`ShardedPipeline` models the threads of `run`, each with a program counter where
it may block or be interleaved: the coordinator (dispatch, drain, snapshots,
shutdown, collection of final reports, join), the shards and the offload
workers. Channels are bounded sequences of the code's depths; a blocking send is
an action enabled when there is room or the receiver is gone, as crossbeam's.
A chunk is its number within its flow, so order, loss and duplication are
visible. Faults: a sink that fails, a source that fails, a panic in a worker or
in an offload worker. Clients of the live API ask for content slices. Both
empty batches and the end of the source are environment choices.

`TcpDirection` has what a segment does to a `TcpDirectionState`, as operators.
`TcpReassembly` explores it for one flow with two directions. A byte is its
position in the stream, which exposes any trimming error; the network cuts,
reorders, repeats and loses segments as it likes. Sequence numbers are modulo
`Modulus`, as the code's are modulo 2^32. The streams modelled are one connection
per direction, each shorter than half the sequence space: beyond that the code's
comparison is ambiguous by design.

`Pipeline` takes a packet through the layers, in the order of
`process_packet`, each layer a module of its own that `Pipeline` extends:

| module | code | state |
|---|---|---|
| `IdleTable`, `Maps` | the eviction rule that flow table, inventory and content store share; insertion into a map | |
| `FlowTable` (on `TcpDirection`) | `FlowTable::observe_packet` | `entries`, `flow_stats` |
| `ServiceDetection` | the ranking and merging of guesses | |
| `StreamInventory` | `StreamInventory::observe_packet` | `records`, `inventory_stats` |
| `StreamContent` | `StreamContent::observe_packet`, windows | `content`, `stored_bytes`, `content_stats` |
| `PatternEngine` | `scan_update` | `matches_by_stream`, `pattern_stats` |
| `StreamView` | `StreamViewState`, as functions of a view | (`view` of `Pipeline` and `StreamViews`) |
| `StreamSlice` | `ContentSliceService::slice` | |

A payload is a sequence of bytes, and constants say what the layers see in it
(`Passes`: which detection tests, `Looks`: text or not, `Letter`: what the patterns
search, `MessagesIn`: what the parsers find), so content is abstract and its places are
exact. An action is one packet, with every layer's change, or the end of a batch,
which shows the events collected to the view. The clock is that of the packets and
may go back, as timestamps do in a capture. Which of several equally old records
is evicted is open: the code takes a minimum over a hash map. History variables: the
bytes handed to the content store (`taken`), the matches reported, the flows
whose table entry or content began anew.

`StreamViews` has the live API's operations on a view of its own: batches of
events, patches of favorite and hidden marks, hide rules, profile files, and a
client that walks page by page through a filtered list while all this goes on.
Each operation holds the core lock and is one step; the walk is many.

`Http1Parser`, `FrameParsers` and `ProtocolMessages` are the parser layer. A byte
is a symbol: where a head begins and what it says of the body is one symbol each,
and CR, LF, chunk sizes, frame and record headers are spelled out, since that is
where a cut can fall. `ProtocolMessages` feeds chunks of a few streams, cut anywhere
and interleaved anyhow, and DNS datagrams, to the bounded tables of parser states,
and what they say to the message store. Its history keeps, for each state that is
in a table, what it was fed and what it said, of frames and records since the
latest error, to be compared with what a new state at that place says of the same
bytes in one piece (`Push` is the parser itself).
The counters `dropped_http1_chunks` and its like are left out: `http1_state` makes
room before it refuses, and the limits are at least one, so no chunk is dropped.

`LiveApi` models `LiveApiHandle` and the threads around it: the pipeline
(`publish_*`, `mark_*`, the change of the content backend), users who edit a
stream or the hide rules, and front ends in the loop of `pollDeltas`. A call is
three steps, as in the code: it is made (`Call`), its section under the core's
write lock runs (`UpdateCore`), its deltas are appended under the log's mutex
(`AppendDeltas`). `delta_response` and `health` hold their first lock across a
step (`LockDeltas` before the core, `LockCore` before the log), and who holds
what is told by the threads' places. The core lock lets no reader in while a
writer waits, as `std::sync::RwLock` does on Linux. A long poll is a first look,
a registration with `notify`, a wake-up or timeout, a second look. A row is the
number of updates it has seen and its favorite flag; the history variables are
everything pushed, what each client was sent and what it was told is missing.
A front end here is its polling loop; clicks that reload the list meanwhile are
left out, and so are the view's filters, eviction and hidden flags, which are
`StreamViews`'.

`DeltaFeed` is what `README.md:251-254` promises of the deltas: an endless log of
which a client receives each one or is told that it missed some. `LiveApi`
implements it with `feed <- pushed, read <- cursor`.

The `MC*` modules define the constants that are functions, packets, events or
streams for the `.cfg` files.
The `*Proofs` modules and `SumLemmas` hold the theorems.

## Runs

| run | question | result |
|---|---|---|
| `coordinator` | all traffic of up to five packets of two TCP and one UDP flow and unkeyed packets, over one to three shards, both modes, tables of two entries | holds |
| `pipeline` | two shards, one offload worker, all queues of one place, all three offload policies, no faults | holds |
| `pipeline_faults` | sink, source or offload worker fails | holds: the coordinator never stops half-way and success means no failure |
| `pipeline_no_offload` | as above without offload workers, with worker panics and slice requests | holds |
| `pipeline_hang` | does a worker panic end the run when there are offload workers? | no: the output channel stays open, `sharded_pipeline.rs:791` waits for ever |
| `reassembly` | every cutting and order of the segments of two streams of four and one byte over a wrap, with both caps in reach | holds |
| `single_pipeline` | do rows, content, matches, slices and highlights show what the streams carried, through every layer's eviction? | holds |
| `stream_view` | do the six places where the view keeps a stream agree, is paging fair, do a profile's counts match its listing? | holds |
| `messages` | are messages and errors independent of the cuts, is every message stored or counted, does reading a DNS name end? | holds, for frames and records from one error to the next, and but for what `message_cuts` shows |
| `message_cuts` | the same for a chunked body cut between CR and LF (`README.md:59-63`) | no: `stream_message.rs:2788` takes the missing LF for a wrong byte |
| `live_api` | one front end, one user and a run over a log of two deltas, one delta per response: does the log implement the feed, and does a front end catch up with the log and, but for overlapping changes of one stream, show the core's rows? | holds, without deadlock |
| `live_api_deadlock` | does a publication return whatever is polled (`README.md:250-251`)? | no: `health` and `delta_response` take the two locks in opposite orders, and with a publication waiting for the core all three stand still |

After a wrong frame or record the WebSocket and TLS parsers drop everything that has come
(`stream_message.rs:1013-1016`, `1127-1130`), so which messages are found after an
error depends on the cuts, against "protocol parsing above reassembled streams"
(`README.md:55`). `CutIndependent` therefore compares what a parser was fed from one error
to the next: the frames and records, and the error that ends them, are those of one
chunk, and the parser goes on at the right place. The assumption `AfterAnErrorCutsMatter`
of `MCProtocolMessages` shows the dependence itself: a wrong frame and a good
one give an error in one chunk, an error and a frame in two. The HTTP parser drops only the wrong head,
but its error ends where the bytes end that had come (`stream_message.rs:2352-2360`): the ends of
errors are not compared.

Four more disagreements with the documentation follow from the code and the models
without a run of their own. The owner table evicts by age of insertion, so an
active flow of a full table is placed again, perhaps on another worker
(`shard.rs:370`; `README.md:166-167`). Under the inline policy a flow whose
placement was evicted is parsed on the shard while an earlier chunk still waits
for the offload worker (`sharded_pipeline.rs:280`; `README.md:22-23`); the
instance of `pipeline` has a cache that holds every flow. Rows are appended to the delta log
after the lock they were read under is released, so the older of two overlapping
changes can be the last (`api.rs:252`; `README.md:251-252`), which is why
`UnracedRowsConverge` excepts them. WebSocket and TLS messages count their
offsets from where their parser state was made, not from the beginning of
the stream (`stream_message.rs:638`; `README.md:244-246`).

Bounds. Two shards and one offload worker are the smallest system in which the
two kinds of thread compete for the output queue and one shard finishes before
another; a queue of depth one is full after one element, so every blocking path
and every "full" branch is taken; two chunks per packet make a worker block in
the middle of a packet. Tables of two entries under three flows evict in every
order. Five packets pass the elephant thresholds (two packets or three bytes) and
leave traffic after the flow has become hot. The run `pipeline_faults` has one
offload worker and one fault, so it says nothing about several offload workers
of which one dies. Modulus 16 with initial number 14 wraps within the stream.

In `single_pipeline` four packets of two TCP flows and one UDP flow meet tables,
stores and views of two entries, content limits of four bytes per stream and six
in all, segments of at most three, a lookbehind of the longest pattern, and
timeouts of one or two ticks. Three flows evict in every table, each at its own
time, a stream outgrows its limit, a literal lies across two segments, and
three packets pass the update intervals. Slices begin at place 0, 1 or 3 and ask for two or
three bytes, so they begin and end within segments and matches. 107 thousand states.

In `stream_view` four streams go through a view of three rows with one match
each, and a client reads pages of one or two rows while up to four operations
evict, hide, mark and profile: enough for a row to go before and behind the
cursor. 116 thousand states. In `messages` the streams are a chunked request, a
longer one over the limits, requests with a body and what follows a wrong head, an
upgrade with frames after it, and records, of up to 22 symbols; heads may have 17
and buffers 18, so the first is compared whole and the others up to the limit
(`WithinLimits`). One or two states fit a table, and two messages a chunk and a
stream of the store, so states, streams and messages are evicted; streams whose lines do not all end alike are left out, since
`find_header_end` prefers a CRLF CRLF further on to a nearer LF LF and the head
found then depends on the cut (`stream_message.rs:2793`). 135 thousand states.

In `live_api` one publication of events and one more call of the pipeline, the end
of the run and one edit push up to seven deltas through a log of two, so a
slow front end falls behind the window, reloads and reads on; one delta per
response makes it come back for the rest. One front end never holds one lock
while it waits for the other's holder, so the deadlock needs the two front ends
of `live_api_deadlock`.

`CHECK_DEADLOCK FALSE` is set where the system stops by design: the models of the
coordinator, the single-threaded pipeline, the views and the messages when their
input is used up, and the fault runs, where a worker that has
panicked leaves nothing to do; there the leads-to properties find a run that
stops before its end. `live_api_deadlock` sets it because its deadlock is what the
property shows. `pipeline` and `reassembly` check deadlock, the finished run
being the one state that may stutter.

Fairness. Each thread is weakly fair in each of its steps: the operating
system runs every thread, and crossbeam wakes a blocked sender or receiver when
it can go on. Nothing is assumed of the source, the clients, the faults or
the snapshot timer: a capture may stay silent for ever. `LiveEventsAreWritten`
relies on the flush timeout of the offload workers' and shards' receive loops.
In `LiveApi` a call that was made and a front end's loop are strongly fair: a lock
that is free again and again is obtained in the end, since the front end
spends a network round trip between two requests. No caller is obliged to call.

## Proofs

| module | about | theorems |
|---|---|---|
| `ShardCoordinatorProofs` | all properties of `coordinator` | `IInvHolds`, `TablesWellFormed`, `FlowsArePinned`, `StripesAreConfined`, `MetricsAlwaysBalance`, `OwnersStayPinned` |
| `ShardedPipelineProofs` | types, shutdown, faults, figures, order of the chunks of a flow | `TypeCorrect`, `OffloadStopsLastHolds`, `PendingSliceIsQueuedHolds`, `SuccessMeansCleanHolds`, `StatsNeverGoBackHolds`, `AlwaysLined`, `ChunksParsedInOrderHolds`, `OneParserPerFlowHolds`, `NoChunkSkippedHolds` |
| `ShardedPipelineEventsProofs` | what reaches the sinks, the figures of a run that succeeds | `EventsReachSinksInOrderHolds`, `CompletedRunAddsUpHolds` |
| `TcpReassemblyProofs` | all properties of `reassembly` | `TypesHold`, `StreamIsReleased`, `NothingWaits`, `AdvanceIsExact`, `StatusTellsTruth` |
| `LiveApiProofs` | all safety properties of `live_api` | `Invariance`, `TypesCorrect`, `WindowHolds`, `CompletedServesSnapshot`, `ImplementsFeed`, `NothingSkipped`, `RowsConverge` |
| `StreamViewsProofs` | all properties of `stream_view` | `ViewTypeOK`, `PagesAreFair`, `ProfileCountsHold` |
| `PipelineProofs` | tables and counters, the rows of the view, what the store keeps and slices show, what the scan finds | `TablesAndCounters`, `RowsTellTheInventory`, `SlicesAreTheStream`, `MatchesAreFoundAndShown` |
| `SumLemmas` | induction, sums, places and pieces of sequences, flattening, ranks, for the others | |

Each theorem holds for every value of the constants that the named assumption of its
module allows; TLC evaluates the assumptions in every run.

**Coordinator.** `CoordinatorAssumption` says that shard counts are positive
integers, hashes functions into the naturals, limits positive. The invariant is

    IInv == TypeOK /\ OwnersMatchOrder /\ FlowLoadsMatchOrder /\ TrackedFlowHasOneShard

`TypeOK` alone is not inductive: the tables' heads are evicted by key, which is
in the map only because map and queue agree, and a flow found in the table has
a shard only because the entry was written for that flow. Lemmas on the two
table helpers (a bounded insertion keeps map and queue in step) carry most of
the weight. Two more layers stand on it: `StripesFit` (a striped flow is UDP and
large, and what it visited is among its candidates, which do not change while it
is tracked) and `MInv` (each figure in total and on each shard, and the hot flows'
figures against what was routed while they were in the map). Sums of counters are
folds; `SumLemmas` proves what they need by induction over finite sets, stated
with a set in the place of the operator that the library's induction takes.

**Sharded pipeline.** The invariant is `TInv`, the types with what each thread has
at hand for its next step, and then four layers: `Staged` (how far every thread can
be at each stage of the shutdown; from it `OffloadStopsLast`), `Blamed` (a fault is
a dead thread or a failure the coordinator has noticed, and it has noticed all by
its end; from it `SuccessMeansClean`), `Reported` (whose final reports are taken and
who owes what still is in the output queue) and `Counted` (figures on their way
are no older than those held, and no newer than the thread's own; from both
`StatsNeverGoBack`). `WorkerEffect`, `OffloadEffect` and `CoordEffect` say once
what the steps of a thread do to the state it shares, so that a layer is proved over
a few effects and not over every action.

Order needs to know where the chunks of a flow are: waiting in a packet, at hand at
the shard, in a task, or parsed. `Ordered` says that they lie along this path by
number, `Placed` which thread parses the flow, given the placement table, and
`Gapless` that no number is missing while no thread has died (but under `Drop`).
Together with `TInv` and `Staged` these are `AllLined`. A step moves a chunk from one
place to the next; the lemmas on moves are about sets of numbers, and the lemmas on
queues say which numbers a queue holds after it gained or lost an element. The
theorems on order and on events have one hypothesis, `Fits`: under the inline policy a shard has no more
flows than its placement cache, whose size is `flow_config.max_flows`
(`sharded_pipeline.rs:1334`). Without it the property is false, as told above.

From the parser, a chunk's event moves on through a batch and the output queue to
the sinks. `Delivered` says that these three are in order, one behind the other, and
together have exactly what was parsed, as long as nothing has failed. A flow has two
batches, its shard's and its offload worker's; a flush of one cannot overtake the
other because, by `OneParserPerFlow`, one of them has no chunk of the flow. `written`
is built with `FlattenSeq`, whose recursive function is unfolded by an induction of
its own (`FlatExists`).

`CompletedRunAddsUp` needs what the threads counted, for good and for what is still on
its way. `Balanced` says, while no thread has died, that tasks submitted are tasks
processed or queued and that the chunks handed over are those counted, at hand or waiting;
`Known`, that a thread's last figures are held or in the output queue; `Rested`, that a
shard that leaves keeps no chunk and no task. With `Staged` nothing is on its
way at the end of a run, and with `Blamed` a success had no dead thread. The sums are
over flows, hence `FlowsAssumption`: they are finitely many, a flow being two
addresses, two ports and a protocol. `Fits` is not needed.

**Reassembly.** `ReassemblyAssumption` is the network's: any finite number of
directions, each stream with its SYN and FIN shorter than half the modulus. The code
compares wrapped numbers; the proof counts in positions, and within half the modulus
the two agree (`NumbersCompare`). `Streams` says of a direction that what it released
is the payload between two positions, that its buffer is sorted, free of duplicates,
counted exactly and within its cap (`Tidy`), and that nothing in it joins the stream
(`Settled`). `NothingReadyWaits` is not inductive without the rest: a buffered
segment may be released out of place, and `ReleasedIsTheStream` not without it,
since the segment that is next is compared with `next_seq` only. That `Consume` makes enough
rounds is an induction: after each, the buffer is settled or one shorter
(`RoundsAdd`, `ConsumeIs`). `ObserveIs` proves `Outcome` for each case of `observe`,
and from it come the invariant and both action properties; the invariant was
checked with TLC before it was proved. The byte cap is over both directions, so the
step of one is bounded by the sum over all (`BytesStayBounded`).

**Live API.** `LiveApiAssumption`: distinct threads, a capacity and a limit of at
least one (the code clamps both). The invariant is

    IInv == TypeOK /\ WindowIsTheTail /\ CursorsInside /\ SnapshotFirst

`WindowIsTheTail` ties the log to the history of everything pushed and needs only
the types; `PushKeepsTail` shows it for any number of deltas at once.
`CursorsInside` says that a client is never ahead of the log nor told of a gap
beyond its cursor; with the window it makes every response a read of the
abstract feed (`ResponseIsFaithful`, `AnswerReads`), hence `ImplementsFeed` and, by
one more induction, `NothingSkipped`. `SnapshotFirst` follows the word "completed"
from the pipeline's call through the core to the responses.

`UnracedRowsConverge` speaks of quiet states only, so its invariant `RowsInv` has to
say where the newest row of a stream is meanwhile: in the hand of the one thread that
changed it (`AwaitedRowsShow`), or else in the last delta published about it
(`PushedRowsShow`), which a front end has either played into its rows
(`ClientRowsShow`) or still before it. A front end on its way to load the list holds the
last deltas up to its cursor (`HeldIsTheEnd`). The rows loaded are the core's at that
moment, and playing older deltas into them is harmless because the last about a stream
is the core's row again (`ReplayShows`). That argument breaks exactly for a stream
that two threads have in hand, which is what `raced` records.

**Views.** `StreamViewsAssumption` types the batches of events, the hide rules and the profile
files. `ViewOK` is what the view keeps about its streams, in five parts: `Shaped` (the maps
are over the streams), `Placed` (the order lists each stream once, within the cap),
`Indexed` (the pattern index has exactly the patterns matched), `Counted` (match lists within
their cap, the counter of stored matches) and `MarksOK` (favorites and hidden
streams are there, no rule is there twice). Each operation of the view keeps it, and
`ObserveEvents` does by an induction over the batch. `TypeOK` is `ViewOK` with
`ProfilesOK`, that no profile has the name of another.

`PagingIsFair` compares a walk with a view that moves under it. `Shifted(v, w)` says how the
order of one view lies in that of the next: what goes goes from the front and what comes
comes at the end, so a stream keeps its place but for the evictions. `Reading` holds for
every page turned: what was listed lies before the cursor, and what of the query was
not listed lies behind it or is `Missed`, of which there are at most as many as were
evicted. `ProfilesCountTheirRows` is about a walk in one view: `PagesTo` says which hits
the pages so far have listed, and it ends with the pages' total.

**Single-threaded pipeline.** The assumptions are those of its layers and
`PipelineAssumption`: packets are well formed and the parsers' messages are messages
about the packet's flow. The invariant is

    PipelineOK == TablesOK /\ BatchOK /\ RowsOK

`TablesOK` has a part for each table. `FlowTableOK` and `InventoryOK` tie the counters of
created and evicted entries to the tables, `ContentOK` the bytes stored to the sum over the
records and to the bytes observed and dropped, `PatternOK` the matches to the counts per
stream and both caps. `TableStep` is what the three tables share: an idle sweep,
an eviction when there is no room, and one entry written. Every loop of the code is a fold
over a sequence; `PiecesInTurn`, `StoresInTurn`, `WindowsInTurn` and their like say
that it goes through the sequence step by step, and the lemmas on one step are then
used in an induction over its length.

`RowsShowTheStream` speaks of the moment between two batches, when no event is
buffered. `RowsOK` has to hold within a batch, so it is about the view as it will be when it has
seen the buffered events: `RowsTell(ObserveEvents(view, events), records)`. A row tells of a record
what was emitted about it last (`Tells`), and what the inventory does not emit is less than
its intervals. A match or a message changes no more of a row than the property leaves to the parser,
and an eviction in one table is harmless to the other: a stream that comes back is
announced anew, as `stream_open`.

`SlicesShowTheStream` needs to know where in the stream each stored segment lies. `Stretch(W, a, b)` is
the piece of `W` from `a` up to `b`, and `TailOf(c, W)` says that the segments of a
direction are adjoining pieces of what the stream had, `W`, without an empty one, that end
where it ends and hold `stored` bytes. A round of `append` keeps it (`AppendPieceLays`), whether it merges
or begins a segment, and so does `trim_oldest`, whether it cuts a segment or
drops it (`TrimOldestLays`); the second round of `trim_to_limit` brings the record within its
limit (`TrimLays`). `TakenOK`, kept beside `PipelineOK`, says this of every record and the history
`taken`; a record that was evicted and made again begins with nothing, as the history does then.
Windows of adjoining pieces join to one piece (`WindowsAre`), which is the slice.

`MatchesFoundAndShown` is proved from `PipelineOK /\ TakenOK /\ ReportedOK /\ MatchesOK`.
`ReportedOK` is about the reports of a flow since its content began: each is where it says
(`IsThere`), no two literals of a direction are the same, and each literal of which the
store still has the beginning is among them, unless a cap dropped a report. A scan sees the windows around what
is new, which join to the piece from `lookbehind` before it, and drops a candidate that ends in what was
scanned before: hence nothing is reported twice. A literal that the new bytes complete is no longer
than the lookbehind and one, so it begins in the window: hence none is missed.
An eviction or a trim only takes literals away from those that have to be there.
`MatchesOK` is about the view and the events that are on their way to it: of a
stream they have matches that were reported of it (`Remembers`, `Brings`), which
are there as long as its content never began again. A slice clips those to what the store has
and sorts them, and the sorting neither loses nor makes up a highlight.

**Only model-checked.** Every liveness property: fairness and ENABLED are out of the
prover's reach. `ContentFollowsSender` of `Pipeline`: it says of the whole pipeline what
`StreamIsReleased` says of the reassembly, whose proof speaks of one flow and of senders
that `Pipeline`, where a packet may carry anything, does not have.
`MessagesAddUp`, `CutIndependent` and `DnsNamesEnd`: the parsers are recursive over bytes.

## Not modelled, and the plan

Next, in this order:

1. Proofs: `ContentFollowsSender`, from the lemmas of `TcpReassemblyProofs` for each entry of the flow table.
2. `LiveApi`: reloads on a click beside the poll loop; the end of the run composed
   with `ShardedPipeline` (a shutdown that fails leaves the run marked as running,
   `sharded_pipeline.rs:617`).
3. The filters of the message query, and `ApiSnapshot`.

Left out for good: the texts of HTTP heads, TLS handshake fields and DNS records,
byte transforms (URL, chunked, gzip, deflate), the byte patterns of the
analyzers and detection tests, the decoding of packets, JSON and other formatting,
libpcap, the command line, health rates, the load harness and the front end's display:
pure functions of their input, or I/O.
