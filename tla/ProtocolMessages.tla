-------------------------- MODULE ProtocolMessages --------------------------
(***************************************************************************)
(* From the chunks of the streams to the messages the API lists: the       *)
(* parser layer (src/src/stream_parser.rs) with the protocol analyzer and  *)
(* the message store (src/src/stream_message.rs).  The chunks of a stream  *)
(* come in order, cut anywhere; the streams are interleaved in any way.    *)
(***************************************************************************)
EXTENDS FrameParsers

CONSTANTS
    Scenarios,              \* [streams: a function from <<flow, direction>> to bytes,
                            \*  datagrams: a set of [flow, dns: detected as DNS, bytes]]
    MaxHttp1States, MaxWebSocketStates, MaxTlsStates, MaxDnsStates,
    MaxMessagesPerChunk,    \* max_messages_per_chunk
    MaxStreams,             \* max_streams of the store
    MaxMessagesPerStream,   \* max_messages_per_stream
    MaxDatagrams,           \* bound: datagrams in a behaviour
    DnsSamples              \* the datagrams DnsNamesEnd reads

ASSUME MessageAssumption ==
    {MaxHttp1States, MaxWebSocketStates, MaxTlsStates, MaxDnsStates, MaxMessagesPerChunk,
     MaxStreams, MaxMessagesPerStream, MaxHeaderBytes, MaxBufferBytes} \subseteq Nat \ {0}

VARIABLES
    input,      \* what the flows carry (fixed)
    sent,       \* how much of each stream has been chunks
    datagrams,  \* how many datagrams there were
    parser,     \* StreamParserLayer and ProtocolMessageAnalyzer
    store,      \* StreamMessageStore
    heard       \* history: what each parser state was fed and what it said, of frames
                \* and records since the latest error

vars == <<input, sent, datagrams, parser, store, heard>>

Protocols == {"http1", "websocket", "tls", "dns"}
MaxStates(protocol) == CASE protocol = "http1" -> MaxHttp1States
                         [] protocol = "websocket" -> MaxWebSocketStates
                         [] protocol = "tls" -> MaxTlsStates
                         [] protocol = "dns" -> MaxDnsStates
NewState(protocol) == CASE protocol = "http1" -> NewHttp1
                        [] protocol = "dns" -> NewDns
                        [] OTHER -> NewFrames

NoStates == [states |-> <<>>, order |-> <<>>, evicted |-> 0]

\* StreamMessageStore::new
NewStore == [streams |-> <<>>, order |-> <<>>, observed |-> 0, dropped |-> 0]

Unheard == [from |-> 0, ordinal |-> 0, fed |-> <<>>, said |-> <<>>, split |-> FALSE]

Init ==
    /\ input \in Scenarios
    /\ sent = [key \in DOMAIN input.streams |-> 0]
    /\ datagrams = 0
    /\ parser = [tables |-> [p \in Protocols |-> NoStates], active |-> <<>>,
                 emitted |-> 0, dropped |-> 0]
    /\ store = NewStore
    /\ heard = [p \in Protocols |-> <<>>]

-----------------------------------------------------------------------------
(* Parser states *)

\* http1_state, websocket_state, tls_state, dns_state: the oldest makes room.
Slot(table, key, new, limit) ==
    LET full == Len(table.order) >= limit
        gone == IF full THEN {Head(table.order)} ELSE {}
    IN  IF key \in DOMAIN table.states THEN table
        ELSE [states |-> (key :> new) @@ Restrict(table.states, DOMAIN table.states \ gone),
              order |-> Append(IF full THEN Tail(table.order) ELSE table.order, key),
              evicted |-> table.evicted + Cardinality(gone)]

\* activate_websocket_flow
Activate(active, flow) ==
    IF flow \in ToSet(active) THEN active
    ELSE Append(IF Len(active) >= MaxWebSocketStates THEN Tail(active) ELSE active, flow)

Push(protocol, state, bytes) ==
    CASE protocol = "http1" -> PushHttp1(state, bytes)
      [] protocol = "dns" -> ParseDatagram(state, bytes)
      [] OTHER -> PushFrames(state, bytes, protocol)

\* History only: an error ends what is compared in one piece, since all that the
\* parsers of frames and records have at that moment goes with it (clear_buffer).
Since(protocol, h) ==
    IF protocol \in {"websocket", "tls"} /\ h.said # <<>> /\ Last(h.said).status = "ParseError"
    THEN [Unheard EXCEPT !.from = h.from + Len(h.fed), !.ordinal = h.ordinal + Len(h.said)]
    ELSE h

\* What a parser state was fed before, more bytes and the messages they gave.
Heard(protocol, before, bytes, messages) ==
    LET h == Since(protocol, before)
    IN  [h EXCEPT !.fed = @ \o bytes, !.said = @ \o messages,
                  !.split = @ \/ (protocol = "http1" /\ h.fed # <<>>
                                        /\ Last(h.fed) = "R" /\ Head(bytes) = "N")]

\* The parser gave r for the bytes: [state, messages].
Fed(a, protocol, key, bytes, table, r) ==
    LET old == IF key \in DOMAIN a.tables[protocol].states THEN a.heard[protocol][key] ELSE Unheard
        now == Heard(protocol, old, bytes, r.messages)
    IN  [tables |-> [a.tables EXCEPT ![protocol] = [table EXCEPT !.states[key] = r.state]],
         messages |-> a.messages \o r.messages,
         heard |-> [a.heard EXCEPT ![protocol] =
                        [k \in DOMAIN table.states |-> IF k = key THEN now ELSE @[k]]]]

\* emit_websocket_frames, emit_tls_records, emit_dns_datagram, the half of
\* emit_messages for HTTP: one parser state takes the bytes.
Feed(a, protocol, key, bytes) ==
    LET table == Slot(a.tables[protocol], key, NewState(protocol), MaxStates(protocol))
    IN  Fed(a, protocol, key, bytes, table, Push(protocol, table.states[key], bytes))

Idle == [tables |-> parser.tables, messages |-> <<>>, heard |-> heard]

\* emit_messages: the chunk goes to every parser that may know it.
FeedTls(a, key, bytes) ==
    IF key \in DOMAIN parser.tables["tls"].states \/ LooksLikeTls(bytes)
    THEN Feed(a, "tls", key, bytes) ELSE a
FeedWebSocket(a, key, bytes) ==
    IF key[1] \in ToSet(parser.active) THEN Feed(a, "websocket", key, bytes) ELSE a
Analyze(key, bytes) == Feed(FeedWebSocket(FeedTls(Idle, key, bytes), key, bytes), "http1", key, bytes)

-----------------------------------------------------------------------------
(* The message store *)

\* Mutant: the messages of an evicted stream are not counted.
MakeRoomUncounted(s) ==
    IF Len(s.order) < MaxStreams THEN s
    ELSE [s EXCEPT !.streams = Restrict(@, DOMAIN @ \ {Head(s.order)}), !.order = Tail(@)]

MakeRoom(s) ==
    IF Len(s.order) < MaxStreams THEN s
    ELSE [s EXCEPT !.streams = Restrict(@, DOMAIN @ \ {Head(s.order)}), !.order = Tail(@),
                   !.dropped = @ + Len(s.streams[Head(s.order)])]

\* StreamMessageStore::ensure_stream
EnsureStream(s, flow) ==
    IF flow \in DOMAIN s.streams THEN s
    ELSE LET room == MakeRoom(s)
         IN  [room EXCEPT !.streams = (flow :> <<>>) @@ @, !.order = Append(@, flow)]

\* StreamMessageStore::insert
Insert(s, flow, message) ==
    LET e == EnsureStream(s, flow)
        messages == Append(e.streams[flow], message)
        over == Len(messages) > MaxMessagesPerStream
    IN  [e EXCEPT !.streams[flow] = IF over THEN Tail(messages) ELSE messages,
                  !.observed = @ + 1,
                  !.dropped = @ + (IF over THEN 1 ELSE 0)]

-----------------------------------------------------------------------------
(* Actions *)

\* http1_is_websocket_upgrade, of any of the messages.
Upgrades(messages) == \E m \in ToSet(messages) : m.upgrade

\* apply_event_cap, and observe_events on what it keeps.
Emit(a, flow) ==
    LET kept == SubSeq(a.messages, 1, Min({Len(a.messages), MaxMessagesPerChunk}))
    IN  /\ parser' = [tables |-> a.tables,
                      active |-> IF Upgrades(a.messages) THEN Activate(parser.active, flow) ELSE parser.active,
                      emitted |-> parser.emitted + Len(kept),
                      dropped |-> parser.dropped + Len(a.messages) - Len(kept)]
        /\ store' = FoldLeft(LAMBDA s, m : Insert(s, flow, m), store, kept)
        /\ heard' = a.heard

\* StreamParserLayer::observe_stream on the next n bytes of a stream.
Chunk(key, n) ==
    LET to == sent[key] + n
    IN  /\ to <= Len(input.streams[key])
        /\ Emit(Analyze(key, SubSeq(input.streams[key], sent[key] + 1, to)), key[1])
        /\ sent' = [sent EXCEPT ![key] = to]
        /\ UNCHANGED <<input, datagrams>>

\* StreamParserLayer::observe_datagram
Datagram(d) ==
    /\ datagrams < MaxDatagrams
    /\ Emit(IF d.dns /\ LooksLikeDns(d.bytes) THEN Feed(Idle, "dns", <<d.flow, "a">>, d.bytes)
            ELSE Idle, d.flow)
    /\ datagrams' = datagrams + 1
    /\ UNCHANGED <<input, sent>>

Next ==
    \/ \E key \in DOMAIN input.streams : \E n \in 1 .. Len(input.streams[key]) : Chunk(key, n)
    \/ \E d \in input.datagrams : Datagram(d)

Spec == Init /\ [][Next]_vars

-----------------------------------------------------------------------------
(* Properties *)

Listed(order, keys) == Len(order) = Cardinality(keys) /\ ToSet(order) = keys

\* The parser states and the store keep their limits and their accounts: a table
\* lists its states in the order they were made (http1_state and its like), and
\* every message the cap let through is in the store or counted as dropped,
\* through evictions of streams and of old messages (apply_event_cap, insert,
\* ensure_stream).
MessagesAddUp ==
    /\ \A p \in Protocols :
        LET table == parser.tables[p]
        IN  /\ Listed(table.order, DOMAIN table.states)
            /\ Len(table.order) <= MaxStates(p)
            /\ DOMAIN heard[p] = DOMAIN table.states
            /\ \A key \in DOMAIN table.states :
                table.states[key].next = heard[p][key].from + Len(heard[p][key].fed)
    /\ Len(parser.active) <= MaxWebSocketStates
    /\ Listed(store.order, DOMAIN store.streams)
    /\ Len(store.order) <= MaxStreams
    /\ \A flow \in DOMAIN store.streams : Len(store.streams[flow]) \in 1 .. MaxMessagesPerStream
    /\ parser.emitted = store.observed
    /\ store.observed = store.dropped + FoldSet(LAMBDA flow, n : n + Len(store.streams[flow]),
                                                0, DOMAIN store.streams)

\* The messages with their places. An error tells of all that had come (parse_error),
\* so its end is left out.
Told(messages) ==
    [i \in DOMAIN messages |->
        IF messages[i].status = "ParseError" THEN [messages[i] EXCEPT !.end = messages[i].start] ELSE messages[i]]
BeforeError(messages) ==
    LET errors == {i \in DOMAIN messages : messages[i].status = "ParseError"}
    IN  IF errors = {} THEN messages ELSE SubSeq(messages, 1, Min(errors) - 1)

\* What a parser state said, and what a new one at the same place says of the same
\* bytes in one chunk.
Said(protocol, key) == heard[protocol][key].said
AtOnce(protocol, key) ==
    LET h == heard[protocol][key]
        new == [NewState(protocol) EXCEPT !.start = h.from, !.next = h.from, !.ordinal = h.ordinal]
    IN  Push(protocol, new, h.fed).messages

StreamProtocols == Protocols \ {"dns"}
WithinLimits(protocol, key) == Len(heard[protocol][key].fed) <= MaxHeaderBytes

\* However a stream whose lines all end alike is cut into chunks, a parser finds
\* the messages and errors, with their places, that it finds in the whole (the push
\* functions), of frames and records from one error to the next: what follows an
\* error in its chunk is lost (clear_buffer), so where the parser goes on depends on
\* the cuts. A chunk that ends between CR and LF may make the HTTP parser give up
\* early (find_chunked_body_end), and till then it finds no other messages.
CutIndependent ==
    \A p \in StreamProtocols : \A key \in DOMAIN heard[p] :
        WithinLimits(p, key) =>
            IF heard[p][key].split
            THEN IsPrefix(BeforeError(Said(p, key)), AtOnce(p, key))
            ELSE Told(Said(p, key)) = Told(AtOnce(p, key))

\* The same without an exception for HTTP: its parsing records the boundaries of
\* messages and chunked bodies (README.md:59-63) of a TCP stream, which has no
\* boundaries of its own.
CutsDoNotMatter ==
    \A p \in StreamProtocols : \A key \in DOMAIN heard[p] :
        WithinLimits(p, key) => Told(Said(p, key)) = Told(AtOnce(p, key))

\* Reading a DNS name ends, whatever pointers the datagram has, and what
\* follows the name lies behind it and within the datagram (read_dns_name).
DnsNamesEnd ==
    (datagrams = 0 /\ \A key \in DOMAIN sent : sent[key] = 0) =>
        \A m \in DnsSamples : \A offset \in 0 .. Len(m) :
            LET name == ReadName(m, offset)
            IN  /\ name.result # "Running"
                /\ name.result = "Name" => name.next \in offset + 1 .. Len(m)

=============================================================================
