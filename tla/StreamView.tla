----------------------------- MODULE StreamView -----------------------------
(***************************************************************************)
(* The stream view (src/src/stream_view.rs): the rows a client lists,      *)
(* built from the events of the inventory, the pattern engine and the      *)
(* parsers, with the user's favorites, hidden streams and hide rules, and  *)
(* read page by page.  Two copies run: the pipeline's and the live API's.  *)
(*                                                                         *)
(* A view is a record, an operation a function of it.  Abstractions: a     *)
(* condition on a stream (of a hide rule, a query or a profile) is         *)
(* [on, value]; decoding the JSON of an event is left out, so every event  *)
(* is well formed.                                                         *)
(***************************************************************************)
EXTENDS Integers, Sequences, FiniteSets, SequencesExt, Functions, Maps

CONSTANTS
    MaxViewStreams,     \* max_streams, at least one
    MaxViewMatches,     \* max_matches_per_stream, zero keeps none
    MaxQueryLimit,      \* max_query_limit
    Protocol(_),        \* the transport of a stream
    Ports(_)            \* the ports of a stream's endpoints

ASSUME ViewAssumption ==
    MaxViewStreams \in Nat \ {0} /\ MaxViewMatches \in Nat /\ MaxQueryLimit \in Nat \ {0}

\* StreamViewState::new
NewView ==
    [streams |-> <<>>, order |-> <<>>, favorites |-> {}, manually_hidden |-> {}, matched |-> {},
     pattern_index |-> <<>>, hide_rules |-> <<>>,
     stats |-> [stored |-> 0, dropped |-> 0, orphan |-> 0, evicted |-> 0]]

Tracked(v) == DOMAIN v.streams

-----------------------------------------------------------------------------
(* Streams *)

\* Mutant: the pattern index keeps a stream that is gone.
IndexUncleaned(v, flow) == v.pattern_index

\* The pattern index without a stream; a pattern without streams goes too.
IndexWithout(v, flow) ==
    LET left == [p \in DOMAIN v.pattern_index |-> v.pattern_index[p] \ {flow}]
    IN  Restrict(left, {p \in DOMAIN left : left[p] # {}})

\* remove_stream
RemoveStream(v, flow) ==
    [v EXCEPT !.streams = Restrict(@, DOMAIN @ \ {flow}),
              !.favorites = @ \ {flow}, !.manually_hidden = @ \ {flow}, !.matched = @ \ {flow},
              !.pattern_index = IndexWithout(v, flow),
              !.stats.stored = @ - Len(v.streams[flow].matches),
              !.stats.evicted = @ + 1]

\* evict_oldest: in the order they came, whatever happened to them since.
EvictFirst(v) ==
    LET live == {i \in DOMAIN v.order : v.order[i] \in Tracked(v)}
        first == CHOOSE i \in live : \A j \in live : i <= j
    IN  IF live = {} THEN [v EXCEPT !.order = <<>>]
        ELSE [RemoveStream(v, v.order[first]) EXCEPT !.order = SubSeq(@, first + 1, Len(@))]

\* upsert_stream: the matches stay, the rest of the row is replaced.
Upsert(v, flow, row) ==
    LET room == IF Cardinality(Tracked(v)) >= MaxViewStreams THEN EvictFirst(v) ELSE v
        entry == [row |-> row, matches |-> <<>>, match_count |-> 0, pattern_ids |-> {}]
    IN  IF flow \in Tracked(v) THEN [v EXCEPT !.streams[flow].row = row]
        ELSE IF Cardinality(Tracked(room)) >= MaxViewStreams THEN room
        ELSE [room EXCEPT !.order = Append(@, flow), !.streams = Put(@, flow, entry)]

-----------------------------------------------------------------------------
(* Matches and messages *)

\* What a match adds to its stream's entry.
WithMatch(entry, m) ==
    LET kept == IF Len(entry.matches) >= MaxViewMatches THEN Tail(entry.matches) ELSE entry.matches
    IN  [entry EXCEPT !.match_count = @ + 1, !.pattern_ids = @ \cup {m.pattern},
                      !.matches = IF MaxViewMatches = 0 THEN @ ELSE Append(kept, m)]

\* observe_match
ObserveMatch(v, m) ==
    LET full == MaxViewMatches = 0 \/ Len(v.streams[m.flow].matches) >= MaxViewMatches
        indexed == IF m.pattern \in DOMAIN v.pattern_index THEN v.pattern_index[m.pattern] ELSE {}
    IN  IF m.flow \notin Tracked(v) THEN [v EXCEPT !.stats.orphan = @ + 1]
        ELSE [v EXCEPT !.streams[m.flow] = WithMatch(@, m),
                       !.matched = @ \cup {m.flow},
                       !.pattern_index = Put(@, m.pattern, indexed \cup {m.flow}),
                       !.stats.stored = IF full THEN @ ELSE @ + 1,
                       !.stats.dropped = IF full THEN @ + 1 ELSE @]

\* service_from_message: a message is [flow, protocol, https, side, error].
ServiceOf(m) ==
    [name |-> IF m.protocol = "tls" /\ m.https THEN "https" ELSE m.protocol, side |-> m.side,
     confidence |-> 100, source |-> "Parser", evidence |-> m.protocol]

\* should_replace_service
ShouldReplace(current, next) ==
    /\ ~ (current.name = "https" /\ next.name = "tls")
    /\ \/ current.name = "unknown"
       \/ next.confidence >= current.confidence + 5
       \/ <<current.name, next.name>> \in {<<"http", "websocket">>, <<"tls", "https">>}
       \/ current.source # "Parser"

\* content_kind_from_message
KindAfter(protocol, kind) ==
    CASE protocol = "http" /\ kind = "Unknown" -> "Text"
      [] protocol = "http" /\ kind = "Binary" -> "Mixed"
      [] protocol = "websocket" /\ kind \in {"Unknown", "Binary"} -> "Mixed"
      [] protocol \in {"dns", "tls"} /\ kind = "Unknown" -> "Binary"
      [] OTHER -> kind

\* observe_protocol_message
ObserveMessage(v, m) ==
    IF m.error \/ m.flow \notin Tracked(v) THEN v
    ELSE [v EXCEPT !.streams[m.flow].row.service =
                        IF ShouldReplace(@, ServiceOf(m)) THEN ServiceOf(m) ELSE @,
                   !.streams[m.flow].row.kind = KindAfter(m.protocol, @)]

\* observe_event
ObserveEvent(v, e) ==
    CASE e.type \in {"stream_open", "stream_update"} -> Upsert(v, e.flow, e.row)
      [] e.type = "pattern_match" -> ObserveMatch(v, e.match)
      [] e.type = "protocol_message" -> ObserveMessage(v, e.message)
      [] OTHER -> v

\* observe_events
ObserveEvents(v, events) == FoldLeft(ObserveEvent, v, events)

-----------------------------------------------------------------------------
(* The user's marks *)

Marked(set, flow, on) == IF on THEN set \cup {flow} ELSE set \ {flow}

SetFavorite(v, flow, on) ==
    IF flow \in Tracked(v) THEN [v EXCEPT !.favorites = Marked(@, flow, on)] ELSE v

SetHidden(v, flow, on) ==
    IF flow \in Tracked(v) THEN [v EXCEPT !.manually_hidden = Marked(@, flow, on)] ELSE v

AddHideRule(v, rule) ==
    IF rule \in ToSet(v.hide_rules) THEN v ELSE [v EXCEPT !.hide_rules = Append(@, rule)]

ClearHideRules(v) == [v EXCEPT !.hide_rules = <<>>]

-----------------------------------------------------------------------------
(* Queries *)

\* A stream satisfies a condition.
Satisfies(v, flow, c) ==
    LET entry == v.streams[flow]
    IN  CASE c.on = "stream" -> flow = c.value
          [] c.on = "service" -> entry.row.service.name = c.value
          [] c.on = "protocol" -> Protocol(flow) = c.value
          [] c.on = "port" -> c.value \in Ports(flow)
          [] c.on = "content_kind" -> entry.row.kind = c.value
          [] c.on = "status" -> entry.row.status = c.value
          [] c.on = "pattern" -> c.value \in entry.pattern_ids

\* matches_profile: a profile is [enabled, all, matched, any].
InProfile(v, flow, profile) ==
    /\ profile.enabled
    /\ \A c \in profile.all : Satisfies(v, flow, c)
    /\ IF profile.matched THEN v.streams[flow].match_count # 0
       ELSE \E c \in profile.any : Satisfies(v, flow, c)

\* hidden_reason
Hidden(v, flow) ==
    flow \in v.manually_hidden \/ \E rule \in ToSet(v.hide_rules) : Satisfies(v, flow, rule)

\* matches_query: a query is [cursor, limit, include_hidden, only_favorites,
\* only_matched, profiles, all], of which the last two are sets to satisfy.
InQuery(v, flow, q) ==
    /\ Hidden(v, flow) => q.include_hidden
    /\ q.only_favorites => flow \in v.favorites
    /\ q.only_matched => v.streams[flow].match_count # 0
    /\ \A profile \in q.profiles : InProfile(v, flow, profile)
    /\ \A c \in q.all : Satisfies(v, flow, c)

Smaller(a, b) == IF a < b THEN a ELSE b

\* Mutant: the page after a full one starts at its last row.
NextCursorRepeats(hits, limit, order) ==
    IF Len(hits) >= limit /\ hits[limit] < Len(order) THEN hits[limit] - 1 ELSE -1

\* Where the page after one that ends with the limit-th hit starts, or -1.
NextCursor(hits, limit, order) ==
    IF Len(hits) >= limit /\ hits[limit] < Len(order) THEN hits[limit] ELSE -1

\* The places from the cursor on of the streams that match, in order.
Scan(v, q, hits, i) ==
    IF i > q.cursor /\ v.order[i] \in Tracked(v) /\ InQuery(v, v.order[i], q) THEN Append(hits, i) ELSE hits
Hits(v, q) == FoldLeft(LAMBDA hits, i : Scan(v, q, hits, i), <<>>, [i \in DOMAIN v.order |-> i])

\* query: a cursor counts the streams before the page.
Query(v, q) ==
    LET limit == Smaller(IF q.limit = 0 THEN 1 ELSE q.limit, MaxQueryLimit)
        hits == Hits(v, q)
    IN  [rows |-> [i \in 1 .. Smaller(limit, Len(hits)) |-> v.order[hits[i]]],
         next |-> NextCursor(hits, limit, v.order)]

\* profile_stats
ProfileStats(v, profile) ==
    LET in == {f \in Tracked(v) : InProfile(v, f, profile)}
    IN  [total |-> Cardinality(in),
         matched |-> Cardinality({f \in in : v.streams[f].match_count # 0}),
         favorite |-> Cardinality(in \cap v.favorites),
         hidden |-> Cardinality({f \in in : Hidden(v, f)}),
         visible |-> Cardinality({f \in in : ~ Hidden(v, f)})]

=============================================================================
