--------------------------- MODULE PatternEngine ---------------------------
(***************************************************************************)
(* The pattern engine (src/src/pattern.rs): after the content store took   *)
(* in a packet's bytes, every new range is searched again together with    *)
(* enough bytes before it for a match across the boundary, and a match     *)
(* that reaches into the new range is reported, up to a cap for the stream *)
(* and one for the run.                                                    *)
(*                                                                         *)
(* The searches themselves are the aho-corasick and regex crates'; regexes *)
(* are of the form x+, which is enough for a match that grows.             *)
(***************************************************************************)
EXTENDS StreamContent

CONSTANTS
    Patterns,           \* sequence of [regex |-> FALSE, value |-> letters] or [regex |-> TRUE, value |-> x]
    Letter(_),          \* the letter a byte is
    RegexWindow,        \* regex_window_bytes
    MaxMatches,         \* max_total_matches
    MaxStreamMatches    \* max_matches_per_stream

ASSUME PatternAssumption ==
    /\ Len(Patterns) \in Nat /\ DOMAIN Patterns = 1 .. Len(Patterns)
    /\ \A i \in DOMAIN Patterns :
        /\ Patterns[i].regex \in BOOLEAN
        /\ ~ Patterns[i].regex => Len(Patterns[i].value) \in Nat
    /\ RegexWindow \in Nat /\ MaxMatches \in Nat \ {0} /\ MaxStreamMatches \in Nat \ {0}

VARIABLES
    matches_by_stream,  \* PatternEngine.matches_by_stream
    pattern_stats,      \* PatternEngine.stats
    pattern_events      \* the matches reported for the latest packet

pattern_vars == <<matches_by_stream, pattern_stats, pattern_events>>

PatternInit ==
    /\ matches_by_stream = <<>>
    /\ pattern_stats = [matches |-> 0, dropped |-> 0]
    /\ pattern_events = <<>>

Literals == {j \in DOMAIN Patterns : ~ Patterns[j].regex}

\* Mutant: one byte short of the longest literal.
LookbehindShort == Max({0, RegexWindow} \cup {Len(Patterns[i].value) - 2 : i \in Literals})
\* lookbehind_bytes
Lookbehind == Max({0, RegexWindow} \cup {Len(Patterns[i].value) - 1 : i \in Literals})

-----------------------------------------------------------------------------
(* The searches.  An occurrence is <<start, end>>, from zero, end excluded.   *)

Spans(bytes) == {x \in (0 .. Len(bytes)) \X (0 .. Len(bytes)) : x[1] < x[2]}
TextOf(bytes) == [i \in DOMAIN bytes |-> Letter(bytes[i])]

LiteralHits(value, bytes) ==
    {x \in Spans(bytes) : SubSeq(TextOf(bytes), x[1] + 1, x[2]) = value}

\* The maximal runs of a letter.
RegexHits(letter, bytes) ==
    LET is(i) == i \in 1 .. Len(bytes) /\ Letter(bytes[i]) = letter
    IN  {x \in Spans(bytes) : ~ is(x[1]) /\ ~ is(x[2] + 1) /\ \A i \in x[1] + 1 .. x[2] : is(i)}

HitsOf(pattern, bytes) ==
    IF pattern.regex THEN RegexHits(pattern.value, bytes) ELSE LiteralHits(pattern.value, bytes)

\* The matches of pattern i, and of all.
Finds(i, bytes) ==
    {[pattern |-> i, start |-> x[1], end |-> x[2]] : x \in HitsOf(Patterns[i], bytes)}
Occurrences(bytes) == UNION {Finds(i, bytes) : i \in DOMAIN Patterns}

\* Literals are found by where they end, longer ones first, then regex by regex.
FoundBefore(a, b) ==
    LET regex(m) == Patterns[m.pattern].regex
    IN  \/ ~ regex(a) /\ regex(b)
        \/ /\ ~ regex(a) /\ ~ regex(b)
           /\ \/ a.end < b.end
              \/ a.end = b.end /\ (a.start < b.start \/ (a.start = b.start /\ a.pattern < b.pattern))
        \/ /\ regex(a) /\ regex(b)
           /\ a.pattern < b.pattern \/ (a.pattern = b.pattern /\ a.start < b.start)

\* In the order they are found.
Candidates(bytes) ==
    LET found == Occurrences(bytes)
    IN  [k \in 1 .. Cardinality(found) |->
            CHOOSE m \in found : Cardinality({l \in found : FoundBefore(l, m)}) = k - 1]

\* The match reaches into the new range.
ReachesNew(m, range) == m.start < range.end /\ m.end > range.start

\* reserve_match
Reserve(e, m) ==
    LET reported == IF m.flow \in DOMAIN e.by_stream THEN e.by_stream[m.flow] ELSE 0
    IN  IF e.stats.matches >= MaxMatches THEN [e EXCEPT !.stats.dropped = @ + 1]
        ELSE IF reported >= MaxStreamMatches
        THEN [e EXCEPT !.by_stream = Put(@, m.flow, reported), !.stats.dropped = @ + 1]
        ELSE [e EXCEPT !.by_stream = Put(@, m.flow, reported + 1), !.stats.matches = @ + 1,
                       !.events = Append(@, m)]

\* emit_match_if_new: a match found for two ranges of the same update is reported once.
EmitIfNew(e, m, range) ==
    IF ~ ReachesNew(m, range) \/ m \in e.emitted THEN e
    ELSE Reserve([e EXCEPT !.emitted = @ \cup {m}], m)

\* scan_window
Match(flow, dir, at, m) ==
    [flow |-> flow, dir |-> dir, pattern |-> m.pattern, start |-> at + m.start, end |-> at + m.end]
ScanWindow(e, flow, range, w) ==
    FoldLeft(LAMBDA x, m : EmitIfNew(x, Match(flow, range.dir, w.start, m), range),
             e, Candidates(w.bytes))

\* What is stored around one new range of a flow.
ScanRange(e, flow, streams, range) ==
    FoldLeft(LAMBDA x, w : ScanWindow(x, flow, range, w), e,
             Windows(streams[flow].dirs[range.dir], Max({0, range.start - Lookbehind}), range.end))

\* scan_update
Scanned(flow, streams, new) ==
    FoldLeft(LAMBDA x, range : ScanRange(x, flow, streams, range),
             [emitted |-> {}, events |-> <<>>, stats |-> pattern_stats, by_stream |-> matches_by_stream],
             new)
ScanUpdate(flow, streams, new) ==
    LET e == Scanned(flow, streams, new)
    IN  /\ matches_by_stream' = e.by_stream
        /\ pattern_stats' = e.stats
        /\ pattern_events' = e.events

=============================================================================
