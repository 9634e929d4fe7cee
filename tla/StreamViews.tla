----------------------------- MODULE StreamViews -----------------------------
(***************************************************************************)
(* The live API's stream view at work (src/src/api.rs, service_profile.rs, *)
(* on the view of src/src/stream_view.rs): the pipeline publishes batches  *)
(* of events, users mark streams and hide some by rules, and a client      *)
(* lists the streams page by page.  Every operation holds the core lock,   *)
(* so each is one step; a walk over the pages takes many.                  *)
(***************************************************************************)
EXTENDS StreamView, FiniteSetsExt

CONSTANTS
    Batches,        \* the batches of events the pipeline may publish
    Patches,        \* patches of a stream's marks: [flow, favorite, hidden], {} where not named
    ProfileFiles,   \* service profile files: [include_builtins, profiles]
    Rules,          \* hide rules a user may add
    Queries,        \* queries a client may walk through: [limit, include_hidden, ..., profile]
    MaxSteps        \* bound: operations of the pipeline and the users

\* An id that is empty is refused when the file is read.
ASSUME StreamViewsAssumption ==
    /\ \A events \in Batches : events \in Seq(ToSet(events))
    /\ \A file \in ProfileFiles :
        /\ file.profiles \in Seq(ToSet(file.profiles))
        /\ \A p \in ToSet(file.profiles) :
            p.id # "" /\ p.priority \in Nat /\ p.hide_rules \in Seq(ToSet(p.hide_rules))
    /\ \A q \in Queries : q.limit \in Nat

VARIABLES
    view,       \* LiveCore.view
    profiles,   \* LiveApiInner.profiles
    walk,       \* the pages a client read: where it is, what it listed, and, as history,
                \* what was in the query throughout, what came anew and how much went
    steps       \* bound: operations so far

vars == <<view, profiles, walk, steps>>

-----------------------------------------------------------------------------
(* ServiceProfileSet *)

On(kind, values) == {[on |-> kind, value |-> v] : v \in values}
\* A profile: what it requires, and what else suffices; "matched" is special.
Profile(id, priority, all, any, rules) ==
    [id |-> id, priority |-> priority, enabled |-> TRUE, matched |-> id = "matched",
     all |-> all, any |-> any, hide_rules |-> rules]
Tcp == On("protocol", {"tcp"})
Hide(kind, value) == <<[on |-> kind, value |-> value]>>

\* builtin, by falling priority.
Builtins ==
    << Profile("http", 100, Tcp, On("service", {"http", "http2"})
            \cup On("port", {80, 8000, 8008, 8080, 8081, 8888}), Hide("service", "http")),
       Profile("https", 97, Tcp, On("service", {"https"}) \cup On("port", {443, 8443}),
            Hide("service", "https")),
       Profile("tls", 95, Tcp, On("service", {"tls"}), Hide("service", "tls")),
       Profile("dns", 90, {}, On("service", {"dns", "mdns", "llmnr"}) \cup On("port", {53, 5353, 5355}),
            Hide("service", "dns")),
       Profile("websocket", 80, Tcp, On("service", {"websocket", "http"})
            \cup On("port", {80, 8000, 8008, 8080, 8081, 8888}), <<>>),
       Profile("binary", 20, {}, On("content_kind", {"Binary"}), Hide("content_kind", "Binary")),
       Profile("matched", 10, {}, {}, <<>>) >>

\* Mutant: a profile of the file does not replace the one of its name.
UpsertProfileTwice(set, profile) == Append(set, profile)
\* upsert: the last one of a name is kept.
Retain(id, kept, p) == IF p.id = id THEN kept ELSE Append(kept, p)
Others(set, id) == FoldLeft(LAMBDA kept, p : Retain(id, kept, p), <<>>, set)
UpsertProfile(set, profile) == Append(Others(set, profile.id), profile)
UpsertProfiles(set, file) == FoldLeft(UpsertProfile, set, file)

\* from_json_str: a stable sort by falling priority.
Load(file) ==
    LET set == UpsertProfiles(IF file.include_builtins THEN Builtins ELSE <<>>, file.profiles)
        before(i, j) == set[i].priority > set[j].priority \/ (set[i].priority = set[j].priority /\ i < j)
        rank(i) == Cardinality({j \in DOMAIN set : before(j, i)}) + 1
    IN  [k \in DOMAIN set |-> set[CHOOSE i \in DOMAIN set : rank(i) = k]]

\* get
ProfileOf(set, id) == set[CHOOSE i \in DOMAIN set : set[i].id = id]

\* into_view_query: the page's cursor and the profile by its name.
ViewQuery(q, cursor) ==
    [cursor |-> cursor, limit |-> q.limit, include_hidden |-> q.include_hidden,
     only_favorites |-> q.only_favorites, only_matched |-> q.only_matched, all |-> q.all,
     profiles |-> IF q.profile = "" THEN {} ELSE {ProfileOf(profiles, q.profile)}]

-----------------------------------------------------------------------------
NoWalk == [reading |-> FALSE, finished |-> FALSE]

Init ==
    /\ view = NewView
    /\ profiles \in {Load(file) : file \in ProfileFiles}
    /\ walk = NoWalk
    /\ steps = 0

\* History: what an operation means for a walk under way.
InWalk(v, q) == {f \in Tracked(v) : InQuery(v, f, ViewQuery(q, 0))}
Watched(old, new) ==
    LET gone == new.stats.evicted - old.stats.evicted
        stayed == {old.order[i] : i \in gone + 1 .. Len(old.order)}
    IN  IF ~ walk.reading THEN walk
        ELSE [walk EXCEPT !.throughout = @ \cap stayed \cap InWalk(new, walk.query),
                          !.anew = @ \cup (Tracked(new) \ stayed), !.gone = @ + gone]

Become(v) ==
    /\ steps < MaxSteps /\ steps' = steps + 1
    /\ view' = v
    /\ walk' = Watched(view, v)
    /\ UNCHANGED profiles

\* publish_events
Publish(events) == Become(ObserveEvents(view, events))

\* update_stream_state: what the patch names, for a stream that is tracked.
UpdateStreamState(p) ==
    LET marked == IF p.favorite = {} THEN view ELSE SetFavorite(view, p.flow, TRUE \in p.favorite)
    IN  /\ p.flow \in Tracked(view)
        /\ Become(IF p.hidden = {} THEN marked ELSE SetHidden(marked, p.flow, TRUE \in p.hidden))

\* add_hide_rule, add_profile_hide_rules
AddHideRules(v, rules) == FoldLeft(AddHideRule, v, rules)
AddRules(rules) == Become(AddHideRules(view, rules))
AddProfileRules(profile) == AddRules(profile.hide_rules)

\* clear_hide_rules
ClearRules == Become(ClearHideRules(view))

\* A client asks for the first page, ...
StartWalk(q) ==
    /\ ~ walk.reading
    /\ q.profile # "" => \E i \in DOMAIN profiles : profiles[i].id = q.profile
    /\ walk' = [reading |-> TRUE, finished |-> FALSE, query |-> q, cursor |-> 0, listed |-> <<>>,
                throughout |-> InWalk(view, q), anew |-> {}, gone |-> 0]
    /\ UNCHANGED <<view, profiles, steps>>

\* ... and for the next until there is none.
TurnPage ==
    /\ walk.reading
    /\ LET page == Query(view, ViewQuery(walk.query, walk.cursor))
       IN  walk' = [walk EXCEPT !.listed = @ \o page.rows, !.cursor = page.next,
                                !.reading = page.next # -1, !.finished = page.next = -1]
    /\ UNCHANGED <<view, profiles, steps>>

Next ==
    \/ \E events \in Batches : Publish(events)
    \/ \E patch \in Patches : UpdateStreamState(patch)
    \/ \E rule \in Rules : AddRules(<<rule>>)
    \/ \E i \in DOMAIN profiles : AddProfileRules(profiles[i])
    \/ ClearRules
    \/ \E q \in Queries : StartWalk(q)
    \/ TurnPage

Spec == Init /\ [][Next]_vars

-----------------------------------------------------------------------------
(* Properties *)

\* The view keeps what it says about a stream in six places, of which every
\* operation changes some: they agree, within their limits, and no name of a
\* profile is taken twice.
TypeOK ==
    /\ Cardinality(Tracked(view)) <= MaxViewStreams
    /\ IsInjective(view.order) /\ ToSet(view.order) = Tracked(view)
    /\ view.favorites \cup view.manually_hidden \subseteq Tracked(view)
    /\ view.matched = {f \in Tracked(view) : view.streams[f].match_count # 0}
    /\ \A p \in DOMAIN view.pattern_index :
            view.pattern_index[p] = {f \in Tracked(view) : p \in view.streams[f].pattern_ids}
    /\ \A f \in Tracked(view) : view.streams[f].pattern_ids \subseteq DOMAIN view.pattern_index
    /\ view.stats.stored = SumFunction([f \in Tracked(view) |-> Len(view.streams[f].matches)])
    /\ \A f \in Tracked(view) : Len(view.streams[f].matches) =
            Min({view.streams[f].match_count, MaxViewMatches})
    /\ IsInjective(view.hide_rules)
    /\ \A i, j \in DOMAIN profiles : profiles[i].id = profiles[j].id => i = j

\* A client that walks through the pages of a query while streams come and go
\* sees none twice, unless it went and came back, and misses at most as many of
\* those it asked for as went meanwhile.
PagingIsFair ==
    walk.reading \/ walk.finished =>
        /\ \A i, j \in DOMAIN walk.listed :
                walk.listed[i] = walk.listed[j] => i = j \/ walk.listed[i] \in walk.anew
        /\ walk.finished =>
                Cardinality(walk.throughout \ ToSet(walk.listed)) <= walk.gone

\* The rows of all the pages of a query, read at once.
Turned(q, read) ==
    LET page == Query(view, ViewQuery(q, read.next))
    IN  IF read.next = -1 THEN read ELSE [rows |-> read.rows \o page.rows, next |-> page.next]
Pages(q, n) == FoldLeft(LAMBDA read, i : Turned(q, read), [rows |-> <<>>, next |-> 0],
                        [i \in 1 .. n |-> i])
Rows(q) == Pages(q, Len(view.order) + 1).rows

\* The counts shown with a profile are those of the rows that listing it gives,
\* whatever the size of a page.
ProfilesCountTheirRows ==
    \A i \in DOMAIN profiles : \A limit \in 1 .. MaxQueryLimit :
        LET q(hidden, favorite, matched) ==
                [limit |-> limit, include_hidden |-> hidden, only_favorites |-> favorite,
                 only_matched |-> matched, all |-> {}, profile |-> profiles[i].id]
            stats == ProfileStats(view, profiles[i])
        IN  /\ Len(Rows(q(TRUE, FALSE, FALSE))) = stats.total
            /\ Len(Rows(q(FALSE, FALSE, FALSE))) = stats.visible
            /\ Len(Rows(q(TRUE, TRUE, FALSE))) = stats.favorite
            /\ Len(Rows(q(TRUE, FALSE, TRUE))) = stats.matched

=============================================================================
