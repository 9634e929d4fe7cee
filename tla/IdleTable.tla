----------------------------- MODULE IdleTable -----------------------------
(***************************************************************************)
(* The eviction rule the flow table, the stream inventory and the content  *)
(* store share (src/src/flow/mod.rs, stream_inventory.rs,                  *)
(* stream_content.rs): a table of records with a last_seen time, swept of  *)
(* idle records now and then, which makes room for a new key by dropping   *)
(* the idle ones, or else one that was seen least recently.  Time is the   *)
(* capture's timestamp, which may go back.                                 *)
(***************************************************************************)
EXTENDS Integers, FiniteSets, Functions, Maps

\* evict_idle: idle for longer than the timeout (saturating, so never before).
Expired(records, now, timeout) ==
    {k \in DOMAIN records : now - records[k].last_seen > timeout}

\* min_by_key over a hash map: which of several equally old ones is open.
Oldest(records) ==
    {k \in DOMAIN records : \A l \in DOMAIN records : records[k].last_seen <= records[l].last_seen}

Without(records, keys) == Restrict(records, DOMAIN records \ keys)

\* should_evict, evict_idle: the n-th packet sweeps when `every` divides n.
Swept(records, n, now, timeout, every) ==
    IF n % every = 0 THEN Expired(records, now, timeout) ELSE {}

\* Mutant: only idle records make room.
EvictionsIdleOnly(records, key, now, timeout, max) ==
    IF key \in DOMAIN records \/ Cardinality(DOMAIN records) < max THEN {{}}
    ELSE {Expired(records, now, timeout)}

\* The sets of keys that may go to make room for `key` in a table of at most max >= 1.
Evictions(records, key, now, timeout, max) ==
    LET idle == Expired(records, now, timeout)
        rest == Without(records, idle)
    IN  IF key \in DOMAIN records \/ Cardinality(DOMAIN records) < max THEN {{}}
        ELSE IF Cardinality(DOMAIN rest) < max THEN {idle}
        ELSE {idle \cup {k} : k \in Oldest(rest)}

=============================================================================
