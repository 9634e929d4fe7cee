-------------------------------- MODULE Maps --------------------------------
(***************************************************************************)
(* Hash maps, as functions.                                                *)
(***************************************************************************)

\* insert: an entry of a map is set, or a new one is made.
Put(map, key, value) == [k \in DOMAIN map \cup {key} |-> IF k = key THEN value ELSE map[k]]

=============================================================================
