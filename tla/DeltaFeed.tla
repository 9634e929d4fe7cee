----------------------------- MODULE DeltaFeed -----------------------------
(***************************************************************************)
(* What /api/live/deltas promises (README.md:251-254): an endless log of   *)
(* deltas of which a client either receives every one, in order, or is     *)
(* told that it missed some.                                               *)
(***************************************************************************)
EXTENDS Integers, Sequences

CONSTANT Clients

VARIABLES
    feed,       \* all deltas ever published
    read,       \* how far each client has read
    lost,       \* up to where it has been told that deltas may be missing
    got         \* the deltas it received, each with its cursor

vars == <<feed, read, lost, got>>

Init ==
    /\ feed = <<>>
    /\ read = [c \in Clients |-> 0]
    /\ lost = [c \in Clients |-> 0]
    /\ got = [c \in Clients |-> {}]

Numbered(first, last) == {[cursor |-> i, payload |-> feed[i]] : i \in first .. last}

\* Deltas are added at the end, any number at once, and never changed.
Publish ==
    /\ Len(feed') > Len(feed)
    /\ SubSeq(feed', 1, Len(feed)) = feed
    /\ UNCHANGED <<read, lost, got>>

\* A client reads on from where it was, up to n; only a client that is told so
\* misses the deltas up to l.
Read(c, l, n) ==
    /\ l = lost[c] \/ l > read[c]
    /\ read' = [read EXCEPT ![c] = n]
    /\ lost' = [lost EXCEPT ![c] = l]
    /\ got' = [got EXCEPT ![c] = @ \cup Numbered((IF l > read[c] THEN l ELSE read[c]) + 1, n)]
    /\ UNCHANGED feed

Next ==
    \/ Publish
    \/ \E c \in Clients : \E l \in 0 .. Len(feed) : \E n \in read[c] .. Len(feed) :
        l <= n /\ Read(c, l, n)

Spec == Init /\ [][Next]_vars

\* Nothing is skipped in silence: a delta a client has read past was received, as
\* it was published, unless the client was told that it missed it.
NothingSkippedSilently ==
    \A c \in Clients : \A i \in 1 .. read[c] :
        i > lost[c] => [cursor |-> i, payload |-> feed[i]] \in got[c]
=============================================================================
