------------------------------ MODULE MCStore ------------------------------
(***************************************************************************)
(* Machine a runs one text twice, as commands c1 and c2; b redacts c1, its *)
(* clock behind a's.  On a, the daemon and a picker refresh the cache.     *)
(***************************************************************************)
EXTENDS StoreProperties, TLC

CONSTANTS a, b, c1, c2, make, daemon, picker

MCDevice == {a, b}
MCCommand == {c1, c2}
MCText == {NoText, RedactedMarker, make}
MCRefresher == {daemon, picker}
MCSymmetry == Permutations(MCRefresher)
MCDeviceOf == [r \in MCRefresher |-> a]

Recorded(at, c, d, k, t, n) == [at |-> at, cmd |-> c, dev |-> d, kind |-> k, text |-> t, num |-> n]

Redact == Recorded(1, c1, b, "redact", NoText, 0)
Start  == Recorded(2, c1, a, "start", make, 1)
Orphan == Recorded(3, c1, a, "orphan", NoText, 0)
End    == Recorded(4, c1, a, "end", NoText, 0)
Again  == Recorded(5, c2, a, "start", make, 2)

MCEvent == {Redact, Start, Orphan, End, Again}
MCWorlds == {{Redact, Start, Orphan, End}, {Redact, Start, Again}, {Start, End, Again}}
=============================================================================
