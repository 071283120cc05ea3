------------------------------ MODULE MCDataDir -----------------------------
(***************************************************************************)
(* Four processes: two that race and two that come after, or a key, the    *)
(* switch, a daemon and a second key, one after the other.                 *)
(***************************************************************************)
EXTENDS DataDirProperties, TLC

CONSTANTS p1, p2, p3, p4

MCProcess == {p1, p2, p3, p4}
MCSettings == {{}, {"overlap"}, {"lock"}, {"crash"}, {"read"}, {"overlap", "crash", "lock"}}
Symmetry == Permutations(MCProcess)
=============================================================================
