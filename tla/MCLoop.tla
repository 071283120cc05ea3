------------------------------- MODULE MCLoop -------------------------------
(***************************************************************************)
(* One event, for which any other is a nudge.  A floor of two, a ceiling   *)
(* of five, a back-off up to three: small, and in the order of the real    *)
(* ones.  The jitter is given as in the tests, the floor is left to the    *)
(* default.                                                                *)
(***************************************************************************)
EXTENDS LoopProperties

CONSTANT e1

MCGiven == [min |-> 0, max |-> 5, jitter |-> 2, maxBackoff |-> 3]
MCDefault == [min |-> 2, max |-> 6, jitter |-> 1, maxBackoff |-> 4]
=============================================================================
