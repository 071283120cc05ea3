--------------------------- MODULE MCSyncStreams ----------------------------
(***************************************************************************)
(* As MCSync, small enough for refinement and liveness: a records two      *)
(* events, one per batch, and only b reads.                                *)
(***************************************************************************)
EXTENDS SyncProperties

CONSTANTS a, b, ea, eb

MCDevice == {a, b}
MCEngine == {ea, eb}
MCDeviceOf == [e \in MCEngine |-> IF e = ea THEN a ELSE b]
MCEvent == 1..2
MCRecorders == [id \in MCEvent |-> {a}]
MCFaultModels == {{"clock"}, {"failure"}}
=============================================================================
