------------------------------- MODULE MCSync -------------------------------
(***************************************************************************)
(* Two machines, one engine each.  Machine a may record every id and b id  *)
(* 2, a history line both import.                                          *)
(***************************************************************************)
EXTENDS SyncProperties

CONSTANTS a, b, ea, eb

MCDevice == {a, b}
MCEngine == {ea, eb}
MCDeviceOf == [e \in MCEngine |-> IF e = ea THEN a ELSE b]
MCEvent == 1..3
MCRecorders == [id \in MCEvent |-> IF id = 2 THEN {a, b} ELSE {a}]
MCFaultModels == {{"clock"}, {"failure"}}
=============================================================================
