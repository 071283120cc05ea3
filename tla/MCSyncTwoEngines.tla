-------------------------- MODULE MCSyncTwoEngines --------------------------
(***************************************************************************)
(* Machine a runs the daemon's engine and, in another process, the engine  *)
(* of `shcr sync now` (or of the dashboard); machine b reads.  Nothing     *)
(* fails and no clock is corrected.                                        *)
(***************************************************************************)
EXTENDS SyncProperties

CONSTANTS a, b, daemon, cli, eb

MCDevice == {a, b}
MCEngine == {daemon, cli, eb}
MCDeviceOf == [e \in MCEngine |-> IF e = eb THEN b ELSE a]
MCEvent == 1..2
MCRecorders == [id \in MCEvent |-> {a}]
MCFaultModels == {{}}
=============================================================================
