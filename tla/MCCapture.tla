----------------------------- MODULE MCCapture ------------------------------
(***************************************************************************)
(* Two commands, of which a skip rule matches one: up to three senders at  *)
(* once.  A condition only adds behaviours, but for socket activation:     *)
(* so daemons may stop and calls time out, with and without it.  That no   *)
(* daemon stops, and that disks fail, come apart.                          *)
(***************************************************************************)
EXTENDS CaptureProperties

CONSTANTS c1, c2

MCCommand == {c1, c2}
MCSettings == {{"activated", "stop", "timeout"}, {"stop", "timeout"}, {"activated"}, {}, {"disk"}}
MCNothingFails == {{}}
=============================================================================
