------------------------------ MODULE SyncLoop ------------------------------
(***************************************************************************)
(* When the daemon syncs (internal/sync/loop.go, started by cmdDaemon in   *)
(* cmd/shcr/main.go): triggers from capture and nudges, the floor, the     *)
(* ceiling and the back-off, with the configuration file changing under    *)
(* the loop and the daemon restarting.  A sync cycle itself is SyncEngine; *)
(* here it uploads whatever is recorded, and fails while `up' is FALSE     *)
(* (no network, a locked keyring).                                         *)
(*                                                                         *)
(* Moments are kept as the time since them, counted up to Horizon, beyond  *)
(* which every deadline has passed.  A time that was never set is FALSE in *)
(* `attempted', or Horizon ago.                                            *)
(***************************************************************************)
EXTENDS Naturals

CONSTANTS
  OwnEvent,     \* what is recorded on this machine
  Given,        \* the LoopConfig handed to Run: min, max, jitter, maxBackoff
  Default,      \* DefaultLoopConfig
  Horizon,      \* bound on the times counted
  MaxRestarts   \* bound on the restarts of the daemon

Interval == [min : Nat, max : Nat, jitter : Nat, maxBackoff : Nat]

Larger(m, n) == IF m > n THEN m ELSE n

WithDefaults(c) ==
  LET min == IF c.min = 0 THEN Default.min ELSE c.min
  IN  [min |-> min,
       max |-> Larger(IF c.max = 0 THEN Default.max ELSE c.max, min),
       jitter |-> c.jitter,
       maxBackoff |-> IF c.maxBackoff = 0 THEN Default.maxBackoff ELSE c.maxBackoff]

Cfg == WithDefaults(Given)

ASSUME LoopConstants ==
  /\ Given \in Interval
  /\ Default \in Interval /\ Default.min > 0 /\ Default.max > 0 /\ Default.maxBackoff > 0
  /\ Horizon \in Nat /\ Horizon > Cfg.max + Cfg.jitter
  /\ Horizon > Cfg.maxBackoff /\ Horizon > Cfg.min
  /\ MaxRestarts \in Nat

VARIABLES
  config,     \* config.json's sync section: "none" has no backend
  saving,     \* what a Save in progress will write, or "idle": the file is empty
  up,         \* would a sync cycle succeed now
  recorded,   \* events table: own events
  ringing,    \* events whose ingest has appended, and not called OnTrigger yet
  uploaded,   \* events whose synced column is 1
  owed,       \* history: recorded through ingest with a loop to tell, and no
              \* attempt has found sync switched off since
  stage,      \* the loop: not started, in its select, before Enabled, in SyncOnce
  queued,     \* Engine.triggers, a channel of capacity one, holds a trigger
  pending,    \* Run: pending # ""
  attempted,  \* Run: ~lastAttempt.IsZero()
  sinceAttempt, sinceSuccess,
  backoff,
  timer,      \* time until timer.C fires
  restarts

settings == <<config, saving, up>>
log  == <<recorded, ringing, uploaded, owed>>
past == <<attempted, sinceAttempt, sinceSuccess>>
loop == <<stage, queued, pending, past, backoff, timer>>
loopVars == <<settings, log, loop, restarts>>

Enabled == saving = "idle" /\ config = "on"

----------------------------------------------------------------------------
(* The deadline.                                                           *)

\* Wrong: a deadline that has passed still has to come.
Later(age, deadline) == deadline + age

Until(age, deadline) == IF deadline > age THEN deadline - age ELSE 0

\* jitterOf: in [0, jitter), and 0 for no jitter.
JitterOf == {j \in 0..Cfg.jitter : j = 0 \/ j < Cfg.jitter}

\* Wrong: nothing ends the doubling.
Doubled(b) == IF b = 0 THEN Cfg.min ELSE 2 * b

NextBackoff(b) ==
  IF b = 0 THEN Cfg.min
  ELSE IF 2 * b > Cfg.maxBackoff THEN Cfg.maxBackoff ELSE 2 * b

\* The floor: after every attempt, failed or not.
Wait(b) == Larger(Cfg.min, b)

Delay(tried, attemptAge, successAge, waiting, b, j) ==
  LET floor == Until(attemptAge, Wait(b))
      periodic == Until(successAge, Cfg.max + j)
  IN  IF ~tried THEN 0
      ELSE IF waiting \/ b > 0 THEN floor
      ELSE Larger(periodic, floor)

----------------------------------------------------------------------------
(* Run.                                                                    *)

\* resetTimer, on the way to the select, with what is known by then.
Select(successAge, waiting, b) ==
  /\ stage' = "select"
  /\ \E j \in JitterOf :
       timer' = Delay(attempted, sinceAttempt, successAge, waiting, b, j)
  /\ sinceSuccess' = successAge /\ pending' = waiting /\ backoff' = b
  /\ UNCHANGED <<attempted, sinceAttempt>>

ReceiveTrigger ==
  /\ stage = "select" /\ queued
  /\ queued' = FALSE
  /\ Select(sinceSuccess, TRUE, backoff)
  /\ UNCHANGED <<settings, log, restarts>>

\* Wrong: without a trigger or a retry there is nothing to do.
TimerFiresForTrigger ==
  /\ stage = "select" /\ timer = 0
  /\ pending \/ backoff > 0
  /\ stage' = "check"
  /\ pending' = FALSE
  /\ attempted' = TRUE /\ sinceAttempt' = 0
  /\ UNCHANGED <<settings, log, queued, sinceSuccess, backoff, timer, restarts>>

TimerFires ==
  /\ stage = "select" /\ timer = 0
  /\ stage' = "check"
  /\ pending' = FALSE
  /\ attempted' = TRUE /\ sinceAttempt' = 0
  /\ UNCHANGED <<settings, log, queued, sinceSuccess, backoff, timer, restarts>>

StartCycle ==
  /\ stage = "check" /\ Enabled
  /\ stage' = "push"
  /\ UNCHANGED <<settings, log, queued, pending, past, backoff, timer, restarts>>

\* Sync is off, or the file cannot be read: nothing is remembered of why this
\* attempt was made.
SkipCycle ==
  /\ stage = "check" /\ ~Enabled
  /\ owed' = {}
  /\ Select(sinceSuccess, pending, backoff)
  /\ UNCHANGED <<settings, recorded, ringing, uploaded, queued, restarts>>

\* SyncOnce: the push, then the pull, which changes nothing here.
PushRecorded ==
  /\ stage = "push" /\ up
  /\ stage' = "pull"
  /\ uploaded' = recorded /\ owed' = owed \ recorded
  /\ UNCHANGED <<settings, recorded, ringing, queued, pending, past, backoff, timer, restarts>>

\* Wrong: a cycle that is done has served the trigger that came meanwhile.
DoneWithTrigger ==
  /\ stage = "pull" /\ up
  /\ Select(0, pending, 0)
  /\ queued' = FALSE
  /\ UNCHANGED <<settings, log, restarts>>

CycleDone ==
  /\ stage = "pull" /\ up
  /\ Select(0, pending, 0)
  /\ UNCHANGED <<settings, log, queued, restarts>>

CycleFails ==
  /\ stage \in {"push", "pull"} /\ ~up
  /\ Select(sinceSuccess, pending, NextBackoff(backoff))
  /\ UNCHANGED <<settings, log, queued, restarts>>

----------------------------------------------------------------------------
(* The daemon around the loop.                                             *)

Ingest(e) ==
  /\ e \notin recorded
  /\ recorded' = recorded \cup {e}
  /\ ringing' = ringing \cup {e}
  /\ owed' = IF stage = "absent" THEN owed ELSE owed \cup {e}
  /\ UNCHANGED <<settings, uploaded, loop, restarts>>

\* An import, a redaction or the sweep: no trigger.
AppendQuietly(e) ==
  /\ e \notin recorded
  /\ recorded' = recorded \cup {e}
  /\ UNCHANGED <<settings, ringing, uploaded, owed, loop, restarts>>

\* OnTrigger is nil without a loop; Trigger never blocks.
Trigger == queued' = (queued \/ stage # "absent")

Ring(e) ==
  /\ e \in ringing
  /\ ringing' = ringing \ {e}
  /\ Trigger
  /\ UNCHANGED <<settings, recorded, uploaded, owed, stage, pending, past, backoff, timer, restarts>>

\* A shell or a picker opens (ipc.Nudge).
Nudge ==
  /\ ~queued
  /\ Trigger
  /\ UNCHANGED <<settings, log, stage, pending, past, backoff, timer, restarts>>

\* The variables of a Run that begins, and the daemon-start trigger.
Begin(state, trigger) ==
  /\ stage' = state /\ queued' = trigger
  /\ pending' = FALSE /\ backoff' = 0 /\ timer' = 0
  /\ attempted' = FALSE /\ sinceAttempt' = Horizon /\ sinceSuccess' = Horizon

\* The daemon stops between any two steps and starts again: with a loop when
\* the configuration can be read and names a backend.
Restart ==
  /\ restarts < MaxRestarts
  /\ restarts' = restarts + 1
  /\ ringing' = {}
  /\ IF saving = "idle" /\ config # "none"
       THEN Begin("select", TRUE) /\ UNCHANGED owed
       ELSE Begin("absent", FALSE) /\ owed' = {}
  /\ UNCHANGED <<settings, recorded, uploaded>>

\* config.Save truncates the file, then writes it: `sync enable', and the
\* dashboard's switch, which refuses without a backend.
BeginSave(value) ==
  /\ saving = "idle"
  /\ config = "none" => value = "on"
  /\ saving' = value
  /\ UNCHANGED <<config, up, log, loop, restarts>>

EndSave ==
  /\ saving # "idle"
  /\ config' = saving /\ saving' = "idle"
  /\ UNCHANGED <<up, log, loop, restarts>>

\* The network, the bucket, the keyring.
Weather ==
  /\ up' = ~up
  /\ UNCHANGED <<config, saving, log, loop, restarts>>

Older(age) == IF age < Horizon THEN age + 1 ELSE age

\* Time passes while a cycle runs, and up to the deadline in the select.
Tick ==
  /\ \/ stage \in {"push", "pull"}
     \/ stage = "select" /\ timer > 0
  /\ sinceAttempt' = Older(sinceAttempt) /\ sinceSuccess' = Older(sinceSuccess)
  /\ timer' = IF stage = "select" THEN timer - 1 ELSE timer
  /\ UNCHANGED <<settings, log, stage, queued, pending, attempted, backoff, restarts>>

----------------------------------------------------------------------------
LoopInit ==
  /\ config \in {"none", "off", "on"} /\ saving = "idle" /\ up = TRUE
  /\ recorded = {} /\ ringing = {} /\ uploaded = {} /\ owed = {}
  /\ stage = IF config = "none" THEN "absent" ELSE "select"
  /\ queued = (config # "none")
  /\ pending = FALSE /\ backoff = 0 /\ timer = 0
  /\ attempted = FALSE /\ sinceAttempt = Horizon /\ sinceSuccess = Horizon
  /\ restarts = 0

LoopNext ==
  \/ ReceiveTrigger \/ TimerFires \/ StartCycle \/ SkipCycle
  \/ PushRecorded \/ CycleDone \/ CycleFails
  \/ \E e \in OwnEvent : Ingest(e) \/ AppendQuietly(e) \/ Ring(e)
  \/ Nudge \/ Restart \/ EndSave \/ Weather \/ Tick
  \/ \E value \in {"on", "off"} : BeginSave(value)

LoopSpec == LoopInit /\ [][LoopNext]_loopVars

=============================================================================
