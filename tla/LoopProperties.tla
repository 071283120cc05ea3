--------------------------- MODULE LoopProperties ---------------------------
(***************************************************************************)
(* What the sync loop promises, stated over SyncLoop.                      *)
(***************************************************************************)
EXTENDS SyncLoop

\* Every variable holds values of its kind.
LoopTypeOK ==
  /\ config \in {"none", "off", "on"} /\ saving \in {"idle", "off", "on"}
  /\ up \in BOOLEAN
  /\ recorded \subseteq OwnEvent /\ ringing \subseteq recorded
  /\ uploaded \subseteq recorded /\ owed \subseteq recorded
  /\ stage \in {"absent", "select", "check", "push", "pull"}
  /\ queued \in BOOLEAN /\ pending \in BOOLEAN /\ attempted \in BOOLEAN
  /\ sinceAttempt \in 0..Horizon /\ sinceSuccess \in 0..Horizon
  /\ backoff \in 0..Larger(Cfg.min, Cfg.maxBackoff) /\ timer \in 0..Horizon
  /\ restarts \in 0..MaxRestarts

\* Two attempts are never closer together than the floor, or than the back-off
\* where that is longer: whatever triggers arrive and however the timer was
\* set again in between (loop.go, MinInterval and delay).
FloorKept ==
  stage = "select" /\ attempted => sinceAttempt + timer >= Wait(backoff)

\* A trigger inside the floor window is not dropped: the next attempt starts
\* the moment the window closes (loop.go, Trigger).
WindowCloses ==
  stage = "select" /\ attempted /\ (pending \/ backoff > 0) =>
    timer = 0 \/ sinceAttempt + timer = Wait(backoff)

\* The ceiling: however many attempts failed or found sync switched off, the
\* loop does not sleep past the periodic deadline, or past the longest
\* back-off (loop.go, lastSuccess).
CeilingKept ==
  stage = "select" =>
    \/ timer = 0
    \/ sinceSuccess + timer <= Cfg.max + Cfg.jitter
    \/ sinceAttempt + timer <= Larger(Cfg.min, Cfg.maxBackoff)

\* How long the loop sleeps is bounded from both sides, after any succession of
\* triggers, failures, cycles that were skipped and timers set again.
WaitIsBounded == FloorKept /\ CeilingKept

\* No command that was recorded while the loop ran waits for the ceiling: its
\* trigger is about to be sent, queued, taken or being acted upon, or a retry
\* is due, until it is uploaded or an attempt finds sync switched off.
\* Appending first and telling second is what makes this so (daemon.go, ingest).
NoTriggerForgotten ==
  \A e \in owed :
    \/ e \in ringing \/ queued \/ pending \/ backoff > 0
    \/ stage \in {"check", "push"}

\* A trigger is neither dropped on its way to the loop nor once it is there.
TriggersAreServed == WindowCloses /\ NoTriggerForgotten

\* What is recorded is uploaded, also what no trigger announced and what was
\* recorded while sync was off, once sync stays on and cycles succeed.
RecordedIsUploaded ==
  <>[](Enabled /\ up /\ stage # "absent") =>
    \A e \in OwnEvent : e \in recorded ~> e \in uploaded

\* The loop and the daemon's connections run; time passes; a Save ends.
LoopFairness ==
  /\ WF_loopVars(ReceiveTrigger) /\ WF_loopVars(TimerFires)
  /\ WF_loopVars(StartCycle) /\ WF_loopVars(SkipCycle)
  /\ WF_loopVars(PushRecorded) /\ WF_loopVars(CycleDone) /\ WF_loopVars(CycleFails)
  /\ WF_loopVars(Tick) /\ WF_loopVars(EndSave)
  /\ \A e \in OwnEvent : WF_loopVars(Ring(e))

LoopFairSpec == LoopSpec /\ LoopFairness

=============================================================================
