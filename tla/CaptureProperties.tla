------------------------- MODULE CaptureProperties -------------------------
(***************************************************************************)
(* What capture promises, stated over Capture.                             *)
(***************************************************************************)
EXTENDS Capture

\* Every variable holds values of its kind.
TypeOK ==
  /\ alive \subseteq Command
  /\ send \in [Event -> {"idle", "skipped", "dial", "write", "spool", "append",
                         "delivered", "spooled", "late"}]
  /\ fd \in [Event -> Event \cup {NoFile}]
  /\ conn \in [Event -> {"none", "queued", "accepted"}]
  /\ spool \in Event \cup {NoFile}
  /\ draining \in Event \cup {NoFile}
  /\ content \in [Event -> SUBSET Event]
  /\ daemon \in {"down", "scanOld", "removeOld", "rename", "scanNew", "removeNew",
                 "list", "judge", "serve"}
  /\ read \subseteq Event
  /\ live \subseteq Command
  /\ store \subseteq Event
  /\ orphans \subseteq Command
  /\ setting \in Settings

\* The lines a daemon that starts now would find.
Findable == UNION {content[f] : f \in {spool, draining} \ {NoFile}}

\* An event appended to the spool stays findable until it is stored, wherever
\* in DrainSpool the daemon is stopped and however often it is started again.
SpooledIsSafe ==
  "disk" \notin setting =>
    \A e \in Event : send[e] = "spooled" => e \in store \/ e \in Findable

\* Whatever a sender wrote, to the spool or to the file that was the spool when
\* it was opened, stays findable until it is stored: "nothing is lost to a
\* truncate race" (daemon.go, DrainSpool).
NothingLostToDrain ==
  "disk" \notin setting =>
    \A e \in Event : send[e] \in {"spooled", "late"} => e \in store \/ e \in Findable

\* An event the socket took is stored or still connected to a daemon that will
\* read it: with no daemon stopping, a sender may rely on a successful write.
DeliveredIsSafe ==
  setting \cap {"stop", "disk"} = {} =>
    \A e \in Event : send[e] = "delivered" => e \in store \/ conn[e] # "none"

\* A start that succeeded drained the spool: what was spooled is not left
\* waiting under the name of a file that is being replayed once the daemon
\* serves, so the next rename cannot overwrite it.
ServingHasDrained ==
  "disk" \notin setting /\ daemon \in {"list", "judge", "serve"} => draining = NoFile

\* An event in the spool reaches the database.
SpooledIsStored ==
  \A e \in Event : send[e] = "spooled" ~> e \in store

\* A recorded command whose shell went away does not stay running: it gets its
\* result or is marked orphaned.
DeadShellIsNoticed ==
  \A c \in Command :
    <<c, "start">> \in store /\ c \notin alive ~> c \notin Running

\* Daemons come and go, as machines are switched off and on, and some live
\* long enough to serve; a command is not younger than sweepGrace for ever.
Fairness ==
  /\ []<>(daemon = "down")
  /\ []<>(daemon = "serve")
  /\ \A c \in Command : SF_vars(MarkOrphan(c))

FairSpec == Spec /\ Fairness

=============================================================================
