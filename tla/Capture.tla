------------------------------ MODULE Capture ------------------------------
(***************************************************************************)
(* How a command reaches the database of its own machine: shell hook,      *)
(* `shcr event` (cmd/shcr/main.go, internal/ipc/ipc.go) and the daemon     *)
(* (internal/daemon/daemon.go).                                            *)
(*                                                                         *)
(* A hook forks one sender per event and forgets it.  The sender writes to *)
(* the daemon's socket and falls back to the spool, a file any number of   *)
(* senders append to.  A daemon that starts replays the file a previous    *)
(* one left half replayed, moves the spool aside, replays that, looks for  *)
(* commands whose shell is gone, and then serves the socket.               *)
(*                                                                         *)
(* Files are inodes: a name can be moved or removed while a sender still   *)
(* holds the file open.  A file is named after the sender that created it. *)
(***************************************************************************)

CONSTANTS
  Command,      \* the command lines typed, each in a shell of its own
  Skipped,      \* those a `skip` rule of redact.conf matches
  NoFile,
  Settings      \* the sets of conditions a behaviour may run under

Event == Command \X {"start", "end"}

\* "activated": the service manager holds the socket, not the daemon.
\* "stop": the daemon may stop, killed or asked to.  "timeout": a sender may
\* not reach a daemon that is there.  "disk": a file or database call may fail.
Condition == {"activated", "stop", "timeout", "disk"}

ASSUME CaptureConstants ==
  /\ Skipped \subseteq Command
  /\ NoFile \notin Event
  /\ Settings \subseteq SUBSET Condition

VARIABLES
  alive,     \* commands whose shell still exists
  send,      \* how far the sender of an event is, or how it ended
  fd,        \* the file a sender has open
  conn,      \* a sender's connection: not there, queued, or accepted
  spool,     \* the file the spool's name refers to
  draining,  \* the file the name of the spool being replayed refers to
  content,   \* the lines in a file
  daemon,    \* where the daemon is in Run and DrainSpool
  read,      \* drainFile: lines scanned
  live,      \* SweepOrphans: commands listed and not judged yet
  store,     \* events in the database
  orphans,   \* commands with an orphan event in the database
  setting    \* the conditions of this behaviour, a choice made once

sender == <<send, fd, conn>>
files  == <<spool, draining, content>>
db     == <<store, orphans>>
vars   == <<alive, sender, files, daemon, read, live, db, setting>>

Init ==
  /\ alive = Command
  /\ send = [e \in Event |-> "idle"]
  /\ fd = [e \in Event |-> NoFile]
  /\ conn = [e \in Event |-> "none"]
  /\ spool = NoFile
  /\ draining = NoFile
  /\ content = [f \in Event |-> {}]
  /\ daemon = "down"
  /\ read = {}
  /\ live = {}
  /\ store = {}
  /\ orphans = {}
  /\ setting \in Settings

-----------------------------------------------------------------------------
(* The shell. *)

\* preexec, and `shcr event start` up to redaction: a skipped command sends
\* nothing.
StartCommand(c) ==
  /\ c \in alive
  /\ send[<<c, "start">>] = "idle"
  /\ send' = [send EXCEPT ![<<c, "start">>] = IF c \in Skipped THEN "skipped" ELSE "dial"]
  /\ UNCHANGED <<alive, fd, conn, files, daemon, read, live, db, setting>>

\* postexec: the hook knows the command's id and its exit status, nothing else.
FinishCommand(c) ==
  /\ c \in alive
  /\ send[<<c, "start">>] # "idle"
  /\ send[<<c, "end">>] = "idle"
  /\ send' = [send EXCEPT ![<<c, "end">>] = "dial"]
  /\ UNCHANGED <<alive, fd, conn, files, daemon, read, live, db, setting>>

\* The shell exits, with its command or after it; senders it forked live on.
ExitShell(c) ==
  /\ c \in alive
  /\ send[<<c, "start">>] # "idle"
  /\ alive' = alive \ {c}
  /\ UNCHANGED <<sender, files, daemon, read, live, db, setting>>

-----------------------------------------------------------------------------
(* ipc.Send. *)

Listening == "activated" \in setting \/ daemon # "down"

Dial(e) ==
  /\ send[e] = "dial"
  /\ \/ /\ Listening
        /\ send' = [send EXCEPT ![e] = "write"]
        /\ conn' = [conn EXCEPT ![e] = "queued"]
     \/ /\ ~Listening \/ "timeout" \in setting
        /\ send' = [send EXCEPT ![e] = "spool"]
        /\ UNCHANGED conn
  /\ UNCHANGED <<alive, fd, files, daemon, read, live, db, setting>>

\* A write succeeds when the kernel has the line, read by the daemon or not.
Write(e) ==
  /\ send[e] = "write"
  /\ \/ /\ conn[e] # "none"
        /\ send' = [send EXCEPT ![e] = "delivered"]
        /\ UNCHANGED conn
     \/ /\ conn[e] = "none" \/ "timeout" \in setting
        /\ send' = [send EXCEPT ![e] = "spool"]
        /\ conn' = [conn EXCEPT ![e] = "none"]
  /\ UNCHANGED <<alive, fd, files, daemon, read, live, db, setting>>

\* O_APPEND|O_CREATE: the file the name refers to now, or a new one.
OpenSpool(e) ==
  LET f == IF spool = NoFile THEN e ELSE spool IN
  /\ send[e] = "spool"
  /\ spool' = f
  /\ fd' = [fd EXCEPT ![e] = f]
  /\ send' = [send EXCEPT ![e] = "append"]
  /\ UNCHANGED <<alive, conn, draining, content, daemon, read, live, db, setting>>

\* The line goes to the file that was opened; whether that still is the spool
\* the sender does not know.
Append(e) ==
  /\ send[e] = "append"
  /\ content' = [content EXCEPT ![fd[e]] = @ \cup {e}]
  /\ send' = [send EXCEPT ![e] = IF fd[e] = spool THEN "spooled" ELSE "late"]
  /\ UNCHANGED <<alive, fd, conn, spool, draining, daemon, read, live, db, setting>>

-----------------------------------------------------------------------------
(* Daemon.Run up to serving: DrainSpool. *)

\* The socket is there before the spool is drained.
StartDaemon ==
  /\ daemon = "down"
  /\ daemon' = "scanOld"
  /\ UNCHANGED <<alive, sender, files, read, live, db, setting>>

Scanning == daemon \in {"scanOld", "scanNew"} /\ draining # NoFile

\* ingest of one line.  AppendEvent is a no-op on a known event, and a line
\* that fails is logged and passed.
ScanLine(e) ==
  /\ Scanning
  /\ e \in content[draining] \ read
  /\ read' = read \cup {e}
  /\ store' = store \cup {e} \/ ("disk" \in setting /\ UNCHANGED store)
  /\ UNCHANGED <<alive, sender, files, daemon, live, orphans, setting>>

\* End of file, or an error: the deferred Remove follows either way.
EndScan ==
  /\ Scanning
  /\ content[draining] \subseteq read \/ "disk" \in setting
  /\ daemon' = IF daemon = "scanOld" THEN "removeOld" ELSE "removeNew"
  /\ UNCHANGED <<alive, sender, files, read, live, db, setting>>

RemoveFile ==
  /\ daemon \in {"removeOld", "removeNew"}
  /\ draining' = NoFile
  /\ read' = {}
  /\ daemon' = IF daemon = "removeOld" THEN "rename" ELSE "list"
  /\ UNCHANGED <<alive, sender, spool, content, live, db, setting>>

\* Wrong: does not look for a file a previous daemon left.
OverlookLeftovers ==
  /\ daemon = "scanOld"
  /\ daemon' = "rename"
  /\ UNCHANGED <<alive, sender, files, read, live, db, setting>>

\* Wrong: returns when there is no such file.
DrainOnlyLeftovers ==
  /\ daemon = "scanOld"
  /\ draining = NoFile
  /\ daemon' = "list"
  /\ UNCHANGED <<alive, sender, files, read, live, db, setting>>

NothingLeftBehind ==
  /\ daemon = "scanOld"
  /\ draining = NoFile
  /\ daemon' = "rename"
  /\ UNCHANGED <<alive, sender, files, read, live, db, setting>>

RenameSpool ==
  /\ daemon = "rename"
  /\ spool # NoFile
  /\ draining' = spool
  /\ spool' = NoFile
  /\ daemon' = "scanNew"
  /\ UNCHANGED <<alive, sender, content, read, live, db, setting>>

\* No spool to drain, or DrainSpool returns an error, which Run only logs.
SkipDrain ==
  /\ \/ daemon = "rename" /\ spool = NoFile
     \/ "disk" \in setting /\ daemon \in {"scanOld", "scanNew", "rename"}
  /\ daemon' = "list"
  /\ read' = {}
  /\ UNCHANGED <<alive, sender, files, live, db, setting>>

-----------------------------------------------------------------------------
(* SweepOrphans: once before serving, then every minute beside it. *)

\* Wrong: lists start events, not commands.
RunningEvents == {e \in store : e[2] = "start" /\ <<e[1], "end">> \notin store}

Running ==
  {c \in Command : <<c, "start">> \in store /\ <<c, "end">> \notin store /\ c \notin orphans}

\* Wrong: lists what still has a shell.
ListWithShell ==
  /\ daemon = "list" \/ (daemon = "serve" /\ live = {})
  /\ live' = Running \cap alive
  /\ daemon' = IF daemon = "list" THEN "judge" ELSE daemon
  /\ UNCHANGED <<alive, sender, files, read, db, setting>>

ListLive ==
  /\ daemon = "list" \/ (daemon = "serve" /\ live = {})
  /\ live' = Running
  /\ daemon' = IF daemon = "list" THEN "judge" ELSE daemon
  /\ UNCHANGED <<alive, sender, files, read, db, setting>>

\* The shell is there, or the command is younger than sweepGrace.
PassOver(c) ==
  /\ c \in live
  /\ live' = live \ {c}
  /\ UNCHANGED <<alive, sender, files, daemon, read, db, setting>>

MarkOrphan(c) ==
  /\ c \in live \ alive
  /\ orphans' = orphans \cup {c}
  /\ live' = live \ {c}
  /\ UNCHANGED <<alive, sender, files, daemon, read, store, setting>>

\* A database error ends the sweep.
AbandonSweep ==
  /\ "disk" \in setting
  /\ live # {}
  /\ live' = {}
  /\ UNCHANGED <<alive, sender, files, daemon, read, db, setting>>

-----------------------------------------------------------------------------
(* Serving. *)

Serve ==
  /\ daemon = "judge"
  /\ live = {}
  /\ daemon' = "serve"
  /\ UNCHANGED <<alive, sender, files, read, live, db, setting>>

\* Wrong: serves one sender and hangs up on the others.
AcceptAlone(e) ==
  /\ daemon = "serve"
  /\ conn[e] = "queued"
  /\ conn' = [f \in Event |-> IF f = e THEN "accepted" ELSE "none"]
  /\ UNCHANGED <<alive, send, fd, files, daemon, read, live, db, setting>>

Accept(e) ==
  /\ daemon = "serve"
  /\ conn[e] = "queued"
  /\ conn' = [conn EXCEPT ![e] = "accepted"]
  /\ UNCHANGED <<alive, send, fd, files, daemon, read, live, db, setting>>

\* handleConn and ingest: what fails is logged, and gone.
Ingest(e) ==
  /\ conn[e] = "accepted"
  /\ send[e] = "delivered"
  /\ store' = store \cup {e} \/ ("disk" \in setting /\ UNCHANGED store)
  /\ conn' = [conn EXCEPT ![e] = "none"]
  /\ UNCHANGED <<alive, send, fd, files, daemon, read, live, orphans, setting>>

\* Killed, or told to stop: Run returns when the listener closes and nothing
\* waits for the handlers.  Connections nobody accepted survive in a socket
\* the service manager holds.
StopDaemon ==
  /\ "stop" \in setting
  /\ daemon # "down"
  /\ daemon' = "down"
  /\ conn' = [e \in Event |-> IF "activated" \in setting /\ conn[e] = "queued"
                             THEN "queued" ELSE "none"]
  /\ read' = {}
  /\ live' = {}
  /\ UNCHANGED <<alive, send, fd, files, db, setting>>

-----------------------------------------------------------------------------
Shell == \E c \in Command : StartCommand(c) \/ FinishCommand(c) \/ ExitShell(c)

Send(e) == Dial(e) \/ Write(e) \/ OpenSpool(e) \/ Append(e)

DrainSpool ==
  \/ \E e \in Event : ScanLine(e)
  \/ EndScan
  \/ RemoveFile
  \/ NothingLeftBehind
  \/ RenameSpool
  \/ SkipDrain

Sweep ==
  \/ ListLive
  \/ \E c \in Command : PassOver(c) \/ MarkOrphan(c)
  \/ AbandonSweep

Next ==
  \/ Shell
  \/ \E e \in Event : Send(e) \/ Accept(e) \/ Ingest(e)
  \/ StartDaemon
  \/ DrainSpool
  \/ Sweep
  \/ Serve
  \/ StopDaemon

Spec == Init /\ [][Next]_vars

=============================================================================
