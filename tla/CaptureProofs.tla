--------------------------- MODULE CaptureProofs ----------------------------
(***************************************************************************)
(* Proofs about Capture, for any set of commands and any conditions.       *)
(***************************************************************************)
EXTENDS CaptureProperties, TLAPS

LEMMA EventOf ==
  ASSUME NEW c \in Command
  PROVE  <<c, "start">> \in Event /\ <<c, "end">> \in Event
  BY DEF Event

-----------------------------------------------------------------------------
(* Type correctness. *)

LEMMA InitType == Init => TypeOK
  BY CaptureConstants DEF Init, TypeOK

LEMMA NextType == TypeOK /\ [Next]_vars => TypeOK'
<1> SUFFICES ASSUME TypeOK, [Next]_vars PROVE TypeOK'
  OBVIOUS
<1> USE EventOf DEF TypeOK
<1>1. CASE Shell
  <2>1. PICK c \in Command : StartCommand(c) \/ FinishCommand(c) \/ ExitShell(c)
    BY <1>1 DEF Shell
  <2> QED
    BY <2>1 DEF StartCommand, FinishCommand, ExitShell, sender, files, db
<1>2. ASSUME NEW e \in Event, Send(e) PROVE TypeOK'
  <2>1. CASE Dial(e)
    BY <2>1 DEF Dial, files, db
  <2>2. CASE Write(e)
    BY <2>2 DEF Write, files, db
  <2>3. CASE OpenSpool(e)
    BY <2>3 DEF OpenSpool, db
  <2>4. CASE Append(e)
    BY <2>4 DEF Append, db
  <2> QED
    BY <1>2, <2>1, <2>2, <2>3, <2>4 DEF Send
<1>3. ASSUME NEW e \in Event, Accept(e) \/ Ingest(e) PROVE TypeOK'
  BY <1>3 DEF Accept, Ingest, files, db
<1>4. CASE StartDaemon
  BY <1>4 DEF StartDaemon, sender, files, db
<1>5. CASE DrainSpool
  <2>1. ASSUME NEW e \in Event, ScanLine(e) PROVE TypeOK'
    BY <2>1 DEF ScanLine, sender, files
  <2>2. CASE EndScan \/ RemoveFile \/ NothingLeftBehind \/ RenameSpool \/ SkipDrain
    BY <2>2 DEF EndScan, RemoveFile, NothingLeftBehind, RenameSpool, SkipDrain, sender, files, db
  <2> QED
    BY <1>5, <2>1, <2>2 DEF DrainSpool
<1>6. CASE Sweep
  <2>1. ASSUME NEW c \in Command, PassOver(c) \/ MarkOrphan(c) PROVE TypeOK'
    BY <2>1 DEF PassOver, MarkOrphan, sender, files, db
  <2>2. CASE ListLive \/ AbandonSweep
    BY <2>2 DEF ListLive, Running, AbandonSweep, sender, files, db
  <2> QED
    BY <1>6, <2>1, <2>2 DEF Sweep
<1>7. CASE Serve
  BY <1>7 DEF Serve, sender, files, db
<1>8. CASE StopDaemon
  BY <1>8 DEF StopDaemon, files, db
<1>9. CASE UNCHANGED vars
  BY <1>9 DEF vars, sender, files, db
<1> QED
  BY <1>1, <1>2, <1>3, <1>4, <1>5, <1>6, <1>7, <1>8, <1>9 DEF Next

\* Every variable of Capture keeps its type.
THEOREM TypeCorrect == Spec => []TypeOK
  BY InitType, NextType, PTL DEF Spec

-----------------------------------------------------------------------------
(* The spool.  What is scanned is stored, so a file that is removed held   *)
(* nothing else that had been written to it while it was the spool.        *)

Draining == daemon \in {"scanOld", "removeOld", "rename", "scanNew", "removeNew"}
Removing == daemon \in {"removeOld", "removeNew"}

\* A file has the name of its creator, so nobody creates one twice, the spool
\* is never the file being replayed, and lines are written once.
FilesDistinct ==
  /\ \A f \in {spool, draining} \ {NoFile} : send[f] \in {"append", "spooled", "late"}
  /\ spool # NoFile => spool # draining
  /\ \A e \in Event : send[e] = "append" => fd[e] \in Event
  /\ \A f \in Event : \A e \in content[f] : send[e] \in {"spooled", "late"}

\* The lines scanned are stored.
ScannedIsStored == read \subseteq store

\* Where DrainSpool is when there is, or is not, a file to replay.
StagesInOrder ==
  /\ daemon \in {"scanNew", "removeNew", "removeOld"} => draining # NoFile
  /\ daemon \in {"rename", "list", "judge", "serve"} => draining = NoFile

\* Once scanned, a file holds nothing unstored that was written in time.
RemovedIsStored ==
  Removing => \A e \in content[draining] : send[e] = "spooled" => e \in store

SpoolInv ==
  "disk" \notin setting =>
    FilesDistinct /\ ScannedIsStored /\ StagesInOrder /\ RemovedIsStored /\ SpooledIsSafe

\* A step that leaves the files and the scan alone; senders that did not write
\* stay where they are or go on to something that is no file of the spool.
SpoolFrame ==
  /\ UNCHANGED <<files, setting, fd>>
  /\ store \subseteq store'
  /\ read' \subseteq read
  /\ daemon' = daemon \/ (daemon' \in {"down", "judge", "serve", "list"} /\ ~Removing /\ draining = NoFile)
                      \/ daemon' = "down"
  /\ \A e \in Event :
       /\ send[e] \in {"append", "spooled", "late"} => send'[e] = send[e]
       /\ send'[e] \in {"append", "spooled", "late"} => send'[e] = send[e]

LEMMA SpoolFrameStep == SpoolInv /\ SpoolFrame /\ TypeOK => SpoolInv'
<1> SUFFICES ASSUME SpoolInv, SpoolFrame, TypeOK, "disk" \notin setting
             PROVE  (FilesDistinct /\ ScannedIsStored /\ StagesInOrder /\ RemovedIsStored
                       /\ SpooledIsSafe)'
  BY DEF SpoolInv, SpoolFrame
<1>1. FilesDistinct /\ ScannedIsStored /\ StagesInOrder /\ RemovedIsStored /\ SpooledIsSafe
  BY DEF SpoolInv
<1>2. FilesDistinct'
  BY <1>1 DEF FilesDistinct, SpoolFrame, files, TypeOK
<1>3. ScannedIsStored' /\ StagesInOrder'
  BY <1>1 DEF ScannedIsStored, StagesInOrder, SpoolFrame, files
<1>4. RemovedIsStored'
  <2> SUFFICES ASSUME Removing, NEW e \in content[draining], send'[e] = "spooled"
               PROVE  e \in store'
    BY DEF RemovedIsStored, Removing, SpoolFrame, files
  <2>1. e \in Event
    BY <1>1 DEF StagesInOrder, Removing, TypeOK
  <2>2. send[e] = "spooled"
    BY <2>1 DEF SpoolFrame
  <2> QED
    BY <1>1, <2>2 DEF RemovedIsStored, SpoolFrame
<1>5. SpooledIsSafe'
  BY <1>1 DEF SpooledIsSafe, Findable, SpoolFrame, files
<1> QED
  BY <1>2, <1>3, <1>4, <1>5

LEMMA SpoolStep == TypeOK /\ SpoolInv /\ [Next]_vars => SpoolInv'
<1> SUFFICES ASSUME TypeOK, SpoolInv, [Next]_vars PROVE SpoolInv'
  OBVIOUS
<1> USE EventOf
<1>a. setting' = setting
  BY DEF Next, Shell, StartCommand, FinishCommand, ExitShell, Send, Dial, Write, OpenSpool, Append,
         Accept, Ingest, StartDaemon, DrainSpool, ScanLine, EndScan, RemoveFile, NothingLeftBehind,
         RenameSpool, SkipDrain, Sweep, ListLive, PassOver, MarkOrphan, AbandonSweep, Serve,
         StopDaemon, vars
<1> SUFFICES ASSUME "disk" \notin setting
             PROVE  (FilesDistinct /\ ScannedIsStored /\ StagesInOrder /\ RemovedIsStored
                       /\ SpooledIsSafe)'
  BY <1>a DEF SpoolInv
<1>b. FilesDistinct /\ ScannedIsStored /\ StagesInOrder /\ RemovedIsStored /\ SpooledIsSafe
  BY DEF SpoolInv
<1>c. ASSUME SpoolFrame
      PROVE  (FilesDistinct /\ ScannedIsStored /\ StagesInOrder /\ RemovedIsStored
                /\ SpooledIsSafe)'
  BY <1>a, <1>c, SpoolFrameStep DEF SpoolInv
<1>1. CASE Shell
  <2>1. SpoolFrame
    BY <1>1 DEF Shell, StartCommand, FinishCommand, ExitShell, SpoolFrame, sender, files, db, TypeOK
  <2> QED
    BY <2>1, <1>c
<1>2. ASSUME NEW e \in Event, Send(e)
      PROVE  (FilesDistinct /\ ScannedIsStored /\ StagesInOrder /\ RemovedIsStored
                /\ SpooledIsSafe)'
  <2>1. CASE Dial(e) \/ Write(e)
    <3>1. SpoolFrame
      BY <2>1 DEF Dial, Write, SpoolFrame, files, db, TypeOK
    <3> QED
      BY <3>1, <1>c
  <2>2. CASE OpenSpool(e)
    <3>1. /\ UNCHANGED <<draining, content, daemon, read, store, setting>>
          /\ send[e] = "spool" /\ send' = [send EXCEPT ![e] = "append"]
          /\ spool' = IF spool = NoFile THEN e ELSE spool
          /\ fd' = [fd EXCEPT ![e] = spool']
      BY <2>2 DEF OpenSpool, db
    <3>2. draining # e /\ spool # e /\ e # NoFile
      BY <1>b, <3>1, CaptureConstants DEF FilesDistinct, TypeOK
    <3>3. FilesDistinct'
      <4>1. spool' \in Event /\ spool' # draining
        BY <1>b, <3>1, <3>2, CaptureConstants DEF FilesDistinct, TypeOK
      <4>2. \A f \in {spool', draining} \ {NoFile} : send'[f] \in {"append", "spooled", "late"}
        BY <1>b, <3>1, <3>2 DEF FilesDistinct, TypeOK
      <4>3. \A f \in Event : send'[f] = "append" => fd'[f] \in Event
        BY <1>b, <3>1, <4>1 DEF FilesDistinct, TypeOK
      <4>4. \A f \in Event : \A x \in content[f] : send'[x] \in {"spooled", "late"}
        BY <1>b, <3>1 DEF FilesDistinct, TypeOK
      <4> QED
        BY <3>1, <4>1, <4>2, <4>3, <4>4 DEF FilesDistinct
    <3>4. ScannedIsStored' /\ StagesInOrder'
      BY <1>b, <3>1 DEF ScannedIsStored, StagesInOrder
    <3>5. RemovedIsStored'
      BY <1>b, <3>1 DEF RemovedIsStored, Removing, TypeOK
    <3>6. SpooledIsSafe'
      <4>1. \A f \in Event : send'[f] = "spooled" => send[f] = "spooled"
        BY <3>1 DEF TypeOK
      <4>2. Findable \subseteq Findable'
        BY <3>1 DEF Findable
      <4> QED
        BY <1>b, <3>1, <4>1, <4>2 DEF SpooledIsSafe
    <3> QED
      BY <3>3, <3>4, <3>5, <3>6
  <2>3. CASE Append(e)
    <3>1. /\ UNCHANGED <<fd, spool, draining, daemon, read, store, setting>>
          /\ send[e] = "append"
          /\ content' = [content EXCEPT ![fd[e]] = @ \cup {e}]
          /\ send' = [send EXCEPT ![e] = IF fd[e] = spool THEN "spooled" ELSE "late"]
      BY <2>3 DEF Append, db
    <3>2. fd[e] \in Event
      BY <1>b, <3>1 DEF FilesDistinct
    <3>3. FilesDistinct'
      BY <1>b, <3>1 DEF FilesDistinct, TypeOK
    <3>4. ScannedIsStored' /\ StagesInOrder'
      BY <1>b, <3>1 DEF ScannedIsStored, StagesInOrder
    <3>5. RemovedIsStored'
      <4> SUFFICES ASSUME Removing, NEW f \in content'[draining], send'[f] = "spooled"
                   PROVE  f \in store
        BY <3>1 DEF RemovedIsStored, Removing
      <4>1. draining # NoFile /\ draining \in Event
        BY <1>b DEF StagesInOrder, Removing, TypeOK
      <4>2. CASE f = e
        <5>1. fd[e] = spool /\ spool # NoFile
          BY <3>1, <3>2, <4>2, CaptureConstants DEF TypeOK
        <5>2. fd[e] # draining
          BY <1>b, <5>1 DEF FilesDistinct
        <5>3. f \in content[draining]
          BY <3>1, <3>2, <4>1, <5>2 DEF TypeOK
        <5> QED
          BY <1>b, <3>1, <4>1, <4>2, <5>3 DEF FilesDistinct
      <4>3. CASE f # e
        <5>1. f \in content[draining] /\ send[f] = "spooled"
          BY <3>1, <3>2, <4>1, <4>3 DEF TypeOK
        <5> QED
          BY <1>b, <5>1 DEF RemovedIsStored
      <4> QED
        BY <4>2, <4>3
    <3>6. SpooledIsSafe'
      <4>1. Findable \subseteq Findable'
        BY <3>1, <3>2 DEF Findable, TypeOK
      <4>2. send'[e] = "spooled" => e \in Findable'
        BY <3>1, <3>2, CaptureConstants DEF Findable, TypeOK
      <4>3. \A f \in Event \ {e} : send'[f] = send[f]
        BY <3>1 DEF TypeOK
      <4> QED
        BY <1>b, <3>1, <4>1, <4>2, <4>3 DEF SpooledIsSafe
    <3> QED
      BY <3>3, <3>4, <3>5, <3>6
  <2> QED
    BY <1>2, <2>1, <2>2, <2>3 DEF Send
<1>3. ASSUME NEW e \in Event, Accept(e) \/ Ingest(e)
      PROVE  (FilesDistinct /\ ScannedIsStored /\ StagesInOrder /\ RemovedIsStored
                /\ SpooledIsSafe)'
  <2>1. SpoolFrame
    BY <1>3 DEF Accept, Ingest, SpoolFrame, files, db
  <2> QED
    BY <2>1, <1>c
<1>4. CASE StartDaemon
  BY <1>b, <1>4 DEF StartDaemon, sender, files, db, FilesDistinct, ScannedIsStored, StagesInOrder,
                    RemovedIsStored, Removing, SpooledIsSafe, Findable
<1>5. CASE DrainSpool
  <2>1. ASSUME NEW e \in Event, ScanLine(e)
        PROVE  (FilesDistinct /\ ScannedIsStored /\ StagesInOrder /\ RemovedIsStored
                  /\ SpooledIsSafe)'
    BY <1>b, <2>1 DEF ScanLine, Scanning, sender, files, FilesDistinct, ScannedIsStored,
                      StagesInOrder, RemovedIsStored, Removing, SpooledIsSafe, Findable
  <2>2. CASE EndScan
    <3>1. /\ UNCHANGED <<send, fd, spool, draining, content, read, store, setting>>
          /\ daemon \in {"scanOld", "scanNew"} /\ draining # NoFile
          /\ content[draining] \subseteq read
          /\ daemon' \in {"removeOld", "removeNew"}
      BY <2>2 DEF EndScan, Scanning, sender, files, db
    <3>2. FilesDistinct' /\ ScannedIsStored' /\ StagesInOrder'
      BY <1>b, <3>1 DEF FilesDistinct, ScannedIsStored, StagesInOrder
    <3>3. RemovedIsStored' /\ SpooledIsSafe'
      BY <1>b, <3>1 DEF ScannedIsStored, RemovedIsStored, SpooledIsSafe, Findable
    <3> QED
      BY <3>2, <3>3
  <2>3. CASE RemoveFile
    <3>1. /\ UNCHANGED <<send, fd, spool, content, store, setting>>
          /\ Removing /\ draining' = NoFile /\ read' = {} /\ daemon' \in {"rename", "list"}
      BY <2>3 DEF RemoveFile, Removing, sender, db
    <3>2. FilesDistinct' /\ ScannedIsStored' /\ StagesInOrder' /\ RemovedIsStored'
      BY <1>b, <3>1 DEF FilesDistinct, ScannedIsStored, StagesInOrder, RemovedIsStored, Removing
    <3>3. SpooledIsSafe'
      <4> SUFFICES ASSUME NEW e \in Event, send[e] = "spooled", e \notin store
                   PROVE  e \in Findable'
        BY <3>1 DEF SpooledIsSafe
      <4>1. e \in Findable /\ e \notin content[draining]
        BY <1>b, <3>1 DEF SpooledIsSafe, RemovedIsStored
      <4> QED
        BY <3>1, <4>1 DEF Findable
    <3> QED
      BY <3>2, <3>3
  <2>4. CASE NothingLeftBehind \/ SkipDrain
    <3>1. /\ UNCHANGED <<send, fd, spool, draining, content, store, setting>>
          /\ draining = NoFile /\ read' \subseteq read /\ daemon' \in {"rename", "list"}
      BY <1>b, <2>4 DEF NothingLeftBehind, SkipDrain, StagesInOrder, sender, files, db
    <3> QED
      BY <1>b, <3>1 DEF FilesDistinct, ScannedIsStored, StagesInOrder, RemovedIsStored, Removing,
                        SpooledIsSafe, Findable
  <2>5. CASE RenameSpool
    <3>1. /\ UNCHANGED <<send, fd, content, read, store, setting>>
          /\ draining = NoFile /\ spool # NoFile
          /\ draining' = spool /\ spool' = NoFile /\ daemon' = "scanNew"
      BY <1>b, <2>5 DEF RenameSpool, StagesInOrder, sender, db
    <3>2. Findable' = Findable
      BY <3>1 DEF Findable
    <3>3. FilesDistinct' /\ ScannedIsStored' /\ StagesInOrder' /\ RemovedIsStored'
      BY <1>b, <3>1 DEF FilesDistinct, ScannedIsStored, StagesInOrder, RemovedIsStored, Removing
    <3> QED
      BY <1>b, <3>1, <3>2, <3>3 DEF SpooledIsSafe
  <2> QED
    BY <1>5, <2>1, <2>2, <2>3, <2>4, <2>5 DEF DrainSpool
<1>6. CASE Sweep
  <2>1. SpoolFrame
    BY <1>b, <1>6 DEF Sweep, ListLive, PassOver, MarkOrphan, AbandonSweep, SpoolFrame, StagesInOrder,
                      Removing, sender, files, db
  <2> QED
    BY <2>1, <1>c
<1>7. CASE Serve
  <2>1. SpoolFrame
    BY <1>b, <1>7 DEF Serve, SpoolFrame, StagesInOrder, Removing, sender, files, db
  <2> QED
    BY <2>1, <1>c
<1>8. CASE StopDaemon
  <2>1. SpoolFrame
    BY <1>8 DEF StopDaemon, SpoolFrame, files, db
  <2> QED
    BY <2>1, <1>c
<1>9. CASE UNCHANGED vars
  <2>1. SpoolFrame
    BY <1>9 DEF vars, SpoolFrame, sender, files, db
  <2> QED
    BY <2>1, <1>c
<1> QED
  BY <1>1, <1>2, <1>3, <1>4, <1>5, <1>6, <1>7, <1>8, <1>9 DEF Next

LEMMA SpoolAlways == Spec => []SpoolInv
<1>1. Init => SpoolInv
  BY DEF Init, SpoolInv, FilesDistinct, ScannedIsStored, StagesInOrder, RemovedIsStored, Removing,
         SpooledIsSafe
<1> QED
  BY <1>1, SpoolStep, TypeCorrect, PTL DEF Spec

\* An event appended to the spool is never lost, whatever step of DrainSpool
\* a daemon dies in and however many daemons follow.
THEOREM SpoolKeepsEvents == Spec => []SpooledIsSafe
<1>1. SpoolInv => SpooledIsSafe
  BY DEF SpoolInv, SpooledIsSafe
<1> QED
  BY <1>1, SpoolAlways, PTL

\* A daemon past DrainSpool has left no file half replayed.
THEOREM ServingMeansDrained == Spec => []ServingHasDrained
<1>1. SpoolInv => ServingHasDrained
  BY DEF SpoolInv, StagesInOrder, ServingHasDrained
<1> QED
  BY <1>1, SpoolAlways, PTL

-----------------------------------------------------------------------------
(* The socket. *)

LEMMA DeliveredStep == TypeOK /\ DeliveredIsSafe /\ [Next]_vars => DeliveredIsSafe'
<1> SUFFICES ASSUME TypeOK, DeliveredIsSafe, [Next]_vars,
                    setting' \cap {"stop", "disk"} = {}, NEW e \in Event, send'[e] = "delivered"
             PROVE  e \in store' \/ conn'[e] # "none"
  BY DEF DeliveredIsSafe
<1> USE EventOf DEF TypeOK
<1>1. setting' = setting
  BY DEF Next, Shell, StartCommand, FinishCommand, ExitShell, Send, Dial, Write, OpenSpool, Append,
         Accept, Ingest, StartDaemon, DrainSpool, ScanLine, EndScan, RemoveFile, NothingLeftBehind,
         RenameSpool, SkipDrain, Sweep, ListLive, PassOver, MarkOrphan, AbandonSweep, Serve,
         StopDaemon, vars
<1>2. send[e] = "delivered" => e \in store \/ conn[e] # "none"
  BY <1>1 DEF DeliveredIsSafe
<1>3. CASE Shell
  BY <1>2, <1>3 DEF Shell, StartCommand, FinishCommand, ExitShell, sender, db
<1>4. ASSUME NEW f \in Event, Send(f) PROVE e \in store' \/ conn'[e] # "none"
  <2>1. CASE Dial(f)
    BY <1>2, <2>1 DEF Dial, db
  <2>2. CASE Write(f)
    BY <1>2, <2>2 DEF Write, db
  <2>3. CASE OpenSpool(f) \/ Append(f)
    BY <1>2, <2>3 DEF OpenSpool, Append, db
  <2> QED
    BY <1>4, <2>1, <2>2, <2>3 DEF Send
<1>5. ASSUME NEW f \in Event, Accept(f) \/ Ingest(f) PROVE e \in store' \/ conn'[e] # "none"
  BY <1>1, <1>2, <1>5 DEF Accept, Ingest, db
<1>6. CASE StartDaemon \/ Serve
  BY <1>2, <1>6 DEF StartDaemon, Serve, sender, db
<1>7. CASE DrainSpool
  BY <1>2, <1>7 DEF DrainSpool, ScanLine, EndScan, RemoveFile, NothingLeftBehind, RenameSpool,
                    SkipDrain, sender, db
<1>8. CASE Sweep
  BY <1>2, <1>8 DEF Sweep, ListLive, PassOver, MarkOrphan, AbandonSweep, sender, db
<1>9. CASE StopDaemon
  BY <1>1, <1>9 DEF StopDaemon
<1>10. CASE UNCHANGED vars
  BY <1>2, <1>10 DEF vars, sender, db
<1> QED
  BY <1>3, <1>4, <1>5, <1>6, <1>7, <1>8, <1>9, <1>10 DEF Next

\* While no daemon stops, what the socket took is stored or about to be.
THEOREM SocketKeepsEvents == Spec => []DeliveredIsSafe
<1>1. Init => DeliveredIsSafe
  BY DEF Init, DeliveredIsSafe
<1> QED
  BY <1>1, DeliveredStep, TypeCorrect, PTL DEF Spec

=============================================================================
