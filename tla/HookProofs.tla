----------------------------- MODULE HookProofs -----------------------------
(***************************************************************************)
(* The shell integrations, proved for any shells, lines and history        *)
(* settings: types, that an exit code belongs to its command, what is      *)
(* recorded and what is not, and that ids are unique while no shell        *)
(* inherits a session.                                                     *)
(***************************************************************************)
EXTENDS HookProperties, TLAPS

\* A shell that is open has a session; one that never was has no command.
SessionInv ==
  \A s \in Shell :
    /\ stage[s] # "closed" => session[s] \in Shell
    /\ session[s] = NoSession => cmdID[s] = NoID

\* The command that is open was started in the present cycle.
OpenInv ==
  \A s \in Shell : stage[s] # "closed" /\ cmdID[s] # NoID =>
    /\ stage[s] = "running"
    /\ \E e \in Starts :
         /\ e.id = cmdID[s] /\ e.shell = s /\ e.of = cycle[s]
         /\ e.text \in Background <=> bg[s]

IInv == TypeOK /\ SessionInv /\ OpenInv /\ EndReportsItsCommand

NoNesting == "nested" \notin Conditions

\* Ids carry the shell's own name, and its counter has passed them all.
CountInv ==
  /\ \A s \in Shell : session[s] \in {s, NoSession}
  /\ \A e \in Starts : e.id.session = e.shell /\ e.id.n <= seq[e.shell]

-----------------------------------------------------------------------------
LEMMA InitIInv == Init => IInv
<1> SUFFICES ASSUME Init PROVE IInv
  OBVIOUS
<1> USE HookConstants DEF Init
<1>1. TypeOK
  BY DEF TypeOK, Entry
<1>2. SessionInv
  BY DEF SessionInv
<1>3. OpenInv /\ EndReportsItsCommand
  BY DEF OpenInv, EndReportsItsCommand, Ends
<1> QED BY <1>1, <1>2, <1>3 DEF IInv

\* The history list stays one.
LEMMA RememberType ==
  ASSUME TypeOK, NEW s \in Shell, NEW l \in Line
  PROVE  Remember(s, l) \in Entry
BY HookConstants DEF TypeOK, Remember, Entry, LineRecord

\* A start is sent: by DebugTrap or by PreexecLine.
LEMMA SendStartIInv ==
  ASSUME IInv, NEW s \in Shell, stage[s] = "entered",
         NEW text \in Text \cup {NoText}, SendStart(s, text),
         lastHist' \in [Shell -> Nat], armed' \in [Shell -> BOOLEAN],
         stage' = [stage EXCEPT ![s] = "running"],
         UNCHANGED <<session, user>>
  PROVE  IInv'
<1> DEFINE new == [kind |-> "start", id |-> NextID(s), shell |-> s, of |-> cycle[s], text |-> text]
<1>1. TypeOK /\ SessionInv /\ OpenInv /\ EndReportsItsCommand /\ session[s] \in Shell
  BY DEF IInv, SessionInv
<1>2. UNCHANGED <<session, history, histFile, cycle, line, entered>>
  BY DEF user
<1>3. NextID(s) \in ID /\ NextID(s) # NoID
  BY <1>1, HookConstants DEF NextID, ID, TypeOK
<1>4. new \in Sent /\ sent' = sent \cup {new}
  BY <1>1, <1>3 DEF SendStart, Sent, TypeOK
<1>5. /\ seq' = [seq EXCEPT ![s] = seq[s] + 1]
      /\ cmdID' = [cmdID EXCEPT ![s] = NextID(s)]
      /\ bg' = [bg EXCEPT ![s] = text \in Background]
  BY DEF SendStart
<1>6. TypeOK'
  BY <1>1, <1>2, <1>3, <1>4, <1>5 DEF TypeOK
<1>7. SessionInv'
  BY <1>1, <1>2, <1>5, HookConstants DEF SessionInv, TypeOK
<1>8. Starts' = Starts \cup {new} /\ Ends' = Ends
  BY <1>4 DEF Starts, Ends
<1>9. OpenInv'
  <2>1. ASSUME NEW q \in Shell, stage'[q] # "closed", cmdID'[q] # NoID
        PROVE /\ stage'[q] = "running"
              /\ \E e \in Starts' :
                   /\ e.id = cmdID'[q] /\ e.shell = q /\ e.of = cycle'[q]
                   /\ e.text \in Background <=> bg'[q]
    <3>1. CASE q = s
      <4>1. new.id = cmdID'[q] /\ new.shell = q /\ new.of = cycle'[q]
        BY <1>1, <1>2, <1>5, <3>1 DEF TypeOK
      <4>2. new.text \in Background <=> bg'[q]
        BY <1>1, <1>5, <3>1 DEF TypeOK
      <4>3. stage'[q] = "running"
        BY <1>1, <3>1 DEF TypeOK
      <4> QED BY <1>8, <4>1, <4>2, <4>3
    <3>2. CASE q # s
      <4>1. stage'[q] = stage[q] /\ cmdID'[q] = cmdID[q] /\ bg'[q] = bg[q] /\ cycle'[q] = cycle[q]
        BY <1>1, <1>2, <1>5, <3>2 DEF TypeOK
      <4> QED BY <1>1, <1>8, <2>1, <4>1 DEF OpenInv
    <3> QED BY <3>1, <3>2
  <2> QED BY <2>1 DEF OpenInv
<1>10. EndReportsItsCommand'
  BY <1>1, <1>8 DEF EndReportsItsCommand
<1> QED BY <1>6, <1>7, <1>9, <1>10 DEF IInv

\* Nothing is sent and no command opened.
LEMMA QuietIInv ==
  ASSUME IInv, TypeOK', SessionInv', NEW s \in Shell,
         UNCHANGED <<sent, cmdID, bg>>,
         \A q \in Shell \ {s} : stage'[q] = stage[q] /\ cycle'[q] = cycle[q],
         stage'[s] = "closed" \/ cmdID[s] = NoID \/ UNCHANGED <<stage, cycle>>
  PROVE  IInv'
<1>1. Starts' = Starts /\ Ends' = Ends
  BY DEF Starts, Ends
<1>2. OpenInv'
  BY <1>1 DEF IInv, OpenInv
<1>3. EndReportsItsCommand'
  BY <1>1 DEF IInv, EndReportsItsCommand
<1> QED BY <1>2, <1>3 DEF IInv

LEMMA PrecmdIInv ==
  ASSUME IInv, NEW s \in Shell, Precmd(s)
  PROVE  IInv'
<1> DEFINE new == [kind |-> "end", id |-> cmdID[s], shell |-> s, of |-> cycle[s], text |-> NoText]
<1>1. TypeOK /\ SessionInv /\ OpenInv /\ EndReportsItsCommand
  BY DEF IInv
<1>2. /\ UNCHANGED <<session, lastHist, seq, history, histFile, cycle, line, entered>>
      /\ stage[s] = "running"
      /\ armed' = [armed EXCEPT ![s] = FALSE]
      /\ cmdID' = [cmdID EXCEPT ![s] = NoID]
      /\ bg' = [bg EXCEPT ![s] = FALSE]
      /\ stage' = [stage EXCEPT ![s] = "chain"]
  BY DEF Precmd, user
<1>3. sent' = sent \/ (sent' = sent \cup {new} /\ cmdID[s] # NoID /\ ~bg[s])
  BY DEF Precmd, SendEnd
<1>4. cmdID[s] # NoID => new \in Sent
  BY <1>1 DEF Sent, TypeOK
<1>5. TypeOK'
  BY <1>1, <1>2, <1>3, <1>4 DEF TypeOK
<1>6. SessionInv'
  BY <1>1, <1>2 DEF SessionInv, TypeOK
<1>7. Starts' = Starts
  BY <1>3 DEF Starts
<1>8. OpenInv'
  <2>1. \A q \in Shell : cmdID'[q] # NoID =>
          /\ stage'[q] = stage[q] /\ cmdID'[q] = cmdID[q] /\ bg'[q] = bg[q] /\ cycle'[q] = cycle[q]
    BY <1>1, <1>2 DEF TypeOK
  <2> QED BY <1>1, <1>7, <2>1 DEF OpenInv
<1>9. EndReportsItsCommand'
  <2>1. CASE sent' = sent
    <3>1. Ends' = Ends
      BY <2>1 DEF Ends
    <3> QED BY <1>1, <1>7, <3>1 DEF EndReportsItsCommand
  <2>2. CASE sent' = sent \cup {new} /\ cmdID[s] # NoID /\ ~bg[s]
    <3>1. Ends' = Ends \cup {new}
      BY <2>2 DEF Ends
    <3>2. PICK f \in Starts : /\ f.id = cmdID[s] /\ f.shell = s /\ f.of = cycle[s]
                              /\ f.text \in Background <=> bg[s]
      BY <1>1, <1>2, <2>2 DEF OpenInv
    <3>3. f.text \notin Background
      BY <2>2, <3>2
    <3> QED BY <1>1, <1>7, <3>1, <3>2, <3>3 DEF EndReportsItsCommand
  <2> QED BY <1>3, <2>1, <2>2
<1> QED BY <1>5, <1>6, <1>8, <1>9 DEF IInv

LEMMA NextIInv == IInv /\ [Next]_vars => IInv'
<1> SUFFICES ASSUME IInv, [Next]_vars PROVE IInv'
  OBVIOUS
<1>1. TypeOK /\ SessionInv /\ OpenInv
  BY DEF IInv
<1>2. ASSUME NEW s \in Shell, Open(s) PROVE IInv'
  <2>1. PICK id \in Shell : session' = [session EXCEPT ![s] = id]
    BY <1>1, <1>2 DEF Open, SessionInv
  <2>2. /\ cmdID[s] = NoID
        /\ history' = [history EXCEPT ![s] = histFile]
        /\ stage' = [stage EXCEPT ![s] = "running"]
        /\ UNCHANGED <<histFile, lastHist, armed, seq, cmdID, bg, cycle, line, entered, sent>>
    BY <1>1, <1>2 DEF Open, SessionInv
  <2>3. TypeOK'
    BY <1>1, <2>1, <2>2 DEF TypeOK
  <2>4. SessionInv'
    BY <1>1, <2>1, <2>2, HookConstants DEF SessionInv, TypeOK
  <2>5. \A q \in Shell \ {s} : stage'[q] = stage[q] /\ cycle'[q] = cycle[q]
    BY <1>1, <2>2 DEF TypeOK
  <2> QED BY <2>2, <2>3, <2>4, <2>5, QuietIInv
<1>3. ASSUME NEW s \in Shell, NEW l \in Line, Enter(s, l) PROVE IInv'
  <2>1. /\ history' = [history EXCEPT ![s] = Remember(s, l)]
        /\ cycle' = [cycle EXCEPT ![s] = cycle[s] + 1]
        /\ line' = [line EXCEPT ![s] = l]
        /\ entered' = entered \cup {[shell |-> s, of |-> cycle[s] + 1, line |-> l]}
        /\ stage' = [stage EXCEPT ![s] = "entered"]
        /\ UNCHANGED <<session, lastHist, armed, seq, cmdID, bg, sent, histFile>>
    BY <1>3 DEF Enter, hook
  <2>2. cmdID[s] = NoID /\ stage[s] # "closed"
    BY <1>1, <1>3 DEF Enter, TypeOK
  <2>3. TypeOK'
    <3>1. Remember(s, l) \in Entry
      BY <1>1, RememberType
    <3> QED BY <1>1, <2>1, <2>2, <3>1 DEF TypeOK
  <2>4. SessionInv'
    BY <1>1, <2>1, <2>2 DEF SessionInv, TypeOK
  <2>5. \A q \in Shell \ {s} : stage'[q] = stage[q] /\ cycle'[q] = cycle[q]
    BY <1>1, <2>1 DEF TypeOK
  <2> QED BY <2>1, <2>2, <2>3, <2>4, <2>5, QuietIInv
<1>4. ASSUME NEW s \in Shell, DebugTrap(s) PROVE IInv'
  <2>1. /\ stage[s] = "entered" /\ stage' = [stage EXCEPT ![s] = "running"]
        /\ armed' = [armed EXCEPT ![s] = FALSE]
        /\ UNCHANGED <<session, user>>
    BY <1>4 DEF DebugTrap
  <2>2. armed' \in [Shell -> BOOLEAN] /\ history[s] \in Entry /\ cmdID[s] = NoID
    BY <1>1, <2>1 DEF TypeOK
  <2>3. CASE SendStart(s, history[s].text) /\ lastHist' = [lastHist EXCEPT ![s] = history[s].num]
    <3>1. lastHist' \in [Shell -> Nat] /\ history[s].text \in Text \cup {NoText}
      BY <1>1, <2>2, <2>3 DEF TypeOK, Entry
    <3> QED BY <2>1, <2>2, <2>3, <3>1, SendStartIInv
  <2>4. CASE UNCHANGED <<lastHist, seq, cmdID, bg, sent>>
    <3>1. TypeOK'
      BY <1>1, <2>1, <2>2, <2>4 DEF TypeOK, user
    <3>2. SessionInv'
      BY <1>1, <2>1, <2>4 DEF SessionInv, TypeOK
    <3>3. \A q \in Shell \ {s} : stage'[q] = stage[q] /\ cycle'[q] = cycle[q]
      BY <1>1, <2>1 DEF TypeOK, user
    <3> QED BY <2>2, <2>4, <3>1, <3>2, <3>3, QuietIInv
  <2> QED BY <1>4, <2>3, <2>4 DEF DebugTrap
<1>5. ASSUME NEW s \in Shell, PreexecLine(s) PROVE IInv'
  <2>1. /\ stage[s] = "entered" /\ stage' = [stage EXCEPT ![s] = "running"]
        /\ UNCHANGED <<session, lastHist, armed, user>>
    BY <1>5 DEF PreexecLine
  <2>2. cmdID[s] = NoID /\ line[s].text \in Text \cup {NoText}
    BY <1>1, <2>1, HookConstants DEF TypeOK, LineRecord, EmptyLine
  <2>3. CASE SendStart(s, line[s].text)
    <3>1. lastHist' \in [Shell -> Nat] /\ armed' \in [Shell -> BOOLEAN]
      BY <1>1, <2>1 DEF TypeOK
    <3> QED BY <2>1, <2>2, <2>3, <3>1, SendStartIInv
  <2>4. CASE UNCHANGED <<seq, cmdID, bg, sent>>
    <3>1. TypeOK'
      BY <1>1, <2>1, <2>2, <2>4 DEF TypeOK, user
    <3>2. SessionInv'
      BY <1>1, <2>1, <2>4 DEF SessionInv, TypeOK
    <3>3. \A q \in Shell \ {s} : stage'[q] = stage[q] /\ cycle'[q] = cycle[q]
      BY <1>1, <2>1 DEF TypeOK, user
    <3> QED BY <2>2, <2>4, <3>1, <3>2, <3>3, QuietIInv
  <2> QED BY <1>5, <2>3, <2>4 DEF PreexecLine
<1>6. ASSUME NEW s \in Shell, Precmd(s) PROVE IInv'
  BY <1>6, PrecmdIInv
<1>7. ASSUME NEW s \in Shell, Arm(s) PROVE IInv'
  <2>1. /\ stage[s] = "chain" /\ stage' = [stage EXCEPT ![s] = "prompt"]
        /\ armed' = [armed EXCEPT ![s] = KindOf[s] = "bash"]
        /\ UNCHANGED <<session, lastHist, seq, cmdID, bg, sent, user>>
    BY <1>7 DEF Arm
  <2>2. cmdID[s] = NoID
    BY <1>1, <2>1 DEF OpenInv
  <2>3. TypeOK'
    <3>1. armed' \in [Shell -> BOOLEAN]
      BY <1>1, <2>1, Zenon DEF TypeOK
    <3> QED BY <1>1, <2>1, <2>2, <3>1 DEF TypeOK, user
  <2>4. SessionInv'
    BY <1>1, <2>1 DEF SessionInv, TypeOK
  <2>5. \A q \in Shell \ {s} : stage'[q] = stage[q] /\ cycle'[q] = cycle[q]
    BY <1>1, <2>1 DEF TypeOK, user
  <2> QED BY <2>1, <2>2, <2>3, <2>4, <2>5, QuietIInv
<1>8. ASSUME NEW s \in Shell, Exit(s) PROVE IInv'
  <2>1. /\ histFile' \in {histFile, history[s]}
        /\ stage' = [stage EXCEPT ![s] = "closed"]
        /\ UNCHANGED <<session, lastHist, armed, seq, cmdID, bg, sent, history, cycle, line, entered>>
    BY <1>8 DEF Exit, hook
  <2>2. TypeOK'
    BY <1>1, <2>1 DEF TypeOK
  <2>3. SessionInv'
    BY <1>1, <2>1 DEF SessionInv, TypeOK
  <2>4. /\ stage'[s] = "closed"
        /\ \A q \in Shell \ {s} : stage'[q] = stage[q] /\ cycle'[q] = cycle[q]
    BY <1>1, <2>1 DEF TypeOK
  <2> QED BY <2>1, <2>2, <2>3, <2>4, QuietIInv
<1>9. CASE UNCHANGED vars
  BY <1>9 DEF vars, hook, user, IInv, TypeOK, SessionInv, OpenInv, EndReportsItsCommand, Starts, Ends
<1> QED BY <1>2, <1>3, <1>4, <1>5, <1>6, <1>7, <1>8, <1>9 DEF Next

\* Type correctness.
THEOREM TypeCorrect == Spec => []TypeOK
<1>1. IInv => TypeOK
  BY DEF IInv
<1> QED BY <1>1, InitIInv, NextIInv, PTL DEF Spec

\* An exit code is reported of the command whose line it is the status of,
\* also among shells that share a session id.
THEOREM ExitCodesBelong == Spec => []EndReportsItsCommand
<1>1. IInv => EndReportsItsCommand
  BY DEF IInv
<1> QED BY <1>1, InitIInv, NextIInv, PTL DEF Spec

-----------------------------------------------------------------------------
(* Without nested shells. *)

LEMMA InitCount == Init => CountInv /\ CommandIdsUnique
BY DEF Init, CountInv, CommandIdsUnique, Starts

LEMMA SendStartCount ==
  ASSUME IInv, CountInv, CommandIdsUnique, NEW s \in Shell, stage[s] = "entered",
         NEW text, SendStart(s, text), UNCHANGED session
  PROVE  (CountInv /\ CommandIdsUnique)'
<1> DEFINE new == [kind |-> "start", id |-> NextID(s), shell |-> s, of |-> cycle[s], text |-> text]
<1>1. seq \in [Shell -> Nat] /\ session[s] = s /\ sent \subseteq Sent
  BY HookConstants DEF IInv, TypeOK, SessionInv, CountInv
<1>2. seq' = [seq EXCEPT ![s] = seq[s] + 1]
  BY DEF SendStart
<1>3. Starts' = Starts \cup {new}
  BY DEF SendStart, Starts
<1>4. new.id.session = s /\ new.id.n = seq[s] + 1 /\ new.shell = s
  BY <1>1 DEF NextID
<1>5. \A e \in Starts : e.shell \in Shell /\ e.id.n \in Nat
  BY <1>1 DEF Starts, Sent, ID
<1>6. \A e \in Starts : e.id # new.id
  <2>1. ASSUME NEW e \in Starts, e.id = new.id PROVE FALSE
    <3>1. e.shell = s /\ e.id.n <= seq[s]
      BY <1>4, <2>1 DEF CountInv
    <3> HIDE DEF new
    <3> QED BY <1>1, <1>4, <2>1, <3>1
  <2> QED BY <2>1
<1> HIDE DEF new
<1>7. CountInv'
  <2>1. \A e \in Starts : seq[e.shell] <= seq'[e.shell] /\ e.id.n <= seq[e.shell] /\ seq'[e.shell] \in Nat
    BY <1>1, <1>2, <1>5 DEF CountInv
  <2>2. \A e \in Starts : e.id.n <= seq'[e.shell]
    BY <1>1, <1>5, <2>1
  <2>3. new.id.n <= seq'[new.shell]
    BY <1>1, <1>2, <1>4
  <2> QED BY <1>3, <1>4, <2>2, <2>3 DEF CountInv
<1>8. CommandIdsUnique'
  BY <1>3, <1>6 DEF CommandIdsUnique
<1> QED BY <1>7, <1>8

LEMMA NextCount ==
  ASSUME NoNesting, IInv, CountInv, CommandIdsUnique, [Next]_vars
  PROVE  (CountInv /\ CommandIdsUnique)'
<1>1. ASSUME Starts' = Starts, UNCHANGED seq, \A s \in Shell : session'[s] \in {s, NoSession}
      PROVE  (CountInv /\ CommandIdsUnique)'
  BY <1>1 DEF CountInv, CommandIdsUnique
<1>2. session \in [Shell -> Shell \cup {NoSession}] /\ \A s \in Shell : session[s] \in {s, NoSession}
  BY DEF IInv, TypeOK, CountInv
<1>3. ASSUME NEW s \in Shell, Open(s) PROVE (CountInv /\ CommandIdsUnique)'
  BY <1>1, <1>2, <1>3 DEF Open, NoNesting, Starts
<1>4. ASSUME NEW s \in Shell, NEW l \in Line, Enter(s, l) PROVE (CountInv /\ CommandIdsUnique)'
  BY <1>1, <1>2, <1>4 DEF Enter, hook, Starts
<1>5. ASSUME NEW s \in Shell, DebugTrap(s) PROVE (CountInv /\ CommandIdsUnique)'
  <2>1. CASE SendStart(s, history[s].text)
    BY <1>5, <2>1, SendStartCount DEF DebugTrap
  <2>2. CASE UNCHANGED <<lastHist, seq, cmdID, bg, sent>>
    BY <1>1, <1>2, <1>5, <2>2 DEF DebugTrap, Starts
  <2> QED BY <1>5, <2>1, <2>2 DEF DebugTrap
<1>6. ASSUME NEW s \in Shell, PreexecLine(s) PROVE (CountInv /\ CommandIdsUnique)'
  <2>1. CASE SendStart(s, line[s].text)
    BY <1>6, <2>1, SendStartCount DEF PreexecLine
  <2>2. CASE UNCHANGED <<seq, cmdID, bg, sent>>
    BY <1>1, <1>2, <1>6, <2>2 DEF PreexecLine, Starts
  <2> QED BY <1>6, <2>1, <2>2 DEF PreexecLine
<1>7. ASSUME NEW s \in Shell, Precmd(s) PROVE (CountInv /\ CommandIdsUnique)'
  <2>1. Starts' = Starts
    BY <1>7 DEF Precmd, SendEnd, Starts
  <2> QED BY <1>1, <1>2, <1>7, <2>1 DEF Precmd
<1>8. ASSUME NEW s \in Shell, Arm(s) \/ Exit(s) PROVE (CountInv /\ CommandIdsUnique)'
  BY <1>1, <1>2, <1>8 DEF Arm, Exit, hook, Starts
<1>9. CASE UNCHANGED vars
  BY <1>1, <1>2, <1>9 DEF vars, hook, Starts
<1> QED BY <1>3, <1>4, <1>5, <1>6, <1>7, <1>8, <1>9 DEF Next

\* While every shell names its own session, an id is given out once.
THEOREM IdsAreUnique == NoNesting /\ Spec => []CommandIdsUnique
<1> SUFFICES ASSUME NoNesting PROVE Spec => []CommandIdsUnique
  OBVIOUS
<1>1. IInv /\ CountInv /\ CommandIdsUnique /\ [Next]_vars => (CountInv /\ CommandIdsUnique)'
  BY NextCount
<1> QED BY <1>1, InitIInv, InitCount, NextIInv, PTL DEF Spec

-----------------------------------------------------------------------------
(* What is recorded.                                                       *)

\* Users enter something into every bash before anything its history does not
\* take.
NotQuiet == "quiet" \notin Conditions

\* The line a shell has read last, and the history list it leaves.
LineInv ==
  /\ \A s \in Shell :
       /\ session[s] = NoSession => cycle[s] = 0 /\ lastHist[s] = 0
       /\ stage[s] = "entered" => [shell |-> s, of |-> cycle[s], line |-> line[s]] \in entered
       /\ stage[s] = "entered" /\ Visible(s, line[s]) => history[s].text = line[s].text
  /\ \A r \in entered :
       /\ r.of > 0 /\ r.of <= cycle[r.shell]
       /\ r.of = cycle[r.shell] => r.line = line[r.shell]

\* Every visible line is recorded once its commands run.
RunsInv ==
  \A r \in entered :
    /\ Visible(r.shell, r.line)
    /\ KindOf[r.shell] = "bash" => Plain(r.line)
    /\ r.of < cycle[r.shell] \/ stage[r.shell] \in {"running", "chain", "prompt"}
    => \E e \in Starts : e.shell = r.shell /\ e.of = r.of /\ e.text = r.line.text

\* Between lines, and after one that is not visible, bash's hook knows the
\* number of the last entry.
HistInv ==
  \A s \in Shell : KindOf[s] = "bash" =>
    /\ stage[s] \in {"prompt", "running", "chain"} /\ lastHist[s] # 0 => history[s].num = lastHist[s]
    /\ stage[s] = "entered" /\ ~Visible(s, line[s]) => lastHist[s] # 0 /\ history[s].num = lastHist[s]

LEMMA InitRecorded == Init => LineInv /\ RunsInv /\ HistInv /\ OnlyRunsAreRecorded
BY DEF Init, LineInv, RunsInv, HistInv, OnlyRunsAreRecorded, Starts

LEMMA NextLine ==
  ASSUME IInv, LineInv, [Next]_vars
  PROVE  LineInv'
<1>0. TypeOK
  BY DEF IInv
<1>1. ASSUME NEW s \in Shell, Open(s) PROVE LineInv'
  <2>1. /\ session[s] = NoSession /\ stage' = [stage EXCEPT ![s] = "running"]
        /\ \A q \in Shell \ {s} : session'[q] = session[q] /\ history'[q] = history[q]
        /\ UNCHANGED <<lastHist, cycle, line, entered>>
    BY <1>0, <1>1 DEF Open, TypeOK
  <2> QED BY <1>0, <2>1 DEF LineInv, TypeOK
<1>2. ASSUME NEW s \in Shell, NEW l \in Line, Enter(s, l) PROVE LineInv'
  <2>1. /\ history' = [history EXCEPT ![s] = Remember(s, l)]
        /\ cycle' = [cycle EXCEPT ![s] = cycle[s] + 1]
        /\ line' = [line EXCEPT ![s] = l]
        /\ entered' = entered \cup {[shell |-> s, of |-> cycle[s] + 1, line |-> l]}
        /\ stage' = [stage EXCEPT ![s] = "entered"] /\ stage[s] = "prompt"
        /\ UNCHANGED <<session, lastHist>>
    BY <1>2 DEF Enter, hook
  <2>2. session[s] # NoSession
    BY <2>1, HookConstants DEF IInv, SessionInv
  <2>3. Visible(s, l) => Remember(s, l).text = l.text
    BY DEF Remember, Visible
  <2>4. \A r \in entered : r.shell \in Shell /\ r.of \in Nat
    BY <1>0 DEF TypeOK
  <2>5. \A q \in Shell :
          /\ cycle[q] \in Nat
          /\ cycle'[q] = IF q = s THEN cycle[s] + 1 ELSE cycle[q]
          /\ line'[q] = IF q = s THEN l ELSE line[q]
          /\ stage'[q] = IF q = s THEN "entered" ELSE stage[q]
          /\ history'[q] = IF q = s THEN Remember(s, l) ELSE history[q]
    BY <1>0, <2>1 DEF TypeOK
  <2>6. \A r \in entered' :
          /\ r.of > 0 /\ r.of <= cycle'[r.shell]
          /\ r.of = cycle'[r.shell] => r.line = line'[r.shell]
    BY <2>1, <2>4, <2>5 DEF LineInv
  <2>7. \A q \in Shell :
          /\ session'[q] = NoSession => cycle'[q] = 0 /\ lastHist'[q] = 0
          /\ stage'[q] = "entered" => [shell |-> q, of |-> cycle'[q], line |-> line'[q]] \in entered'
          /\ stage'[q] = "entered" /\ Visible(q, line'[q]) => history'[q].text = line'[q].text
    BY <2>1, <2>2, <2>3, <2>5 DEF LineInv
  <2> QED BY <2>6, <2>7 DEF LineInv
<1>3. ASSUME UNCHANGED user, NEW s \in Shell, NEW to \in {"running", "chain", "prompt", "closed"},
             stage' = [stage EXCEPT ![s] = to], UNCHANGED session,
             \A q \in Shell \ {s} : lastHist'[q] = lastHist[q], session[s] # NoSession
      PROVE  LineInv'
  <2>1. UNCHANGED <<history, cycle, line, entered>>
    BY <1>3 DEF user
  <2>2. \A q \in Shell : stage'[q] = "entered" => stage[q] = "entered"
    BY <1>0, <1>3 DEF TypeOK
  <2> QED BY <1>3, <2>1, <2>2 DEF LineInv
<1>4. ASSUME NEW s \in Shell, DebugTrap(s) \/ PreexecLine(s) \/ Precmd(s) \/ Arm(s)
      PROVE  LineInv'
  <2>1. /\ UNCHANGED <<user, session>> /\ stage[s] # "closed"
        /\ \E to \in {"running", "chain", "prompt"} : stage' = [stage EXCEPT ![s] = to]
    BY <1>4 DEF DebugTrap, PreexecLine, Precmd, Arm, user
  <2>2. \A q \in Shell \ {s} : lastHist'[q] = lastHist[q]
    BY <1>0, <1>4 DEF DebugTrap, PreexecLine, Precmd, Arm, TypeOK
  <2>3. session[s] # NoSession
    BY <2>1, HookConstants DEF IInv, SessionInv
  <2> QED BY <1>3, <2>1, <2>2, <2>3
<1>5. ASSUME NEW s \in Shell, Exit(s) PROVE LineInv'
  <2>1. /\ UNCHANGED <<session, lastHist, history, cycle, line, entered>>
        /\ stage' = [stage EXCEPT ![s] = "closed"]
    BY <1>5 DEF Exit, hook
  <2> QED BY <1>0, <2>1 DEF LineInv, TypeOK
<1>6. CASE UNCHANGED vars
  BY <1>6 DEF vars, hook, user, LineInv
<1> QED BY <1>1, <1>2, <1>4, <1>5, <1>6 DEF Next

\* Nothing that is sent is taken back.
LEMMA StartsStay == [Next]_vars => \A e \in Starts : e \in Starts'
BY DEF Next, Open, Enter, DebugTrap, PreexecLine, SendStart, Precmd, SendEnd, Arm, Exit, hook, vars, Starts

\* The trap does not take a visible line for a hidden one.
LEMMA TrapSends ==
  ASSUME IInv, LineInv, NEW s \in Shell, DebugTrap(s), Visible(s, line[s]), Plain(line[s])
  PROVE  SendStart(s, line[s].text)
<1>1. history[s].text = line[s].text /\ line[s].text # NoText
  BY DEF DebugTrap, LineInv, Visible
<1>2. line[s].executes # Nothing
  BY HookConstants DEF Plain
<1>3. ~NotInHistory(s, line[s].executes)
  BY <1>1 DEF NotInHistory, Plain
<1> QED BY <1>1, <1>2, <1>3 DEF DebugTrap

LEMMA NextRuns ==
  ASSUME IInv, LineInv, RunsInv, [Next]_vars
  PROVE  RunsInv'
<1>0. TypeOK /\ \A r \in entered : r.shell \in Shell
  BY DEF IInv, TypeOK
<1>1. ASSUME UNCHANGED <<entered, cycle>>, NEW s \in Shell,
             \A q \in Shell \ {s} : stage'[q] = stage[q],
             stage'[s] \in {"running", "chain", "prompt"} => stage[s] \in {"running", "chain", "prompt"}
      PROVE  RunsInv'
  <2>1. \A r \in entered : stage'[r.shell] \in {"running", "chain", "prompt"}
                            => stage[r.shell] \in {"running", "chain", "prompt"}
    BY <1>0, <1>1
  <2> QED BY <1>1, <2>1, StartsStay DEF RunsInv
<1>2. ASSUME NEW s \in Shell, Open(s) PROVE RunsInv'
  <2>1. /\ UNCHANGED <<entered, cycle>> /\ session[s] = NoSession
        /\ \A q \in Shell \ {s} : stage'[q] = stage[q]
    BY <1>0, <1>2 DEF Open, TypeOK
  <2>2. ASSUME NEW r \in entered, r.shell = s PROVE FALSE
    <3>1. cycle[s] = 0
      BY <2>1 DEF LineInv
    <3>2. r.of \in Nat /\ r.of > 0 /\ r.of <= cycle[r.shell]
      BY <1>0 DEF LineInv, TypeOK
    <3> QED BY <2>2, <3>1, <3>2
  <2> QED BY <1>0, <2>1, <2>2, StartsStay DEF RunsInv
<1>3. ASSUME NEW s \in Shell, NEW l \in Line, Enter(s, l) PROVE RunsInv'
  <2>1. /\ entered' = entered \cup {[shell |-> s, of |-> cycle[s] + 1, line |-> l]}
        /\ stage[s] = "prompt"
    BY <1>3 DEF Enter
  <2>2. \A q \in Shell :
          /\ cycle'[q] = IF q = s THEN cycle[s] + 1 ELSE cycle[q]
          /\ stage'[q] = IF q = s THEN "entered" ELSE stage[q]
    BY <1>0, <1>3 DEF Enter, TypeOK
  <2>3. \A r \in entered :
          (r.of < cycle'[r.shell] \/ stage'[r.shell] \in {"running", "chain", "prompt"})
            => r.of < cycle[r.shell] \/ stage[r.shell] \in {"running", "chain", "prompt"}
    BY <1>0, <2>1, <2>2
  <2>4. PICK new : new.shell = s /\ new.of = cycle[s] + 1 /\ entered' = entered \cup {new}
    BY <2>1
  <2>5. /\ ~(new.of < cycle'[new.shell])
        /\ stage'[new.shell] \notin {"running", "chain", "prompt"}
    BY <1>0, <2>2, <2>4 DEF TypeOK
  <2> QED BY <2>3, <2>4, <2>5, StartsStay, Zenon DEF RunsInv
<1>4. ASSUME NEW s \in Shell, DebugTrap(s) \/ PreexecLine(s) PROVE RunsInv'
  <2>1. /\ UNCHANGED <<entered, cycle, line>> /\ stage[s] = "entered"
        /\ \A q \in Shell \ {s} : stage'[q] = stage[q]
    BY <1>0, <1>4 DEF DebugTrap, PreexecLine, user, TypeOK
  <2>2. ASSUME Visible(s, line[s]), KindOf[s] = "bash" => Plain(line[s])
        PROVE \E e \in Starts' : e.shell = s /\ e.of = cycle[s] /\ e.text = line[s].text
    <3>1. SendStart(s, line[s].text)
      BY <1>4, <2>2, TrapSends DEF PreexecLine, DebugTrap
    <3>2. PICK new : /\ new.kind = "start" /\ new.shell = s /\ new.of = cycle[s] /\ new.text = line[s].text
                    /\ sent' = sent \cup {new}
      BY <3>1 DEF SendStart
    <3> QED BY <3>2 DEF Starts
  <2>3. ASSUME NEW r \in entered, r.shell = s, r.of = cycle[s],
               Visible(r.shell, r.line), KindOf[r.shell] = "bash" => Plain(r.line)
        PROVE \E e \in Starts' : e.shell = r.shell /\ e.of = r.of /\ e.text = r.line.text
    <3>1. r.line = line[s]
      BY <2>3 DEF LineInv
    <3> QED BY <2>2, <2>3, <3>1
  <2>4. \A r \in entered : r.shell = s => r.of = cycle[s] \/ r.of < cycle[s]
    BY <1>0 DEF LineInv, TypeOK
  <2> QED BY <1>0, <2>1, <2>3, <2>4, StartsStay DEF RunsInv
<1>5. ASSUME NEW s \in Shell, Precmd(s) \/ Arm(s) \/ Exit(s) PROVE RunsInv'
  <2>1. /\ UNCHANGED <<entered, cycle>> /\ \A q \in Shell \ {s} : stage'[q] = stage[q]
        /\ stage'[s] \in {"running", "chain", "prompt"} => stage[s] \in {"running", "chain", "prompt"}
    BY <1>0, <1>5 DEF Precmd, Arm, Exit, user, TypeOK
  <2> QED BY <1>1, <2>1
<1>6. CASE UNCHANGED vars
  BY <1>6, StartsStay DEF vars, hook, user, RunsInv
<1> QED BY <1>2, <1>3, <1>4, <1>5, <1>6 DEF Next

LEMMA NextHist ==
  ASSUME NotQuiet, IInv, LineInv, HistInv, [Next]_vars
  PROVE  HistInv'
<1>0. TypeOK
  BY DEF IInv
<1>1. ASSUME NEW s \in Shell, \A q \in Shell \ {s} : stage'[q] = stage[q] /\ lastHist'[q] = lastHist[q]
                                              /\ history'[q] = history[q] /\ line'[q] = line[q],
             KindOf[s] = "bash" =>
               /\ stage'[s] \in {"prompt", "running", "chain"} /\ lastHist'[s] # 0
                    => history'[s].num = lastHist'[s]
               /\ stage'[s] = "entered" /\ ~Visible(s, line'[s])
                    => lastHist'[s] # 0 /\ history'[s].num = lastHist'[s]
      PROVE  HistInv'
  BY <1>1 DEF HistInv
<1>2. ASSUME NEW s \in Shell, Open(s) PROVE HistInv'
  <2>1. /\ session[s] = NoSession /\ UNCHANGED <<lastHist, line>>
        /\ \A q \in Shell \ {s} : stage'[q] = stage[q] /\ history'[q] = history[q]
        /\ stage'[s] = "running"
    BY <1>0, <1>2 DEF Open, TypeOK
  <2> QED BY <1>1, <2>1 DEF LineInv
<1>3. ASSUME NEW s \in Shell, NEW l \in Line, Enter(s, l) PROVE HistInv'
  <2>1. /\ \A q \in Shell \ {s} : stage'[q] = stage[q] /\ history'[q] = history[q] /\ line'[q] = line[q]
        /\ stage'[s] = "entered" /\ line'[s] = l /\ history'[s] = Remember(s, l)
        /\ UNCHANGED lastHist /\ stage[s] = "prompt"
        /\ KindOf[s] = "bash" => lastHist[s] # 0 \/ Visible(s, l)
    BY <1>0, <1>3 DEF Enter, TypeOK, hook, NotQuiet
  <2>2. ~Visible(s, l) => Remember(s, l) = history[s]
    BY DEF Visible, Remember
  <2> QED BY <1>1, <2>1, <2>2 DEF HistInv
<1>4. ASSUME NEW s \in Shell, DebugTrap(s) PROVE HistInv'
  <2>1. /\ UNCHANGED <<history, line>> /\ stage[s] = "entered" /\ stage'[s] = "running"
        /\ \A q \in Shell \ {s} : stage'[q] = stage[q] /\ lastHist'[q] = lastHist[q]
    BY <1>0, <1>4 DEF DebugTrap, user, TypeOK
  <2>2. CASE lastHist' = [lastHist EXCEPT ![s] = history[s].num]
    <3>1. lastHist'[s] = history[s].num
      BY <1>0, <2>2 DEF TypeOK
    <3> QED BY <1>1, <2>1, <3>1
  <2>3. CASE UNCHANGED lastHist /\ \E executing : NotInHistory(s, executing)
    <3>1. Visible(s, line[s]) => history[s].num = lastHist[s]
      BY <2>1, <2>3 DEF LineInv, NotInHistory, Visible
    <3>2. KindOf[s] = "bash" /\ ~Visible(s, line[s]) => history[s].num = lastHist[s]
      BY <2>1 DEF HistInv
    <3> QED BY <1>1, <2>1, <2>3, <3>1, <3>2
  <2> QED BY <1>4, <2>2, <2>3 DEF DebugTrap
<1>5. ASSUME NEW s \in Shell, PreexecLine(s) \/ Exit(s) PROVE HistInv'
  <2>1. /\ UNCHANGED <<lastHist, history, line>>
        /\ \A q \in Shell \ {s} : stage'[q] = stage[q]
        /\ KindOf[s] # "bash" \/ stage'[s] = "closed"
    BY <1>0, <1>5 DEF PreexecLine, Exit, user, hook, TypeOK
  <2> QED BY <1>1, <2>1
<1>6. ASSUME NEW s \in Shell, Precmd(s) \/ Arm(s) PROVE HistInv'
  <2>1. /\ UNCHANGED <<lastHist, history, line>>
        /\ \A q \in Shell \ {s} : stage'[q] = stage[q]
        /\ stage[s] \in {"running", "chain"} /\ stage'[s] \in {"chain", "prompt"}
    BY <1>0, <1>6 DEF Precmd, Arm, user, TypeOK
  <2> QED BY <1>1, <2>1 DEF HistInv
<1>7. CASE UNCHANGED vars
  BY <1>7 DEF vars, hook, user, HistInv
<1> QED BY <1>2, <1>3, <1>4, <1>5, <1>6, <1>7 DEF Next

\* A hidden line the trap takes for the last one is one that begins like it.
LEMMA TrapSendsOnly ==
  ASSUME IInv, HistInv, LineInv, NEW s \in Shell, stage[s] = "entered", KindOf[s] = "bash",
         ~NotInHistory(s, IF line[s].executes = Nothing THEN OwnHook ELSE line[s].executes)
  PROVE  \/ Visible(s, line[s]) /\ line[s].text = history[s].text
         \/ Hidden(s, line[s]) /\ <<history[s].text, line[s].executes>> \in StartsWith
<1>1. CASE Visible(s, line[s])
  BY <1>1 DEF LineInv
<1>2. CASE ~Visible(s, line[s])
  <2>1. history[s].num = lastHist[s]
    BY <1>2 DEF HistInv
  <2>2. <<history[s].text, IF line[s].executes = Nothing THEN OwnHook ELSE line[s].executes>> \in StartsWith
    BY <2>1 DEF NotInHistory
  <2>3. line[s].executes # Nothing
    BY <2>2, HookConstants
  <2>4. line[s].text # NoText
    BY <2>3, HookConstants DEF IInv, TypeOK, EmptyLine
  <2> QED BY <1>2, <2>2, <2>3, <2>4 DEF Visible
<1> QED BY <1>1, <1>2

LEMMA NextOnly ==
  ASSUME IInv, LineInv, HistInv, OnlyRunsAreRecorded, [Next]_vars
  PROVE  OnlyRunsAreRecorded'
<1>1. ASSUME Starts' = Starts, entered \subseteq entered' PROVE OnlyRunsAreRecorded'
  BY <1>1 DEF OnlyRunsAreRecorded
<1>2. ASSUME NEW s \in Shell, NEW text, SendStart(s, text), UNCHANGED entered,
             stage[s] = "entered",
             \/ Visible(s, line[s]) /\ line[s].text = text
             \/ Hidden(s, line[s]) /\ <<text, line[s].executes>> \in StartsWith
      PROVE  OnlyRunsAreRecorded'
  <2>1. PICK new : /\ new.shell = s /\ new.of = cycle[s] /\ new.text = text
                  /\ sent' = sent \cup {new}
    BY <1>2 DEF SendStart
  <2>2. PICK r \in entered : r.shell = s /\ r.of = cycle[s] /\ r.line = line[s]
    BY <1>2 DEF LineInv
  <2>3. \A e \in Starts' : e \in Starts \/ e = new
    BY <2>1 DEF Starts
  <2> QED BY <1>2, <2>1, <2>2, <2>3 DEF OnlyRunsAreRecorded
<1>3. ASSUME NEW s \in Shell, DebugTrap(s) PROVE OnlyRunsAreRecorded'
  <2>1. CASE UNCHANGED sent
    BY <1>1, <1>3, <2>1 DEF DebugTrap, user, Starts
  <2>2. CASE ~UNCHANGED sent
    <3>1. /\ SendStart(s, history[s].text) /\ UNCHANGED entered
          /\ stage[s] = "entered" /\ KindOf[s] = "bash"
          /\ ~NotInHistory(s, IF line[s].executes = Nothing THEN OwnHook ELSE line[s].executes)
      BY <1>3, <2>2 DEF DebugTrap, user
    <3> QED BY <1>2, <3>1, TrapSendsOnly
  <2> QED BY <2>1, <2>2
<1>4. ASSUME NEW s \in Shell, PreexecLine(s) PROVE OnlyRunsAreRecorded'
  <2>1. CASE Visible(s, line[s])
    BY <1>2, <1>4, <2>1 DEF PreexecLine, user
  <2>2. CASE ~Visible(s, line[s])
    BY <1>1, <1>4, <2>2 DEF PreexecLine, user, Starts
  <2> QED BY <2>1, <2>2
<1>5. ASSUME NEW s \in Shell, Precmd(s) PROVE OnlyRunsAreRecorded'
  BY <1>1, <1>5 DEF Precmd, SendEnd, Starts, user
<1>6. ASSUME NEW s \in Shell, Open(s) \/ Arm(s) \/ Exit(s) \/ \E l \in Line : Enter(s, l)
      PROVE  OnlyRunsAreRecorded'
  BY <1>1, <1>6 DEF Open, Arm, Exit, Enter, hook, user, Starts
<1>7. CASE UNCHANGED vars
  BY <1>1, <1>7 DEF vars, hook, user, Starts
<1> QED BY <1>3, <1>4, <1>5, <1>6, <1>7 DEF Next

\* Every visible line whose text begins with what it runs is recorded: for
\* any history settings, and in a bash that collapses repeats.
THEOREM VisibleRunsAreRecorded == Spec => []RunsAreRecorded
<1>1. Init => LineInv /\ RunsInv
  BY InitRecorded
<1>2. IInv /\ LineInv /\ RunsInv /\ [Next]_vars => (LineInv /\ RunsInv)'
  BY NextLine, NextRuns
<1>3. RunsInv => RunsAreRecorded
  BY DEF RunsInv, RunsAreRecorded
<1> QED BY <1>1, <1>2, <1>3, InitIInv, NextIInv, PTL DEF Spec

\* Nothing else is, if the first line of a bash is one its history takes: what
\* the shell was told to hide stays hidden unless it begins like the last line.
THEOREM HiddenStaysHidden == NotQuiet /\ Spec => []OnlyRunsAreRecorded
<1> SUFFICES ASSUME NotQuiet PROVE Spec => []OnlyRunsAreRecorded
  OBVIOUS
<1>1. Init => LineInv /\ HistInv /\ OnlyRunsAreRecorded
  BY InitRecorded
<1>2. IInv /\ LineInv /\ HistInv /\ OnlyRunsAreRecorded /\ [Next]_vars
        => (LineInv /\ HistInv /\ OnlyRunsAreRecorded)'
  BY NextLine, NextHist, NextOnly
<1> QED BY <1>1, <1>2, InitIInv, NextIInv, PTL DEF Spec

=============================================================================
