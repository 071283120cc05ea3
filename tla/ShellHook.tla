------------------------------ MODULE ShellHook ------------------------------
(***************************************************************************)
(* The shell integrations (internal/shell/bash.sh, zsh.zsh, fish.fish):    *)
(* what they send for the lines a user enters in one or several shells.    *)
(*                                                                         *)
(* zsh and fish hand the typed line to the hook.  bash does not: the hook  *)
(* runs in a DEBUG trap, before the first simple command after a prompt,   *)
(* and guesses the line from the number and text of the last entry of the  *)
(* history list.                                                           *)
(***************************************************************************)
EXTENDS Naturals

CONSTANTS
  Shell,
  KindOf,        \* "bash", "zsh" or "fish"
  Text,          \* lines as they are entered, without leading space
  NoText,        \* the empty line
  Nothing,       \* no simple command runs in the shell itself
  OwnHook,       \* __shcr_precmd
  NoSession,
  NoID,
  Line,          \* what users enter
  StartsWith,    \* the text of a line goes on from that of a command
  Background,    \* texts that end in a single &
  HistControl,   \* "ignorespace" (zsh: hist_ignore_space), "ignoredups"
  MaxCycle,      \* bound: the lines of each shell
  Conditions     \* "nested", "quiet": see Open and Enter

\* executes: $BASH_COMMAND of the first simple command; Nothing for an empty
\* line, a comment, a syntax error, (a subshell).
LineRecord ==
  [text : Text \cup {NoText}, space : BOOLEAN, executes : Text \cup {Nothing}]

ID == [session : Shell, n : Nat]

ASSUME HookConstants ==
  /\ KindOf \in [Shell -> {"bash", "zsh", "fish"}]
  /\ NoText \notin Text
  /\ Nothing \notin Text
  /\ OwnHook \notin Text \cup {Nothing}
  /\ NoSession \notin Shell
  /\ NoID \notin ID
  /\ Line \subseteq LineRecord
  /\ \A l \in Line : l.text = NoText => l.executes = Nothing
  /\ StartsWith \subseteq Text \X Text
  /\ Background \subseteq Text
  /\ MaxCycle \in [Shell -> Nat]

VARIABLES
  stage,      \* closed, prompt, entered, running, chain (PROMPT_COMMAND)
  session,    \* SHCR_SESSION_ID
  history,    \* the number and text of the last entry of the history list
  histFile,   \* the same of HISTFILE
  lastHist,   \* __shcr_last_hist, 0 when empty
  armed,      \* __shcr_armed
  seq,        \* __shcr_seq
  cmdID,      \* __shcr_cmd_id
  bg,         \* __shcr_bg
  cycle,      \* how many lines the shell has read
  line,       \* the line it has read last
  entered,    \* every line entered: shell, cycle and line
  sent        \* every event handed to `shcr event`

hook == <<session, lastHist, armed, seq, cmdID, bg, sent>>
user == <<history, histFile, cycle, line, entered>>
vars == <<stage, hook, user>>

Entry == [num : Nat, text : Text \cup {NoText}]

\* of: the cycle a start is sent in, the cycle whose exit status an end has.
Sent == [kind : {"start", "end"}, id : ID, shell : Shell, of : Nat, text : Text \cup {NoText}]

EmptyLine == [text |-> NoText, space |-> FALSE, executes |-> Nothing]

Hidden(s, l) == l.space /\ (KindOf[s] = "fish" \/ "ignorespace" \in HistControl)

Visible(s, l) == l.text # NoText /\ ~Hidden(s, l)

-----------------------------------------------------------------------------
Init ==
  /\ stage = [s \in Shell |-> "closed"]
  /\ session = [s \in Shell |-> NoSession]
  /\ histFile \in {[num |-> 0, text |-> NoText]} \cup [num : {1}, text : Text]
  /\ history = [s \in Shell |-> [num |-> 0, text |-> NoText]]
  /\ lastHist = [s \in Shell |-> 0]
  /\ armed = [s \in Shell |-> FALSE]
  /\ seq = [s \in Shell |-> 0]
  /\ cmdID = [s \in Shell |-> NoID]
  /\ bg = [s \in Shell |-> FALSE]
  /\ cycle = [s \in Shell |-> 0]
  /\ line = [s \in Shell |-> EmptyLine]
  /\ entered = {}
  /\ sent = {}

\* Sourcing the hook.  A shell named after itself, or with the session of the
\* shell (the terminal multiplexer, the editor) it was started from.
Open(s) ==
  /\ stage[s] = "closed" /\ session[s] = NoSession
  /\ \E id \in {s} \cup (IF "nested" \in Conditions
                         THEN {session[p] : p \in {x \in Shell : stage[x] # "closed"}}
                         ELSE {}) :
       session' = [session EXCEPT ![s] = id]
  /\ history' = [history EXCEPT ![s] = histFile]
  /\ stage' = [stage EXCEPT ![s] = "running"]
  /\ UNCHANGED <<histFile, lastHist, armed, seq, cmdID, bg, cycle, line, entered, sent>>

\* The shell's own history list after it read l.
Remember(s, l) ==
  IF \/ l.text = NoText \/ Hidden(s, l)
     \/ "ignoredups" \in HistControl /\ l.text = history[s].text
  THEN history[s]
  ELSE [num |-> history[s].num + 1, text |-> l.text]

\* Without the condition "quiet", the first thing entered in a bash is a line
\* its history takes.
Enter(s, l) ==
  /\ stage[s] = "prompt"
  /\ cycle[s] < MaxCycle[s]
  /\ "quiet" \in Conditions \/ KindOf[s] # "bash" \/ lastHist[s] # 0 \/ Visible(s, l)
  /\ history' = [history EXCEPT ![s] = Remember(s, l)]
  /\ cycle' = [cycle EXCEPT ![s] = @ + 1]
  /\ line' = [line EXCEPT ![s] = l]
  /\ entered' = entered \cup {[shell |-> s, of |-> cycle[s] + 1, line |-> l]}
  /\ stage' = [stage EXCEPT ![s] = "entered"]
  /\ UNCHANGED <<hook, histFile>>

-----------------------------------------------------------------------------
(* __shcr_preexec. *)

NextID(s) == [session |-> session[s], n |-> seq[s] + 1]

SendStart(s, text) ==
  /\ seq' = [seq EXCEPT ![s] = @ + 1]
  /\ cmdID' = [cmdID EXCEPT ![s] = NextID(s)]
  /\ bg' = [bg EXCEPT ![s] = text \in Background]
  /\ sent' = sent \cup
       {[kind |-> "start", id |-> NextID(s), shell |-> s, of |-> cycle[s], text |-> text]}

\* Wrong: no new history entry means a hidden command.
AnyRepeat(s, executing) ==
  history[s].text = NoText \/ history[s].num = lastHist[s]

\* Wrong: the number of the entry is not looked at.
NoEntry(s, executing) == history[s].text = NoText

\* bash added no entry, and what it executes is not the last one's text.
NotInHistory(s, executing) ==
  \/ history[s].text = NoText
  \/ /\ history[s].num = lastHist[s]
     /\ <<history[s].text, executing>> \notin StartsWith

\* Before the first simple command: the user's, or for want of one the first
\* of PROMPT_COMMAND, which is this hook's own.
DebugTrap(s) ==
  LET executing == IF line[s].executes = Nothing THEN OwnHook ELSE line[s].executes IN
  /\ KindOf[s] = "bash"
  /\ stage[s] = "entered"
  /\ armed[s]
  /\ armed' = [armed EXCEPT ![s] = FALSE]
  /\ IF NotInHistory(s, executing)
     THEN UNCHANGED <<lastHist, seq, cmdID, bg, sent>>
     ELSE /\ lastHist' = [lastHist EXCEPT ![s] = history[s].num]
          /\ SendStart(s, history[s].text)
  /\ stage' = [stage EXCEPT ![s] = "running"]
  /\ UNCHANGED <<session, user>>

\* zsh and fish: a preexec function that gets the line, for what they execute.
PreexecLine(s) ==
  /\ KindOf[s] # "bash"
  /\ stage[s] = "entered"
  /\ IF Visible(s, line[s])
     THEN SendStart(s, line[s].text)
     ELSE UNCHANGED <<seq, cmdID, bg, sent>>
  /\ stage' = [stage EXCEPT ![s] = "running"]
  /\ UNCHANGED <<session, lastHist, armed, user>>

-----------------------------------------------------------------------------
(* __shcr_precmd, __shcr_postexec, __shcr_arm. *)

SendEnd(s) ==
  IF cmdID[s] # NoID /\ ~bg[s]
  THEN sent' = sent \cup
         {[kind |-> "end", id |-> cmdID[s], shell |-> s, of |-> cycle[s], text |-> NoText]}
  ELSE UNCHANGED sent

\* Wrong: the id is kept for a command in the background, to end it later.
PrecmdKeepingBackground(s) ==
  /\ stage[s] = "running"
  /\ armed' = [armed EXCEPT ![s] = FALSE]
  /\ SendEnd(s)
  /\ cmdID' = [cmdID EXCEPT ![s] = IF bg[s] THEN @ ELSE NoID]
  /\ bg' = [bg EXCEPT ![s] = FALSE]
  /\ stage' = [stage EXCEPT ![s] = "chain"]
  /\ UNCHANGED <<session, lastHist, seq, user>>

Precmd(s) ==
  /\ stage[s] = "running"
  /\ armed' = [armed EXCEPT ![s] = FALSE]
  /\ SendEnd(s)
  /\ cmdID' = [cmdID EXCEPT ![s] = NoID]
  /\ bg' = [bg EXCEPT ![s] = FALSE]
  /\ stage' = [stage EXCEPT ![s] = "chain"]
  /\ UNCHANGED <<session, lastHist, seq, user>>

\* Last in the chain; zsh and fish just go on to the prompt.
Arm(s) ==
  /\ stage[s] = "chain"
  /\ armed' = [armed EXCEPT ![s] = KindOf[s] = "bash"]
  /\ stage' = [stage EXCEPT ![s] = "prompt"]
  /\ UNCHANGED <<session, lastHist, seq, cmdID, bg, sent, user>>

\* `exit`, the end of input, or a signal at any moment: no prompt any more.
\* The shell may or may not get to write HISTFILE.
Exit(s) ==
  /\ stage[s] # "closed"
  /\ histFile' \in {histFile, history[s]}
  /\ stage' = [stage EXCEPT ![s] = "closed"]
  /\ UNCHANGED <<hook, history, cycle, line, entered>>

-----------------------------------------------------------------------------
Next ==
  \E s \in Shell :
    \/ Open(s)
    \/ \E l \in Line : Enter(s, l)
    \/ DebugTrap(s) \/ PreexecLine(s)
    \/ Precmd(s) \/ Arm(s) \/ Exit(s)

Spec == Init /\ [][Next]_vars

=============================================================================
