--------------------------- MODULE HookProperties ---------------------------
(***************************************************************************)
(* What the shell integrations promise, stated over ShellHook.             *)
(***************************************************************************)
EXTENDS ShellHook

\* Every variable holds values of its kind; at a prompt no command is open.
TypeOK ==
  /\ stage \in [Shell -> {"closed", "prompt", "entered", "running", "chain"}]
  /\ session \in [Shell -> Shell \cup {NoSession}]
  /\ history \in [Shell -> Entry]
  /\ histFile \in Entry
  /\ lastHist \in [Shell -> Nat]
  /\ armed \in [Shell -> BOOLEAN]
  /\ seq \in [Shell -> Nat]
  /\ cmdID \in [Shell -> ID \cup {NoID}]
  /\ bg \in [Shell -> BOOLEAN]
  /\ cycle \in [Shell -> Nat]
  /\ line \in [Shell -> Line \cup {EmptyLine}]
  /\ entered \subseteq [shell : Shell, of : Nat, line : Line]
  /\ sent \subseteq Sent
  /\ \A s \in Shell : stage[s] \in {"prompt", "entered"} => cmdID[s] = NoID

Starts == {e \in sent : e.kind = "start"}

Ends == {e \in sent : e.kind = "end"}

\* An exit code is reported of the command whose line it is the status of:
\* not of an earlier command that is still in the background, nor of one
\* before an empty or a hidden line.
EndReportsItsCommand ==
  \A e \in Ends : \E f \in Starts :
    /\ f.id = e.id /\ f.shell = e.shell /\ f.of = e.of
    /\ f.text \notin Background

\* bash can tell: what the line executes is how the line begins.
Plain(l) == <<l.text, l.executes>> \in StartsWith

\* Every visible line that ran is recorded, a repeat bash collapsed too.  (In
\* bash, aliased repeats may be skipped, README.md, "Known limitations".)
RunsAreRecorded ==
  \A r \in entered :
    /\ Visible(r.shell, r.line)
    /\ KindOf[r.shell] = "bash" => Plain(r.line)
    /\ r.of < cycle[r.shell] \/ stage[r.shell] \in {"chain", "prompt"}
    => \E e \in Starts : e.shell = r.shell /\ e.of = r.of /\ e.text = r.line.text

\* A start is the record of a line that was entered there and then and that
\* the shell was not told to hide.  The one exception the hook accepts is a
\* hidden command that begins like the line before it.
OnlyRunsAreRecorded ==
  \A e \in Starts : \E r \in entered :
    /\ r.shell = e.shell /\ r.of = e.of
    /\ \/ Visible(r.shell, r.line) /\ r.line.text = e.text
       \/ Hidden(r.shell, r.line) /\ <<e.text, r.line.executes>> \in StartsWith

\* One id, one command: whatever is recorded later under a command's id is
\* about that command (recompute makes one row of all of it).
CommandIdsUnique ==
  \A e, f \in Starts : e.id = f.id => e.shell = f.shell /\ e.of = f.of

=============================================================================
