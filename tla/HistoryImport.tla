---------------------------- MODULE HistoryImport ----------------------------
(***************************************************************************)
(* `shcr import' (cmd/shcr/main.go, internal/histimport): a shell goes on  *)
(* writing and trimming its history file, and now and then the file is     *)
(* brought into the store.                                                 *)
(***************************************************************************)
EXTENDS HistoryFile

CONSTANTS
  Shell,        \* which shells may write the file
  Text,
  Secret,       \* texts with a secret in them
  Unstored,     \* texts a skip rule matches
  Long,         \* texts of two lines
  Redacted,     \* what becomes of a secret
  FirstTime, LastTime,   \* the clock, in seconds
  MaxEntries,   \* bound on the entries written under each set of conditions
  Settings      \* the sets of conditions a behaviour may be subject to

\* "late": timestamps are switched on after sniff has stopped looking.
\* "torn": the shell dies while it writes.  "failure": the database fails.
Condition == {"late", "torn", "failure"}

ASSUME ImportConstants ==
  /\ Shell \subseteq {"bash", "zsh", "fish"}
  /\ Secret \subseteq Text /\ Unstored \subseteq Text /\ Long \subseteq Text
  /\ FirstTime \in Nat \ {0} /\ LastTime \in Nat /\ FirstTime <= LastTime
  /\ SniffLines \in Nat \ {0} /\ Second \in Nat \ {0}
  /\ Settings \subseteq SUBSET Condition
  /\ MaxEntries \in [Settings -> Nat]

VARIABLES
  shell,
  stamping,   \* HISTTIMEFORMAT or EXTENDED_HISTORY is set
  file, mtime, \* mtime in milliseconds
  now,
  written,    \* entries written so far
  store,      \* the import events, by what their id is made of
  origin,     \* for the properties: the entries each came from
  imported,   \* the file and mtime of the last import that completed
  setting

history == <<shell, stamping, file, mtime, written>>
events  == <<store, origin, imported>>
vars    == <<history, now, events, setting>>

----------------------------------------------------------------------------
(* The shell.                                                              *)

\* The lines of an entry.  fish has one for a text of two.
Lines(t) ==
  LET n == written + 1
      long == t \in Long
      more == IF long THEN <<Line("plain", 0, t, FALSE, n)>> ELSE << >>
  IN  CASE shell = "bash" ->
             (IF stamping THEN <<Line("stamp", now, "", FALSE, n)>> ELSE << >>)
               \o <<Line("plain", 0, t, long, n)>> \o more
        [] shell = "zsh" ->
             <<IF stamping THEN Line("header", now, t, long, n)
               ELSE Line("plain", 0, t, long, n)>> \o more
        [] shell = "fish" ->
             <<Line("cmd", 0, t, FALSE, n), Line("when", now, "", FALSE, n)>>

Write(t) ==
  /\ written < MaxEntries[setting]
  /\ LET whole == Lines(t)
     IN  \E k \in (IF "torn" \in setting THEN DOMAIN whole ELSE {Len(whole)}) :
           file' = file \o SubSeq(whole, 1, k)
  /\ written' = written + 1
  /\ mtime' = now * Second
  /\ UNCHANGED <<shell, stamping, now, events, setting>>

\* The oldest entry makes room (HISTFILESIZE, SAVEHIST).
Trim ==
  /\ file # << >>
  /\ LET oldest == {i \in DOMAIN file : file[i].n = file[1].n}
     IN  file' = SubSeq(file, Max(oldest) + 1, Len(file))
  /\ mtime' = now * Second
  /\ UNCHANGED <<shell, stamping, written, now, events, setting>>

\* bash's dates are found wherever they are.
SwitchOn ==
  /\ ~stamping
  /\ shell = "bash" \/ Len(file) < SniffLines \/ "late" \in setting
  /\ stamping' = TRUE
  /\ UNCHANGED <<shell, file, mtime, written, now, events, setting>>

\* bash alone; a zsh that stops writing dates is left out.
SwitchOff ==
  /\ stamping /\ shell = "bash"
  /\ stamping' = FALSE
  /\ UNCHANGED <<shell, file, mtime, written, now, events, setting>>

Tick ==
  /\ now < LastTime
  /\ now' = now + 1
  /\ UNCHANGED <<history, events, setting>>

----------------------------------------------------------------------------
(* The import.                                                             *)

Entries == Parse(file, mtime)

Texts(e) == {e.text[k].text : k \in DOMAIN e.text}

\* Redactor.Apply: a skip rule wins; a secret is replaced where it stands.
Skipped(e) == Texts(e) \cap Unstored # {}

\* Wrong: only the first line of an entry is looked at.
ApplyToFirst(text) ==
  IF text[1].text \in Secret THEN [text EXCEPT ![1].text = Redacted] ELSE text

Apply(text) ==
  [k \in DOMAIN text |-> IF text[k].text \in Secret THEN [text[k] EXCEPT !.text = Redacted]
                         ELSE text[k]]

\* Wrong: an entry is known by its place.
PlaceId(e) ==
  [shell |-> Sniff(file), text |-> Apply(e.text),
   at    |-> CHOOSE i \in DOMAIN Entries : Entries[i] = e]

\* What the id of the event for an entry is made of.
Id(e) == [shell |-> Sniff(file), at |-> e.at, text |-> Apply(e.text)]

\* The first k entries, but those a rule skips.
Kept(es, k) == {e \in {es[i] : i \in 1..k} : ~Skipped(e)}

\* AppendEvent keeps the first of two events with one id.  When it fails, what
\* went before stays.
Import ==
  /\ LET es == Entries
     IN  \E k \in (IF "failure" \in setting THEN 0..Len(es) ELSE {Len(es)}) :
           LET kept == Kept(es, k)
           IN  /\ store' = store \cup {Id(e) : e \in kept}
               /\ origin' = origin \cup {[id |-> Id(e), n |-> e.n] : e \in kept}
               /\ imported' = IF k = Len(es) THEN <<file, mtime>> ELSE imported
  /\ UNCHANGED <<history, now, setting>>

\* Result.New, with and without DryRun.
WouldAdd == {i \in 1..Len(Entries) : ~Skipped(Entries[i]) /\ Id(Entries[i]) \notin store}

----------------------------------------------------------------------------
Init ==
  /\ shell \in Shell
  /\ stamping = (shell = "fish")
  /\ file = << >> /\ mtime = FirstTime * Second /\ now = FirstTime
  /\ written = 0
  /\ store = {} /\ origin = {} /\ imported = << >>
  /\ setting \in Settings

Next ==
  \/ \E t \in Text : Write(t)
  \/ Trim \/ SwitchOn \/ SwitchOff \/ Tick \/ Import

Spec == Init /\ [][Next]_vars

=============================================================================
