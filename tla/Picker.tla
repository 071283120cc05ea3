------------------------------- MODULE Picker -------------------------------
(***************************************************************************)
(* The Ctrl+R picker (internal/tui/tui.go): an update loop that handles    *)
(* keys and messages one at a time, and the commands it starts, which read *)
(* the database beside it and send their result as a message.  Messages    *)
(* arrive in any order.                                                    *)
(*                                                                         *)
(* The ranking cache is represented by the runs it was computed from.  The *)
(* two reads of a query are taken as one, and the session of a row by the  *)
(* row it belongs to.                                                      *)
(***************************************************************************)
EXTENDS Ranking

CONSTANTS
  Command,      \* command texts
  History,      \* their runs when the picker opens
  Typed,        \* the characters the user types
  MaxQuery,     \* bound on the length of a query
  Initial,      \* the queries a picker may open with
  StatsLimit,   \* statsLimit
  Heights,      \* rows the list may have room for
  MaxKeys,      \* bound on the keys before Enter or Esc
  MaxChanges,   \* bound on the changes to the database
  None,
  Settings      \* the sets of conditions a behaviour may be subject to

\* "ahead": keys are pressed while an answer is awaited.  "change": the
\* history changes.  "resize": the window does.  "error": the database fails,
\* or acceptances are not logged.
Condition == {"ahead", "change", "resize", "error"}

Query == UNION {[1..n -> Typed] : n \in 0..MaxQuery}

ASSUME PickerConstants ==
  /\ \A c \in Command : c \in Seq(Range(c))
  /\ History \in [Command -> SUBSET Run]
  /\ \A c, d \in Command : \A r \in History[c], u \in History[d] :
       r.start = u.start => c = d /\ r = u
  /\ Initial \subseteq Query
  /\ MaxQuery \in Nat /\ MaxKeys \in Nat /\ MaxChanges \in Nat /\ Heights \subseteq Nat \ {0}
  /\ None \notin Command \X Nat
  /\ Settings \subseteq SUBSET Condition

VARIABLES
  runs,          \* commands table: the runs of each text
  cached,        \* command_stats: the runs a text's line was computed from
  query, caret, status,
  results, cursor, offset,
  shown,         \* history: the question the list answers; no step reads it
  height,        \* visibleItems
  seq,
  stats,         \* the part of the cache the picker has read
  pane,          \* before, after: the row they belong to, None when empty
  neighborsFor,
  flight,        \* commands started, and messages not handled yet
  open,          \* the program runs
  chosen,        \* Chosen
  accepted,      \* the acceptance recorded
  keys, changes,
  setting

database == <<runs, cached, changes>>
question == <<query, caret, status, seq, stats>>
list     == <<results, cursor, offset, shown>>
detail   == <<pane, neighborsFor>>
outcome  == <<open, chosen, accepted>>
vars     == <<database, question, list, height, detail, flight, outcome, keys, setting>>

StatusCycle == <<"", "running", "failed", "orphaned">>

----------------------------------------------------------------------------
(* What the commands read.                                                 *)

\* CommandStats: the n commands used last.
CommandStats(n) ==
  LET there == {c \in Command : cached[c] # {}}
      newer(c) == {d \in there : Latest(cached[d]) > Latest(cached[c])}
  IN  [c \in {d \in there : Cardinality(newer(d)) < n} |-> cached[c]]

\* How every command matches every query, as a table.
Matching ==
  {[query |-> q, command |-> c, match |-> MatchCommand(c, Tokens(q))] : q \in Query, c \in Command}

MatchOf(q) ==
  [c \in Command |-> (CHOOSE m \in Matching : m.query = q /\ m.command = c).match]

\* LatestExecutions joins on the cached time; CommandContexts reads every run.
Found ==
  [c \in Command |->
     [row |-> {r \in runs[c] : cached[c] # {} /\ r.start = Latest(cached[c])},
      runs |-> runs[c]]]

Ranked(ask) ==
  RankedResults(ask.stats, MatchOf(ask.query), Tokens(ask.query) = << >>, Found, ask.status)

Ask(n, st, q, s) == [kind |-> "query", seq |-> n, stats |-> st, query |-> q, status |-> s]

\* A started command reads the database and becomes its message.  of: history,
\* the question it answers.
Answer(m) ==
  LET failed == IF "error" \in setting THEN BOOLEAN ELSE {FALSE}
      becomes(msg) == flight' = (flight \ {m}) \cup {msg}
  IN /\ open
     /\ \/ /\ m.kind = "query"
           /\ \E f \in failed :
                becomes([kind |-> "results", seq |-> m.seq, of |-> m,
                         cmds |-> IF f THEN << >> ELSE Ranked(m)])
        \/ /\ m.kind = "load"
           /\ \E f \in failed :
                becomes([kind |-> "stats",
                         stats |-> IF f THEN << >> ELSE CommandStats(StatsLimit)])
        \/ /\ m.kind = "loadNeighbors"
           /\ \E f \in failed :
                becomes([kind |-> "neighbors", id |-> m.id, found |-> ~f])
     /\ UNCHANGED <<database, question, list, height, detail, outcome, keys, setting>>

----------------------------------------------------------------------------
(* The model the update loop keeps.                                        *)

IdOf(row) == <<row.command, row.run.start>>

SelectedIn(rows, cur) == IF cur < Len(rows) THEN IdOf(rows[cur + 1]) ELSE None

SelectedId == SelectedIn(results, cursor)

\* Wrong: the window follows upwards only.
ClampUp(cur, off) == IF cur < off THEN cur ELSE off

ClampOffset(cur, off) ==
  IF cur < off THEN cur
  ELSE IF cur >= off + height THEN cur - height + 1 ELSE off

\* neighborCmd, for the row selected now.  pending: what else is in flight.
NeighborCmd(selected, pending) ==
  IF selected = None
    THEN pane' = None /\ neighborsFor' = None /\ flight' = pending
  ELSE IF neighborsFor = selected
    THEN UNCHANGED detail /\ flight' = pending
  ELSE /\ pane' = None /\ UNCHANGED neighborsFor
       /\ flight' = pending \cup {[kind |-> "loadNeighbors", id |-> selected]}

RunQuery(st, q, s, pending) ==
  /\ seq' = seq + 1 /\ query' = q /\ status' = s /\ stats' = st
  /\ flight' = pending \cup {Ask(seq + 1, st, q, StatusCycle[s])}

\* Wrong: shows what arrives.
ReceiveAnyResults(m) ==
  /\ open /\ m.kind = "results"
  /\ LET n == Len(m.cmds)
         cur == IF cursor < n THEN cursor ELSE IF n = 0 THEN 0 ELSE n - 1
     IN  /\ results' = m.cmds /\ cursor' = cur /\ shown' = m.of
         /\ offset' = ClampOffset(cur, offset)
         /\ NeighborCmd(SelectedIn(m.cmds, cur), flight \ {m})
  /\ UNCHANGED <<database, question, height, outcome, keys, setting>>

ReceiveResults(m) ==
  /\ open /\ m.kind = "results"
  /\ IF m.seq # seq
       THEN flight' = flight \ {m} /\ UNCHANGED <<list, detail>>
       ELSE LET n == Len(m.cmds)
                cur == IF cursor < n THEN cursor ELSE IF n = 0 THEN 0 ELSE n - 1
            IN  /\ results' = m.cmds /\ cursor' = cur /\ shown' = m.of
                /\ offset' = ClampOffset(cur, offset)
                /\ NeighborCmd(SelectedIn(m.cmds, cur), flight \ {m})
  /\ UNCHANGED <<database, question, height, outcome, keys, setting>>

\* Wrong: fills the pane with what arrives.
ReceiveAnyNeighbors(m) ==
  /\ open /\ m.kind = "neighbors"
  /\ pane' = (IF m.found THEN m.id ELSE None) /\ neighborsFor' = m.id
  /\ flight' = flight \ {m}
  /\ UNCHANGED <<database, question, list, height, outcome, keys, setting>>

ReceiveNeighbors(m) ==
  /\ open /\ m.kind = "neighbors"
  /\ IF m.id = SelectedId
       THEN pane' = (IF m.found THEN m.id ELSE None) /\ neighborsFor' = m.id
       ELSE UNCHANGED detail
  /\ flight' = flight \ {m}
  /\ UNCHANGED <<database, question, list, height, outcome, keys, setting>>

ReceiveStats(m) ==
  /\ open /\ m.kind = "stats"
  /\ IF Cardinality(DOMAIN m.stats) > Cardinality(DOMAIN stats)
       THEN RunQuery(m.stats, query, status, flight \ {m})
       ELSE flight' = flight \ {m} /\ UNCHANGED <<query, status, seq, stats>>
  /\ UNCHANGED <<database, caret, list, height, detail, outcome, keys, setting>>

----------------------------------------------------------------------------
(* Keys.                                                                   *)

Patient == "ahead" \notin setting => flight = {}

Key == open /\ keys < MaxKeys /\ Patient /\ keys' = keys + 1

\* editQuery.
EditQuery(q, c) ==
  /\ Key
  /\ caret' = IF c > Len(q) THEN Len(q) ELSE c
  /\ IF q = query
       THEN UNCHANGED <<query, status, seq, stats, list, flight>>
       ELSE /\ cursor' = 0 /\ offset' = 0 /\ UNCHANGED <<results, shown>>
            /\ RunQuery(stats, q, status, flight)
  /\ UNCHANGED <<database, height, detail, outcome, setting>>

Left(n) == SubSeq(query, 1, n)
Right(n) == SubSeq(query, n + 1, Len(query))

Insert(ch) ==
  /\ Len(query) < MaxQuery
  /\ EditQuery(Left(caret) \o <<ch>> \o Right(caret), caret + 1)

\* The blanks left of the caret and the word before them.
WordBefore ==
  CHOOSE i \in 0..caret :
    \E j \in i..caret :
      /\ \A k \in (j + 1)..caret : query[k] = Blank
      /\ \A k \in (i + 1)..j : query[k] # Blank
      /\ j = 0 \/ query[j] # Blank
      /\ i = 0 \/ query[i] = Blank

DeleteWordBefore == EditQuery(Left(WordBefore) \o Right(caret), WordBefore)
CutRight == EditQuery(Left(caret), caret)
CutLeft == EditQuery(Right(caret), 0)
Delete == EditQuery(Left(caret) \o Right(IF caret < Len(query) THEN caret + 1 ELSE caret), caret)
Backspace == LET i == IF caret = 0 THEN 0 ELSE caret - 1 IN EditQuery(Left(i) \o Right(caret), i)

MoveCaret ==
  /\ Key
  /\ caret' \in {IF caret > 0 THEN caret - 1 ELSE 0,
                 IF caret < Len(query) THEN caret + 1 ELSE caret, 0, Len(query)}
  /\ UNCHANGED <<database, query, status, seq, stats, list, height, detail, flight, outcome, setting>>

\* An arrow, the wheel, a page.
Move(delta) ==
  /\ Key
  /\ IF results = << >>
       THEN UNCHANGED list
       ELSE LET to == cursor + delta
                cur == IF to < 0 THEN 0 ELSE IF to >= Len(results) THEN Len(results) - 1 ELSE to
            IN  cursor' = cur /\ offset' = ClampOffset(cur, offset) /\ UNCHANGED <<results, shown>>
  /\ NeighborCmd(SelectedIn(results, cursor'), flight)
  /\ UNCHANGED <<database, question, height, outcome, setting>>

CycleStatus ==
  /\ Key
  /\ cursor' = 0 /\ offset' = 0 /\ UNCHANGED <<results, shown>>
  /\ RunQuery(stats, query, (status % Len(StatusCycle)) + 1, flight)
  /\ UNCHANGED <<database, caret, height, detail, outcome, setting>>

Resize(h) ==
  /\ "resize" \in setting /\ h # height
  /\ Key
  /\ height' = h
  /\ UNCHANGED <<database, question, list, detail, flight, outcome, setting>>

\* recordAcceptance.
RecordAcceptance(rank) ==
  \/ accepted' = [query |-> query, chosen |-> results[cursor + 1].command,
                   rank |-> rank, results |-> Len(results)]
  \/ "error" \in setting /\ UNCHANGED accepted

\* Wrong: the rank is the row's place on the screen.
EnterOnScreen ==
  /\ open /\ Patient
  /\ open' = FALSE
  /\ IF SelectedId = None
       THEN UNCHANGED <<chosen, accepted>>
       ELSE chosen' = results[cursor + 1].command /\ RecordAcceptance(cursor - offset)
  /\ flight' = {}
  /\ UNCHANGED <<database, question, list, height, detail, keys, setting>>

Enter ==
  /\ open /\ Patient
  /\ open' = FALSE
  /\ IF SelectedId = None
       THEN UNCHANGED <<chosen, accepted>>
       ELSE chosen' = results[cursor + 1].command /\ RecordAcceptance(cursor)
  /\ flight' = {}
  /\ UNCHANGED <<database, question, list, height, detail, keys, setting>>

Escape ==
  /\ open /\ Patient
  /\ open' = FALSE /\ flight' = {}
  /\ UNCHANGED <<database, question, list, height, detail, chosen, accepted, keys, setting>>

----------------------------------------------------------------------------
(* Other processes: a command ends, is redacted, the cache is refreshed.   *)

Changed ==
  /\ open /\ "change" \in setting /\ changes < MaxChanges
  /\ changes' = changes + 1
  /\ UNCHANGED <<question, list, height, detail, flight, outcome, keys, setting>>

Ends(c) ==
  /\ Changed
  /\ \E r \in Of(runs[c], {"running"}) : \E o \in {"ok", "failed"} :
       runs' = [runs EXCEPT ![c] = (@ \ {r}) \cup {[r EXCEPT !.outcome = o]}]
  /\ UNCHANGED cached

Redacted(c) ==
  /\ Changed
  /\ \E r \in runs[c] : runs' = [runs EXCEPT ![c] = @ \ {r}]
  /\ UNCHANGED cached

Refreshed ==
  /\ Changed
  /\ cached' = runs /\ UNCHANGED runs

----------------------------------------------------------------------------
Init ==
  /\ runs = History /\ cached = History /\ changes = 0
  /\ query \in Initial /\ caret = Len(query)
  /\ status = 1 /\ seq = 1
  /\ stats = CommandStats(RefineCandidates)
  /\ results = << >> /\ cursor = 0 /\ offset = 0
  /\ shown = Ask(0, << >>, << >>, "")
  /\ height \in Heights
  /\ pane = None /\ neighborsFor = None
  /\ flight = {Ask(1, stats, query, ""), [kind |-> "load"]}
  /\ open = TRUE /\ chosen = << >> /\ accepted = None
  /\ keys = 0
  /\ setting \in Settings

Receive(m) == ReceiveResults(m) \/ ReceiveNeighbors(m) \/ ReceiveStats(m)

Edit ==
  \/ \E ch \in Typed : Insert(ch)
  \/ DeleteWordBefore \/ CutRight \/ CutLeft \/ Delete \/ Backspace

Next ==
  \/ \E m \in flight : Answer(m) \/ ReceiveResults(m) \/ ReceiveNeighbors(m) \/ ReceiveStats(m)
  \/ Edit \/ MoveCaret \/ CycleStatus \/ Enter \/ Escape
  \/ \E d \in {-height, -3, -1, 1, 3, height} : Move(d)
  \/ \E h \in Heights : Resize(h)
  \/ \E c \in Command : Ends(c) \/ Redacted(c)
  \/ Refreshed

Spec == Init /\ [][Next]_vars

=============================================================================
