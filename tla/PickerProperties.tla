-------------------------- MODULE PickerProperties --------------------------
(***************************************************************************)
(* What the picker promises, stated over Picker.                           *)
(***************************************************************************)
EXTENDS Picker

ResultRow == [command : Command, run : Run]

\* Every variable holds values of its kind: the caret is in the query, the
\* cursor in the list, and unless the window was resized the selected row is
\* one of those on the screen.
TypeOK ==
  /\ query \in Query
  /\ caret \in 0..Len(query) /\ status \in DOMAIN StatusCycle
  /\ \A i \in DOMAIN results : results[i] \in ResultRow
  /\ cursor \in Nat /\ offset \in Nat
  /\ cursor = 0 \/ cursor < Len(results)
  /\ offset <= cursor
  /\ height \in Heights
  /\ "resize" \notin setting => cursor < offset + height
  /\ pane \in (Command \X Nat) \cup {None}
  /\ neighborsFor \in (Command \X Nat) \cup {None}
  /\ DOMAIN stats \subseteq Command

\* The query asked last has not been answered.
Awaited ==
  \/ \E m \in flight : m.kind \in {"query", "results"} /\ m.seq = seq

\* The list answers the question on the screen, its text, its status filter
\* and the history known by then, or the answer is on its way: what arrives
\* late for a question the user has typed past is not shown (tui.go, seq).
\* Nor does it stay at the slice of the history the first frame is drawn from:
\* once the rest is there it is asked again.
ListAnswersQuery ==
  setting \cap {"change", "error"} = {} /\ open /\ ~Awaited =>
    LET known == IF \E m \in flight : m.kind \in {"load", "stats"}
                   THEN stats ELSE CommandStats(StatsLimit)
    IN  results = Ranked(Ask(seq, known, query, StatusCycle[status]))

\* How well a token matches, by definition.
TierOf(text, tok) ==
  LET folded == Fold(text)
  IN  IF \E i \in WordStarts(text) : HasPrefixAt(folded, i, tok) THEN TierPrefix
      ELSE IF \E i \in DOMAIN text : HasPrefixAt(folded, i, tok) THEN TierSubstring
      ELSE IF \E f \in [DOMAIN tok -> DOMAIN text] :
                \A i, j \in DOMAIN tok : (i < j => f[i] < f[j]) /\ folded[f[i]] = tok[i]
             THEN TierFuzzy ELSE TierNone

QualityOf(q, c) ==
  LET tokens == Tokens(q)
  IN  Min({TierPrefix} \cup {TierOf(c, tokens[i]) : i \in DOMAIN tokens})

Qualities == {[query |-> q, command |-> c, tier |-> QualityOf(q, c)] : q \in Query, c \in Command}

Quality(c) == (CHOOSE m \in Qualities : m.query = query /\ m.command = c).tier

\* A worse match is never listed over a better one, whatever the context says
\* (rank.go), and a command is missing only when as many others that match no
\* worse were looked up.  Without a query the list is in the order it
\* happened.  A command whose last run was interrupted, and of which no run
\* failed, is an exception: the filter for failed ones leaves it out, although
\* its row says failed.
BestMatchFirst ==
  setting \cap {"change", "error"} = {} /\ open /\ ~Awaited =>
    LET listed == {results[i].command : i \in DOMAIN results}
        filter == StatusCycle[status]
        last(c) == CHOOSE r \in runs[c] : r.start = Latest(runs[c])
        matches(c) == Quality(c) # TierNone /\ StatusMatches(last(c), filter)
        better(c) == {d \in DOMAIN stats \ {c} :
                        StatusPossible(stats[d], filter) /\ Quality(d) >= Quality(c)}
    IN  /\ \A i, j \in DOMAIN results : i < j =>
             LET c == results[i].command  d == results[j].command
             IN  /\ Quality(c) >= Quality(d)
                 /\ Tokens(query) = << >> => Latest(runs[c]) > Latest(runs[d])
        /\ \A c \in listed : matches(c)
        /\ \A c \in DOMAIN stats \ listed : matches(c) =>
             \/ Cardinality(better(c)) >= RefineCandidates
             \/ Of(runs[c], {"failed", "neverRan"}) = {} /\ filter = "failed"

\* The pane shows the session of the row that is selected, never another's,
\* unless the list is about to be replaced.
PaneBelongs == open /\ pane \notin {None, SelectedId} => Awaited

\* The rows whose session is read.
Reading ==
  {m.id : m \in {n \in flight : n.kind \in {"loadNeighbors", "neighbors"}}}

\* What is remembered as loaded is the selected row's session, unless it is
\* still read: an answer for another row is not taken for it, and one for this
\* row is not given up for good.
PaneIsRemembered == open /\ ~Awaited => neighborsFor = SelectedId \/ SelectedId \in Reading

\* Nor is the pane empty once everything arrived, when no key is pressed while
\* an answer is awaited and no read fails.
PaneIsFilled ==
  setting \subseteq {"change", "resize"} /\ open /\ flight = {} => pane = SelectedId

\* However the selection moves while answers are awaited, and whether they
\* succeed, the session shown and the one remembered are never another row's
\* (tui.go, neighborsMsg and neighborCmd).  Keys pressed ahead of an answer may
\* leave the pane empty: when the selection leaves a row and is back before the
\* other's session arrived, the row's own is remembered but not shown.
PaneFollows == PaneBelongs /\ PaneIsRemembered /\ PaneIsFilled

\* An acceptance is logged with the rank its command has in the list it was
\* taken from (tui.go, recordAcceptance), the ranking of the question the list
\* answers.  That is the question on the screen, the query logged with the rank
\* included, unless keys were pressed while its answer was awaited: then it is
\* an earlier one.  What the history was when the list was read is not kept, so
\* ranks are not compared when it changes.
AcceptanceIsRanked ==
  accepted # None =>
    LET list0 == Ranked(shown)
    IN  /\ "ahead" \notin setting \/ shown.seq = seq =>
             /\ shown = Ask(seq, stats, query, StatusCycle[status])
             /\ shown.query = accepted.query
        /\ "change" \notin setting =>
             /\ accepted.rank < accepted.results /\ accepted.results = Len(list0)
             /\ accepted.chosen = list0[accepted.rank + 1].command

=============================================================================
