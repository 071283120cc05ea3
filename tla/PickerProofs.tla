---------------------------- MODULE PickerProofs ----------------------------
(***************************************************************************)
(* Proofs about the picker, for any history, any queries and any number of *)
(* keys.  First its update loop, for any way to rank: the list answers the *)
(* question on the screen, the pane shows the session of the selected row, *)
(* and an acceptance is logged with its place in the list.  Then how it    *)
(* ranks: scores are integers, a token is found where its characters are,  *)
(* and the list has the better matches first and leaves none out.          *)
(***************************************************************************)
EXTENDS PickerProperties, FiniteSetTheorems, SequenceTheorems, TLAPS

\* There are finitely many commands, and the first frame is drawn from a part
\* of what the picker goes on to read (tui.go: 200 of 20000).
Sizes ==
  /\ IsFiniteSet(Command)
  /\ RefineCandidates \in Nat /\ StatsLimit \in Nat /\ RefineCandidates <= StatsLimit

Loading == \E m \in flight : m.kind \in {"load", "stats"}

Question(m) == m.kind \in {"query", "results"}

AskNow == Ask(seq, stats, query, StatusCycle[status])

\* Questions are numbered as they are asked, and the newest is in flight once;
\* the history is read once.
FlightInv ==
  /\ seq \in Nat
  /\ \A m \in flight :
       /\ Question(m) => m.seq \in Nat /\ m.seq <= seq
       /\ m.kind = "query" /\ m.seq = seq => m = AskNow
  /\ \A m, n \in flight :
       /\ Question(m) /\ Question(n) /\ m.seq = seq /\ n.seq = seq => m = n
       /\ m.kind \in {"load", "stats"} /\ n.kind \in {"load", "stats"} => m = n

Steady == setting \cap {"change", "error"} = {}

\* What is on its way for the newest question is its answer, and so is the list
\* once nothing is.
ListInv ==
  Steady /\ open =>
    /\ \A m \in flight : m.kind = "results" /\ m.seq = seq => m.cmds = Ranked(AskNow)
    /\ ~Awaited => results = Ranked(AskNow)
    /\ \A m \in flight : m.kind = "stats" => m.stats = CommandStats(StatsLimit)
    /\ stats = IF Loading THEN CommandStats(RefineCandidates) ELSE CommandStats(StatsLimit)

\* Keys wait for the screen, and the database answers.
Calm == setting \subseteq {"change", "resize"} /\ open

LookedUp(row) == \E m \in flight : m.kind \in {"loadNeighbors", "neighbors"} /\ m.id = row

\* The pane shows the row its neighbours were loaded for.  Once the list is
\* there, that is the selected one or its neighbours are on their way, and
\* nothing was looked up before the first list.
PaneInv ==
  /\ pane # None => pane = neighborsFor
  /\ PaneBelongs
  /\ open /\ ~Awaited => neighborsFor = SelectedId \/ LookedUp(SelectedId)
  /\ Calm =>
       /\ \A m \in flight : m.kind = "neighbors" => m.found
       /\ Awaited \/ Loading => pane = neighborsFor
       /\ ~Awaited => pane = SelectedId \/ LookedUp(SelectedId)
       /\ ~Awaited /\ SelectedId = None => neighborsFor = None
       /\ Awaited /\ Loading =>
            neighborsFor = None /\ \A m \in flight : m.kind \notin {"loadNeighbors", "neighbors"}

\* The list is the answer to the question shown, and that is the newest unless
\* the newest is awaited.
ShownInv ==
  /\ shown.seq \in Nat /\ shown.seq <= seq
  /\ shown.seq = seq => shown = AskNow
  /\ open => Awaited \/ shown.seq = seq
  /\ \A m \in flight : m.kind = "results" =>
       m.of.seq = m.seq /\ (m.seq = seq => m.of = AskNow)
  /\ "change" \notin setting =>
       /\ \A m \in flight : m.kind = "results" => m.cmds \in {<< >>, Ranked(m.of)}
       /\ results \in {<< >>, Ranked(shown)}

\* Nothing happens after an acceptance.
AcceptInv == (accepted # None => ~open) /\ AcceptanceIsRanked

----------------------------------------------------------------------------
\* Reading more of the history and finding no more of it is reading it all.
LEMMA NoMoreStats ==
  ASSUME Sizes,
         ~(Cardinality(DOMAIN CommandStats(StatsLimit)) > Cardinality(DOMAIN CommandStats(RefineCandidates)))
  PROVE  CommandStats(StatsLimit) = CommandStats(RefineCandidates)
<1> DEFINE newer(c) == {d \in Command : cached[d] # {} /\ Latest(cached[d]) > Latest(cached[c])}
           part(n) == {d \in Command : cached[d] # {} /\ Cardinality(newer(d)) < n}
<1>1. \A n : CommandStats(n) = [c \in part(n) |-> cached[c]]
  BY Zenon DEF CommandStats
<1>2. \A d \in Command : Cardinality(newer(d)) \in Nat
  <2> SUFFICES ASSUME NEW d \in Command PROVE Cardinality(newer(d)) \in Nat
    OBVIOUS
  <2>1. newer(d) \in SUBSET Command
    OBVIOUS
  <2>2. IsFiniteSet(newer(d))
    BY <2>1, FS_Subset DEF Sizes
  <2> QED BY <2>2, FS_CardinalityType
<1> HIDE DEF newer
<1>3. part(RefineCandidates) \in SUBSET part(StatsLimit) /\ part(StatsLimit) \in SUBSET Command
  BY <1>2 DEF Sizes
<1>4. IsFiniteSet(part(StatsLimit)) /\ IsFiniteSet(part(RefineCandidates))
  BY <1>3, FS_Subset DEF Sizes
<1>5. /\ Cardinality(part(StatsLimit)) \in Nat /\ Cardinality(part(RefineCandidates)) \in Nat
      /\ Cardinality(part(RefineCandidates)) <= Cardinality(part(StatsLimit))
      /\ Cardinality(part(StatsLimit)) = Cardinality(part(RefineCandidates))
           => part(StatsLimit) = part(RefineCandidates)
  BY <1>3, <1>4, FS_Subset, FS_CardinalityType
<1> HIDE DEF part
<1>6. /\ DOMAIN CommandStats(StatsLimit) = part(StatsLimit)
      /\ DOMAIN CommandStats(RefineCandidates) = part(RefineCandidates)
  BY <1>1
<1>7. part(StatsLimit) = part(RefineCandidates)
  BY <1>5, <1>6
<1> QED BY <1>1, <1>7

----------------------------------------------------------------------------
LEMMA FlightInit == Init => FlightInv
<1> SUFFICES ASSUME Init PROVE FlightInv
  OBVIOUS
<1>0. seq = 1
  BY DEF Init
<1>1. AskNow = Ask(1, stats, query, "")
  BY DEF Init, AskNow, StatusCycle
<1>2. flight = {AskNow, [kind |-> "load"]}
  BY <1>1 DEF Init
<1>3. AskNow.kind = "query" /\ AskNow.seq = 1
  BY <1>1 DEF Ask
<1>4. PICK l : l.kind = "load" /\ flight = {AskNow, l}
  BY <1>2
<1> HIDE DEF AskNow
<1>5. \A m \in flight : (Question(m) => m = AskNow) /\ (m.kind \in {"load", "stats"} => m = l)
  BY <1>3, <1>4 DEF Question
<1>6. \A m \in flight : m.kind = "query" => m = AskNow
  BY <1>5 DEF Question
<1>7. \A m \in flight : Question(m) => m.seq = 1
  BY <1>3, <1>5
<1>8. \A m, n \in flight :
        /\ Question(m) /\ Question(n) => m = n
        /\ m.kind \in {"load", "stats"} /\ n.kind \in {"load", "stats"} => m = n
  BY <1>5, Zenon
<1> HIDE DEF Question
<1>9. 1 \in Nat /\ 1 <= seq
  BY <1>0
<1>10. \A m \in flight : Question(m) => m.seq \in Nat /\ m.seq <= seq
  BY <1>7, <1>9, Zenon
<1>11. seq \in Nat
  BY <1>0
<1> QED BY <1>6, <1>8, <1>10, <1>11, Zenon DEF FlightInv

\* A command becomes one message, which answers it.
LEMMA AnswerIs ==
  ASSUME NEW m, Answer(m)
  PROVE  \E n :
           /\ flight' = (flight \ {m}) \cup {n}
           /\ \/ /\ m.kind = "query" /\ n.kind = "results" /\ n.seq = m.seq /\ n.of = m
                 /\ n.cmds \in {<< >>, Ranked(m)}
                 /\ "error" \notin setting => n.cmds = Ranked(m)
              \/ /\ m.kind = "load" /\ n.kind = "stats"
                 /\ "error" \notin setting => n.stats = CommandStats(StatsLimit)
              \/ /\ m.kind = "loadNeighbors" /\ n.kind = "neighbors" /\ n.id = m.id
                 /\ "error" \notin setting => n.found
<1> DEFINE results_(f) == [kind |-> "results", seq |-> m.seq, of |-> m,
                          cmds |-> IF f THEN << >> ELSE Ranked(m)]
           stats_(f) == [kind |-> "stats", stats |-> IF f THEN << >> ELSE CommandStats(StatsLimit)]
           neighbors_(f) == [kind |-> "neighbors", id |-> m.id, found |-> ~f]
<1>1. \A f \in BOOLEAN :
        /\ results_(f).kind = "results" /\ results_(f).seq = m.seq
        /\ results_(f).of = m /\ results_(f).cmds \in {<< >>, Ranked(m)}
        /\ ~f => results_(f).cmds = Ranked(m)
        /\ stats_(f).kind = "stats"
        /\ ~f => stats_(f).stats = CommandStats(StatsLimit)
        /\ neighbors_(f).kind = "neighbors" /\ neighbors_(f).id = m.id
        /\ ~f => neighbors_(f).found
  OBVIOUS
<1>2. PICK f \in BOOLEAN :
        /\ "error" \notin setting => ~f
        /\ \/ m.kind = "query" /\ flight' = (flight \ {m}) \cup {results_(f)}
           \/ m.kind = "load" /\ flight' = (flight \ {m}) \cup {stats_(f)}
           \/ m.kind = "loadNeighbors" /\ flight' = (flight \ {m}) \cup {neighbors_(f)}
  <2>1. \A f \in (IF "error" \in setting THEN BOOLEAN ELSE {FALSE}) :
          f \in BOOLEAN /\ ("error" \notin setting => ~f)
    OBVIOUS
  <2> QED BY <2>1, Zenon DEF Answer
<1> HIDE DEF results_, stats_, neighbors_
<1> QED BY <1>1, <1>2

\* The row selected now is looked up, unless its neighbours are shown.
LEMMA NeighborCmdIs ==
  ASSUME NEW selected, NEW pending, NeighborCmd(selected, pending)
  PROVE  \E more :
           /\ flight' = pending \cup more
           /\ \A m \in more : m.kind = "loadNeighbors" /\ m.id = selected
           /\ \/ selected = None /\ pane' = None /\ neighborsFor' = None
              \/ selected # None /\ neighborsFor = selected /\ UNCHANGED <<pane, neighborsFor>>
              \/ /\ selected # None /\ neighborsFor # selected /\ more # {}
                 /\ pane' = None /\ UNCHANGED neighborsFor
<1> DEFINE load == [kind |-> "loadNeighbors", id |-> selected]
<1>1. load.kind = "loadNeighbors" /\ load.id = selected
  OBVIOUS
<1>2. CASE selected # None /\ neighborsFor # selected
  <2>1. flight' = pending \cup {load} /\ pane' = None /\ UNCHANGED neighborsFor
    BY <1>2 DEF NeighborCmd
  <2> HIDE DEF load
  <2> QED BY <1>1, <1>2, <2>1
<1>3. CASE ~(selected # None /\ neighborsFor # selected)
  <2>1. PICK none : none = {}
    OBVIOUS
  <2>2. \/ selected = None /\ pane' = None /\ neighborsFor' = None
        \/ selected # None /\ neighborsFor = selected /\ UNCHANGED <<pane, neighborsFor>>
    BY <1>3 DEF NeighborCmd, detail
  <2>3. flight' = pending \cup none
    BY <1>3, <2>1 DEF NeighborCmd
  <2>4. \A m \in none : m.kind = "loadNeighbors" /\ m.id = selected
    BY <2>1
  <2> QED BY <2>2, <2>3, <2>4, Zenon
<1> QED BY <1>2, <1>3

\* Every edit of the query goes through editQuery.
LEMMA EditIs ==
  ASSUME Edit
  PROVE  \E q, c : EditQuery(q, c)
BY Zenon DEF Edit, Insert, DeleteWordBefore, CutRight, CutLeft, Delete, Backspace

LEMMA FlightStep ==
  ASSUME FlightInv, [Next]_vars
  PROVE  FlightInv'
<1> USE DEF FlightInv, Question
<1>1. CASE UNCHANGED vars
  BY <1>1 DEF vars, question, AskNow
<1>2. ASSUME NEW m \in flight, Answer(m) PROVE FlightInv'
  <2>1. UNCHANGED question
    BY <1>2, Zenon DEF Answer
  <2> QED BY <1>2, <2>1, AnswerIs DEF question, AskNow
<1>3. ASSUME NEW m \in flight, ReceiveResults(m) PROVE FlightInv'
  BY <1>3 DEF ReceiveResults, NeighborCmd, question, AskNow
<1>4. ASSUME NEW m \in flight, ReceiveNeighbors(m) PROVE FlightInv'
  BY <1>4 DEF ReceiveNeighbors, question, AskNow
<1>5. ASSUME NEW m \in flight, ReceiveStats(m) PROVE FlightInv'
  BY <1>5 DEF ReceiveStats, RunQuery, AskNow, Ask
<1>6. ASSUME NEW q, NEW c, EditQuery(q, c) PROVE FlightInv'
  BY <1>6 DEF EditQuery, RunQuery, AskNow, Ask
<1>7. CASE MoveCaret
  BY <1>7 DEF MoveCaret, AskNow
<1>8. CASE CycleStatus
  BY <1>8 DEF CycleStatus, RunQuery, AskNow, Ask
<1>9. CASE Enter \/ Escape
  BY <1>9 DEF Enter, Escape, question, AskNow
<1>10. ASSUME NEW n, Move(n) PROVE FlightInv'
  BY <1>10 DEF Move, NeighborCmd, question, AskNow
<1>11. ASSUME NEW h, Resize(h) PROVE FlightInv'
  BY <1>11 DEF Resize, question, AskNow
<1>12. CASE Changed
  BY <1>12 DEF Changed, question, AskNow
<1> QED BY <1>1, <1>2, <1>3, <1>4, <1>5, <1>6, <1>7, <1>8, <1>9, <1>10, <1>11, <1>12, EditIs, Zenon
        DEF Next, Ends, Redacted, Refreshed

----------------------------------------------------------------------------
(* The list.                                                               *)

\* While the history stands still, the same question has the same answer.
LEMMA RankedStays ==
  ASSUME UNCHANGED <<runs, cached>>
  PROVE  \A ask : Ranked(ask)' = Ranked(ask)
BY DEF Ranked, Found

LEMMA StatsStay ==
  ASSUME UNCHANGED cached
  PROVE  \A n : CommandStats(n)' = CommandStats(n)
BY DEF CommandStats

LEMMA ListInit == Init => ListInv
<1> SUFFICES ASSUME Init PROVE ListInv
  OBVIOUS
<1>1. seq = 1
  BY DEF Init
<1>2. AskNow = Ask(1, stats, query, "")
  BY DEF Init, AskNow, StatusCycle
<1>3. PICK l : l.kind = "load" /\ flight = {AskNow, l}
  BY <1>2 DEF Init
<1>4. AskNow.kind = "query" /\ AskNow.seq = 1
  BY <1>2 DEF Ask
<1>5. \A m \in flight : m.kind # "results" /\ m.kind # "stats"
  BY <1>3, <1>4
<1>6. Awaited /\ Loading
  BY <1>1, <1>3, <1>4 DEF Awaited, Loading
<1>7. stats = CommandStats(RefineCandidates)
  BY DEF Init
<1> QED BY <1>5, <1>6, <1>7 DEF ListInv

\* With nothing taken out of flight but what is not about the list, and the list
\* and its question untouched, nothing changes.
LEMMA ListUntouched ==
  ASSUME ListInv, UNCHANGED <<runs, cached, seq, query, status, stats, results, setting>>,
         open' => open,
         \A m \in flight : Question(m) \/ m.kind \in {"load", "stats"} => m \in flight',
         \A m \in flight' : Question(m) \/ m.kind \in {"load", "stats"} => m \in flight
  PROVE  ListInv'
<1> SUFFICES ASSUME Steady, open PROVE ListInv'
  BY DEF ListInv, Steady
<1>1. AskNow' = AskNow
  BY DEF AskNow
<1>2. Ranked(AskNow)' = Ranked(AskNow)
  BY <1>1, RankedStays
<1>3. \A n : CommandStats(n)' = CommandStats(n)
  BY StatsStay
<1>4. (Awaited <=> Awaited') /\ (Loading <=> Loading')
  BY DEF Awaited, Loading, Question
<1> QED BY <1>2, <1>3, <1>4 DEF ListInv, Question, Steady

\* A question just asked is awaited.
LEMMA ListAsked ==
  ASSUME ListInv, FlightInv, FlightInv',
         NEW st, NEW q, NEW s, NEW pending, RunQuery(st, q, s, pending),
         UNCHANGED <<runs, cached, setting>>, open' => open,
         pending \subseteq flight,
         Steady /\ open => st = IF \E m \in pending : m.kind \in {"load", "stats"}
                                THEN CommandStats(RefineCandidates) ELSE CommandStats(StatsLimit)
  PROVE  ListInv'
<1> SUFFICES ASSUME Steady, open PROVE ListInv'
  BY DEF ListInv, Steady
<1>1. PICK a : a.kind = "query" /\ a.seq = seq + 1 /\ flight' = pending \cup {a} /\ seq' = seq + 1
  BY DEF RunQuery, Ask
<1>2. \A n : CommandStats(n)' = CommandStats(n)
  BY StatsStay
<1>3. Awaited'
  BY <1>1 DEF Awaited
<1>4. Loading' <=> \E m \in pending : m.kind \in {"load", "stats"}
  BY <1>1 DEF Loading
<1>5. stats' = st
  BY DEF RunQuery
<1>6. stats' = IF Loading' THEN CommandStats(RefineCandidates)' ELSE CommandStats(StatsLimit)'
  BY <1>2, <1>4, <1>5
<1>7. \A m \in flight' : m.kind = "results" => m.seq # seq'
  BY <1>1 DEF FlightInv, Question
<1>8. \A m \in flight' : m.kind = "stats" => m.stats = CommandStats(StatsLimit)'
  BY <1>1, <1>2 DEF ListInv
<1> QED BY <1>3, <1>6, <1>7, <1>8 DEF ListInv

LEMMA ListStep ==
  ASSUME Sizes, FlightInv, FlightInv', ListInv, [Next]_vars
  PROVE  ListInv'
<1>1. CASE UNCHANGED vars
  BY <1>1, ListUntouched DEF vars, database, question, list, outcome
<1>2. ASSUME NEW m \in flight, Answer(m) PROVE ListInv'
  <2>1. UNCHANGED <<runs, cached, seq, query, status, stats, results, setting, open>>
    BY <1>2 DEF Answer, database, question, list, outcome
  <2> SUFFICES ASSUME Steady, open PROVE ListInv'
    BY <2>1 DEF ListInv, Steady
  <2>2. PICK n :
          /\ flight' = (flight \ {m}) \cup {n}
          /\ \/ m.kind = "query" /\ n.kind = "results" /\ n.seq = m.seq /\ n.cmds = Ranked(m)
             \/ m.kind = "load" /\ n.kind = "stats" /\ n.stats = CommandStats(StatsLimit)
             \/ m.kind = "loadNeighbors" /\ n.kind = "neighbors"
    BY <1>2, AnswerIs DEF Steady
  <2>3. AskNow' = AskNow
    BY <2>1 DEF AskNow
  <2>4. Ranked(AskNow)' = Ranked(AskNow)
    BY <2>1, <2>3, RankedStays
  <2>5. \A k : CommandStats(k)' = CommandStats(k)
    BY <2>1, StatsStay
  <2>6. Awaited <=> Awaited'
    BY <2>1, <2>2 DEF Awaited
  <2>7. Loading <=> Loading'
    BY <2>2 DEF Loading
  <2>8. \A k \in flight' : k.kind = "results" /\ k.seq = seq' => k.cmds = Ranked(AskNow)
    BY <2>1, <2>2 DEF ListInv, FlightInv
  <2>9. \A k \in flight' : k.kind = "stats" => k.stats = CommandStats(StatsLimit)
    BY <2>2 DEF ListInv
  <2> QED BY <2>1, <2>4, <2>5, <2>6, <2>7, <2>8, <2>9 DEF ListInv
<1>3. ASSUME NEW m \in flight, ReceiveResults(m) PROVE ListInv'
  <2>1. UNCHANGED <<runs, cached, seq, query, status, stats, setting, open>>
    BY <1>3 DEF ReceiveResults, database, question, outcome
  <2>2. PICK more : /\ flight' = (flight \ {m}) \cup more
                   /\ \A n \in more : n.kind = "loadNeighbors"
    <3>1. CASE m.seq # seq
      <4>1. PICK none : none = {}
        OBVIOUS
      <4>2. flight' = (flight \ {m}) \cup none
        BY <1>3, <3>1, <4>1 DEF ReceiveResults
      <4>3. \A n \in none : n.kind = "loadNeighbors"
        BY <4>1
      <4> QED BY <4>2, <4>3, Zenon
    <3>2. CASE m.seq = seq
      <4>1. PICK selected : NeighborCmd(selected, flight \ {m})
        BY <1>3, <3>2, Zenon DEF ReceiveResults
      <4>2. PICK more : /\ flight' = (flight \ {m}) \cup more
                       /\ \A n \in more : n.kind = "loadNeighbors" /\ n.id = selected
        BY <4>1, NeighborCmdIs
      <4> QED BY <4>2
    <3> QED BY <3>1, <3>2
  <2>3. CASE m.seq # seq
    <3>1. results' = results /\ m.kind = "results"
      BY <1>3, <2>3 DEF ReceiveResults, list
    <3> SUFFICES ASSUME Steady, open PROVE ListInv'
      BY <2>1 DEF ListInv, Steady
    <3>2. AskNow' = AskNow /\ Ranked(AskNow)' = Ranked(AskNow)
      BY <2>1, RankedStays DEF AskNow
    <3>3. \A k : CommandStats(k)' = CommandStats(k)
      BY <2>1, StatsStay
    <3>4. (Awaited <=> Awaited') /\ (Loading <=> Loading')
      BY <2>1, <2>2, <2>3, <3>1 DEF Awaited, Loading
    <3> QED BY <2>1, <2>2, <3>1, <3>2, <3>3, <3>4 DEF ListInv
  <2>4. CASE m.seq = seq
    <3>1. results' = m.cmds /\ m.kind = "results"
      BY <1>3, <2>4 DEF ReceiveResults
    <3> SUFFICES ASSUME Steady, open PROVE ListInv'
      BY <2>1 DEF ListInv, Steady
    <3>2. AskNow' = AskNow /\ Ranked(AskNow)' = Ranked(AskNow)
      BY <2>1, RankedStays DEF AskNow
    <3>3. \A k : CommandStats(k)' = CommandStats(k)
      BY <2>1, StatsStay
    <3>4. Loading <=> Loading'
      BY <2>2, <3>1 DEF Loading
    <3> QED BY <2>1, <2>2, <2>4, <3>1, <3>2, <3>3, <3>4 DEF ListInv
  <2> QED BY <2>3, <2>4
<1>4. ASSUME NEW m \in flight, ReceiveNeighbors(m) PROVE ListInv'
  <2>1. UNCHANGED <<runs, cached, seq, query, status, stats, results, setting, open>>
    BY <1>4 DEF ReceiveNeighbors, database, question, list, outcome
  <2> QED BY <1>4, <2>1, ListUntouched DEF ReceiveNeighbors, Question
<1>5. ASSUME NEW m \in flight, ReceiveStats(m) PROVE ListInv'
  <2>1. UNCHANGED <<runs, cached, results, setting, open>> /\ m.kind = "stats"
    BY <1>5 DEF ReceiveStats, database, list, outcome
  <2>2. \A n \in flight \ {m} : n.kind \notin {"load", "stats"}
    BY <2>1 DEF FlightInv
  <2>3. CASE Cardinality(DOMAIN m.stats) > Cardinality(DOMAIN stats)
    <3>1. RunQuery(m.stats, query, status, flight \ {m})
      BY <1>5, <2>3 DEF ReceiveStats
    <3>2. Steady /\ open => m.stats = CommandStats(StatsLimit)
      BY <2>1 DEF ListInv
    <3> QED BY <2>1, <2>2, <3>1, <3>2, ListAsked
  <2>4. CASE ~(Cardinality(DOMAIN m.stats) > Cardinality(DOMAIN stats))
    <3>1. UNCHANGED <<query, status, seq, stats>> /\ flight' = flight \ {m}
      BY <1>5, <2>4 DEF ReceiveStats
    <3> SUFFICES ASSUME Steady, open PROVE ListInv'
      BY <2>1 DEF ListInv, Steady
    <3>2. AskNow' = AskNow /\ Ranked(AskNow)' = Ranked(AskNow)
      BY <2>1, <3>1, RankedStays DEF AskNow
    <3>3. \A k : CommandStats(k)' = CommandStats(k)
      BY <2>1, StatsStay
    <3>4. Awaited <=> Awaited'
      BY <2>1, <3>1 DEF Awaited
    <3>5. ~Loading'
      BY <2>2, <3>1 DEF Loading
    <3>6. stats = CommandStats(RefineCandidates) /\ m.stats = CommandStats(StatsLimit)
      BY <2>1 DEF ListInv, Loading
    <3>7. stats = CommandStats(StatsLimit)
      BY <2>4, <3>6, NoMoreStats
    <3> QED BY <2>1, <3>1, <3>2, <3>3, <3>4, <3>5, <3>7 DEF ListInv
  <2> QED BY <2>3, <2>4
<1>6. ASSUME NEW q, NEW c, EditQuery(q, c) PROVE ListInv'
  <2>1. UNCHANGED <<runs, cached, results, setting, open>>
    BY <1>6 DEF EditQuery, Key, database, list, outcome
  <2>2. CASE q = query
    <3>1. UNCHANGED <<query, status, seq, stats, flight>>
      BY <1>6, <2>2 DEF EditQuery
    <3> QED BY <2>1, <3>1, ListUntouched
  <2>3. CASE q # query
    BY <1>6, <2>1, <2>3, ListAsked DEF EditQuery, ListInv, Loading
  <2> QED BY <2>2, <2>3
<1>7. CASE MoveCaret
  BY <1>7, ListUntouched DEF MoveCaret, Key, database, list, outcome
<1>8. CASE CycleStatus
  <2>1. UNCHANGED <<runs, cached, results, setting, open>>
    BY <1>8 DEF CycleStatus, Key, database, list, outcome
  <2> QED BY <1>8, <2>1, ListAsked DEF CycleStatus, ListInv, Loading
<1>9. CASE Enter \/ Escape
  BY <1>9 DEF Enter, Escape, ListInv
<1>10. ASSUME NEW n, Move(n) PROVE ListInv'
  <2>1. UNCHANGED <<runs, cached, seq, query, status, stats, results, setting, open>>
    BY <1>10 DEF Move, Key, database, question, list, outcome
  <2>2. PICK more : /\ flight' = flight \cup more
                   /\ \A m \in more : m.kind = "loadNeighbors"
    <3>1. PICK selected : NeighborCmd(selected, flight)
      BY <1>10, Zenon DEF Move
    <3>2. PICK more : /\ flight' = flight \cup more
                     /\ \A m \in more : m.kind = "loadNeighbors" /\ m.id = selected
      BY <3>1, NeighborCmdIs
    <3> QED BY <3>2
  <2> QED BY <2>1, <2>2, ListUntouched DEF Question
<1>11. ASSUME NEW h, Resize(h) PROVE ListInv'
  BY <1>11, ListUntouched DEF Resize, Key, database, question, list, outcome
<1>12. CASE Changed
  BY <1>12 DEF Changed, ListInv, Steady
<1> QED BY <1>1, <1>2, <1>3, <1>4, <1>5, <1>6, <1>7, <1>8, <1>9, <1>10, <1>11, <1>12, EditIs, Zenon
        DEF Next, Ends, Redacted, Refreshed

----------------------------------------------------------------------------
(* The pane.                                                               *)

LEMMA PaneInit == Init => PaneInv
<1> SUFFICES ASSUME Init PROVE PaneInv
  OBVIOUS
<1>0. seq = 1
  BY DEF Init
<1>1. pane = None /\ neighborsFor = None
  BY DEF Init
<1>2. PICK a, l : a.kind = "query" /\ a.seq = 1 /\ l.kind = "load" /\ flight = {a, l}
  BY DEF Init, Ask
<1>3. \A m \in flight : m.kind \in {"query", "load"}
  BY <1>2
<1>4. Awaited
  BY <1>0, <1>2 DEF Awaited
<1>5. \A m \in flight : m.kind \notin {"loadNeighbors", "neighbors"}
  BY <1>3
<1>6. PaneBelongs
  BY <1>4 DEF PaneBelongs
<1>7. \A m \in flight : m.kind = "neighbors" => m.found
  BY <1>5
<1> QED BY <1>1, <1>4, <1>5, <1>6, <1>7, Zenon DEF PaneInv

\* A question just asked when the pane agrees with the rows looked up.
LEMMA PaneAsked ==
  ASSUME PaneInv, FlightInv,
         NEW st, NEW q, NEW s, NEW pending, RunQuery(st, q, s, pending),
         UNCHANGED <<pane, neighborsFor, setting>>, open' => open,
         pending \subseteq flight,
         Calm => pane = neighborsFor /\ \A m \in pending : m.kind \notin {"load", "stats"}
  PROVE  PaneInv'
<1>1. PICK a : a.kind = "query" /\ a.seq = seq + 1 /\ flight' = pending \cup {a} /\ seq' = seq + 1
  BY DEF RunQuery, Ask
<1>2. Awaited' /\ (Calm => ~Loading')
  BY <1>1 DEF Awaited, Loading
<1>3. Calm' => Calm
  BY DEF Calm
<1> QED BY <1>1, <1>2, <1>3 DEF PaneInv, PaneBelongs

\* What touches neither the pane nor the selection.
LEMMA PaneUntouched ==
  ASSUME PaneInv, UNCHANGED <<pane, neighborsFor, setting, seq, results, cursor, flight>>, open' => open
  PROVE  PaneInv'
BY DEF PaneInv, PaneBelongs, Calm, Awaited, Loading, SelectedId, SelectedIn, LookedUp

\* The selection moves, or a list arrives.
LEMMA PaneSelects ==
  ASSUME PaneInv, FlightInv, UNCHANGED <<seq, setting, open>>,
         NEW pending \in SUBSET flight, NeighborCmd(SelectedId', pending),
         \A m \in flight \ pending : Question(m) /\ m.seq = seq,
         Calm => \A m \in pending : ~(Question(m) /\ m.seq = seq),
         Calm => (Awaited /\ pending # flight) \/ flight = {}
  PROVE  PaneInv'
<1>1. PICK more :
        /\ flight' = pending \cup more
        /\ \A m \in more : m.kind = "loadNeighbors" /\ m.id = SelectedId'
        /\ \/ SelectedId' = None /\ pane' = None /\ neighborsFor' = None
           \/ SelectedId' # None /\ neighborsFor = SelectedId' /\ UNCHANGED <<pane, neighborsFor>>
           \/ /\ SelectedId' # None /\ neighborsFor # SelectedId' /\ more # {}
              /\ pane' = None /\ UNCHANGED neighborsFor
  BY NeighborCmdIs
<1>2. pane' # None => pane' = neighborsFor' /\ pane' = SelectedId'
  BY <1>1 DEF PaneInv
<1>3. PaneBelongs'
  BY <1>2 DEF PaneBelongs
<1>4. ASSUME Calm PROVE ~Awaited'
  BY <1>1, <1>4 DEF Awaited, Question
<1>5. ASSUME Calm PROVE pane = neighborsFor
  <2>1. CASE flight = {}
    BY <1>5, <2>1 DEF PaneInv, Awaited, LookedUp
  <2>2. CASE Awaited
    BY <1>5, <2>2 DEF PaneInv
  <2> QED BY <1>5, <2>1, <2>2
<1>6. ASSUME Calm, Loading' PROVE pane' = neighborsFor'
  <2>1. Loading
    BY <1>1, <1>6 DEF Loading
  <2>2. flight # {}
    BY <2>1 DEF Loading
  <2>3. neighborsFor = None
    BY <1>6, <2>1, <2>2 DEF PaneInv
  <2> QED BY <1>1, <1>5, <1>6, <2>3
<1>7. ASSUME Calm PROVE pane' = SelectedId' \/ LookedUp(SelectedId)'
  BY <1>1, <1>5, <1>7 DEF LookedUp
<1>8. ASSUME Calm, SelectedId' = None PROVE neighborsFor' = None
  BY <1>1, <1>5, <1>8
<1>9. ASSUME Calm PROVE \A m \in flight' : m.kind = "neighbors" => m.found
  BY <1>1, <1>9 DEF PaneInv
<1>10. Calm' => Calm
  BY DEF Calm
<1>11. neighborsFor' = SelectedId' \/ LookedUp(SelectedId)'
  BY <1>1 DEF LookedUp
<1> QED BY <1>2, <1>3, <1>4, <1>6, <1>7, <1>8, <1>9, <1>10, <1>11 DEF PaneInv

LEMMA PaneStep ==
  ASSUME FlightInv, PaneInv, [Next]_vars
  PROVE  PaneInv'
<1>1. CASE UNCHANGED vars
  BY <1>1, PaneUntouched DEF vars, question, list, detail, outcome
<1>2. ASSUME NEW m \in flight, Answer(m) PROVE PaneInv'
  <2>1. UNCHANGED <<pane, neighborsFor, setting, seq, results, cursor, open>>
    BY <1>2 DEF Answer, question, list, detail, outcome
  <2>2. PICK n :
          /\ flight' = (flight \ {m}) \cup {n}
          /\ \/ m.kind = "query" /\ n.kind = "results" /\ n.seq = m.seq
             \/ m.kind = "load" /\ n.kind = "stats"
             \/ /\ m.kind = "loadNeighbors" /\ n.kind = "neighbors" /\ n.id = m.id
                /\ "error" \notin setting => n.found
    BY <1>2, AnswerIs
  <2>3. (Awaited <=> Awaited') /\ (Loading <=> Loading')
    BY <2>1, <2>2 DEF Awaited, Loading
  <2>4. \A row : LookedUp(row) <=> LookedUp(row)'
    BY <2>2 DEF LookedUp
  <2>5. SelectedId' = SelectedId /\ (Calm' <=> Calm)
    BY <2>1 DEF SelectedId, SelectedIn, Calm
  <2>6. Calm /\ Awaited /\ Loading => m.kind # "loadNeighbors"
    BY DEF PaneInv
  <2> QED BY <2>1, <2>2, <2>3, <2>4, <2>5, <2>6 DEF PaneInv, PaneBelongs, Calm
<1>3. ASSUME NEW m \in flight, ReceiveResults(m) PROVE PaneInv'
  <2>1. UNCHANGED <<setting, seq, open>> /\ m.kind = "results"
    BY <1>3 DEF ReceiveResults, question, outcome
  <2>2. CASE m.seq # seq
    <3>1. UNCHANGED <<pane, neighborsFor, results, cursor>> /\ flight' = flight \ {m}
      BY <1>3, <2>2 DEF ReceiveResults, list, detail
    <3>2. (Awaited <=> Awaited') /\ (Loading <=> Loading')
      BY <2>1, <2>2, <3>1 DEF Awaited, Loading
    <3>3. \A row : LookedUp(row) <=> LookedUp(row)'
      BY <2>1, <3>1 DEF LookedUp
    <3>4. SelectedId' = SelectedId /\ (Calm' <=> Calm)
      BY <2>1, <3>1 DEF SelectedId, SelectedIn, Calm
    <3> QED BY <2>1, <3>1, <3>2, <3>3, <3>4 DEF PaneInv, PaneBelongs, Calm
  <2>3. CASE m.seq = seq
    <3>1. NeighborCmd(SelectedId', flight \ {m})
      BY <1>3, <2>3 DEF ReceiveResults, SelectedId
    <3>2. Awaited /\ Question(m)
      BY <2>1, <2>3 DEF Awaited, Question
    <3>3. \A n \in flight \ {m} : ~(Question(n) /\ n.seq = seq)
      BY <2>3, <3>2 DEF FlightInv
    <3> QED BY <2>1, <2>3, <3>1, <3>2, <3>3, PaneSelects
  <2> QED BY <2>2, <2>3
<1>4. ASSUME NEW m \in flight, ReceiveNeighbors(m) PROVE PaneInv'
  <2>1. UNCHANGED <<setting, seq, open, results, cursor>> /\ m.kind = "neighbors" /\ flight' = flight \ {m}
    BY <1>4 DEF ReceiveNeighbors, question, list, outcome
  <2>2. (Awaited <=> Awaited') /\ (Loading <=> Loading')
    BY <2>1 DEF Awaited, Loading
  <2>3. \A row : row # m.id => (LookedUp(row) <=> LookedUp(row)')
    BY <2>1 DEF LookedUp
  <2>4. SelectedId' = SelectedId /\ (Calm' <=> Calm)
    BY <2>1 DEF SelectedId, SelectedIn, Calm
  <2>5. CASE m.id = SelectedId
    <3>1. pane' = (IF m.found THEN m.id ELSE None) /\ neighborsFor' = m.id
      BY <1>4, <2>5 DEF ReceiveNeighbors
    <3>2. Calm => m.found /\ ~(Awaited /\ Loading)
      BY <2>1 DEF PaneInv
    <3> QED BY <2>1, <2>2, <2>4, <2>5, <3>1, <3>2 DEF PaneInv, PaneBelongs
  <2>6. CASE m.id # SelectedId
    <3>1. UNCHANGED <<pane, neighborsFor>>
      BY <1>4, <2>6 DEF ReceiveNeighbors, detail
    <3> QED BY <2>1, <2>2, <2>3, <2>4, <2>6, <3>1 DEF PaneInv, PaneBelongs
  <2> QED BY <2>5, <2>6
<1>5. ASSUME NEW m \in flight, ReceiveStats(m) PROVE PaneInv'
  <2>1. UNCHANGED <<pane, neighborsFor, results, cursor, setting, open>> /\ m.kind = "stats"
    BY <1>5 DEF ReceiveStats, list, detail, outcome
  <2>2. \A n \in flight \ {m} : n.kind \notin {"load", "stats"}
    BY <2>1 DEF FlightInv
  <2>3. Loading
    BY <2>1 DEF Loading
  <2>4. CASE Cardinality(DOMAIN m.stats) > Cardinality(DOMAIN stats)
    <3>1. RunQuery(m.stats, query, status, flight \ {m})
      BY <1>5, <2>4 DEF ReceiveStats
    <3>2. Calm => pane = neighborsFor
      BY <2>3 DEF PaneInv
    <3> QED BY <2>1, <2>2, <3>1, <3>2, PaneAsked
  <2>5. CASE ~(Cardinality(DOMAIN m.stats) > Cardinality(DOMAIN stats))
    <3>1. UNCHANGED seq /\ flight' = flight \ {m}
      BY <1>5, <2>5 DEF ReceiveStats
    <3>2. (Awaited <=> Awaited') /\ ~Loading'
      BY <2>1, <2>2, <3>1 DEF Awaited, Loading
    <3>3. \A row : LookedUp(row) <=> LookedUp(row)'
      BY <2>1, <3>1 DEF LookedUp
    <3>4. SelectedId' = SelectedId /\ (Calm' <=> Calm)
      BY <2>1, <3>1 DEF SelectedId, SelectedIn, Calm
    <3> QED BY <2>1, <3>1, <3>2, <3>3, <3>4 DEF PaneInv, PaneBelongs, Calm
  <2> QED BY <2>4, <2>5
<1> DEFINE quiet == Calm => flight = {} /\ pane = neighborsFor
<1>6. Key => quiet
  BY DEF Key, Patient, Calm, PaneInv, Awaited, LookedUp
<1>7. ASSUME NEW q, NEW c, EditQuery(q, c) PROVE PaneInv'
  <2>1. UNCHANGED <<pane, neighborsFor, setting, open>> /\ quiet
    BY <1>6, <1>7 DEF EditQuery, detail, outcome
  <2>2. CASE q = query
    BY <1>7, <2>1, <2>2, PaneUntouched DEF EditQuery, list
  <2>3. CASE q # query
    <3>1. RunQuery(stats, q, status, flight)
      BY <1>7, <2>3 DEF EditQuery
    <3> QED BY <2>1, <3>1, PaneAsked
  <2> QED BY <2>2, <2>3
<1>8. CASE MoveCaret
  BY <1>8, PaneUntouched DEF MoveCaret, list, detail, outcome
<1>9. CASE CycleStatus
  <2>1. UNCHANGED <<pane, neighborsFor, setting, open>> /\ quiet
    BY <1>6, <1>9 DEF CycleStatus, detail, outcome
  <2> QED BY <1>9, <2>1, PaneAsked DEF CycleStatus
<1>10. CASE Enter \/ Escape
  BY <1>10 DEF Enter, Escape, detail, PaneInv, PaneBelongs, Calm
<1>11. ASSUME NEW n, Move(n) PROVE PaneInv'
  <2>1. UNCHANGED <<seq, setting, open, results>> /\ quiet
    BY <1>6, <1>11 DEF Move, question, outcome, list
  <2>2. NeighborCmd(SelectedId', flight)
    BY <1>11, <2>1 DEF Move, SelectedId
  <2> QED BY <2>1, <2>2, PaneSelects
<1>12. ASSUME NEW h, Resize(h) PROVE PaneInv'
  BY <1>12, PaneUntouched DEF Resize, question, list, detail, outcome
<1>13. CASE Changed
  BY <1>13, PaneUntouched DEF Changed, question, list, detail, outcome
<1> QED BY <1>1, <1>2, <1>3, <1>4, <1>5, <1>7, <1>8, <1>9, <1>10, <1>11, <1>12, <1>13, EditIs, Zenon
        DEF Next, Ends, Redacted, Refreshed

----------------------------------------------------------------------------
(* The acceptance.                                                         *)

LEMMA ShownInit == Init => ShownInv
<1> SUFFICES ASSUME Init PROVE ShownInv
  OBVIOUS
<1>1. seq = 1 /\ results = << >>
  BY DEF Init
<1>2. shown.seq = 0
  BY DEF Init, Ask
<1>3. PICK a, l : a.kind = "query" /\ a.seq = 1 /\ l.kind = "load" /\ flight = {a, l}
  BY DEF Init, Ask
<1>4. Awaited
  BY <1>1, <1>3 DEF Awaited
<1>5. \A m \in flight : m.kind # "results"
  BY <1>3
<1> QED BY <1>1, <1>2, <1>4, <1>5 DEF ShownInv

\* What leaves the list, its question and what is about them in flight alone.
LEMMA ShownUntouched ==
  ASSUME ShownInv, UNCHANGED <<seq, query, status, stats, results, shown, setting>>,
         "change" \notin setting => UNCHANGED <<runs, cached>>,
         open' => open /\ \A m \in flight : Question(m) => m \in flight',
         \A m \in flight' : Question(m) => m \in flight
  PROVE  ShownInv'
<1>1. AskNow' = AskNow
  BY DEF AskNow
<1>2. "change" \notin setting => \A ask : Ranked(ask)' = Ranked(ask)
  BY RankedStays
<1>3. open' => (Awaited => Awaited')
  BY DEF Awaited, Question
<1> QED BY <1>1, <1>2, <1>3 DEF ShownInv, Question

\* A new question leaves the list the answer to an earlier one.
LEMMA ShownAsked ==
  ASSUME ShownInv, FlightInv,
         NEW st, NEW q, NEW s, NEW pending, RunQuery(st, q, s, pending),
         UNCHANGED <<runs, cached, results, shown, setting>>, pending \subseteq flight
  PROVE  ShownInv'
<1>1. PICK a : a.kind = "query" /\ a.seq = seq + 1 /\ flight' = pending \cup {a} /\ seq' = seq + 1
  BY DEF RunQuery, Ask
<1>2. \A ask : Ranked(ask)' = Ranked(ask)
  BY RankedStays
<1>3. Awaited'
  BY <1>1 DEF Awaited
<1>4. seq \in Nat /\ \A m \in flight' : m.kind = "results" => m \in flight /\ m.seq \in Nat /\ m.seq <= seq
  BY <1>1 DEF FlightInv, Question
<1>5. shown.seq \in Nat /\ shown.seq <= seq' /\ shown.seq # seq'
  BY <1>1, <1>4 DEF ShownInv
<1>6. \A m \in flight' : m.kind = "results" => m \in flight /\ m.seq # seq'
  BY <1>1, <1>4
<1> QED BY <1>2, <1>3, <1>5, <1>6 DEF ShownInv

LEMMA ShownStep ==
  ASSUME FlightInv, ShownInv, [Next]_vars
  PROVE  ShownInv'
<1>1. CASE UNCHANGED vars
  BY <1>1, ShownUntouched DEF vars, database, question, list, outcome
<1>2. ASSUME NEW m \in flight, Answer(m) PROVE ShownInv'
  <2>1. UNCHANGED <<runs, cached, seq, query, status, stats, results, shown, setting, open>>
    BY <1>2 DEF Answer, database, question, list, outcome
  <2>2. PICK n :
          /\ flight' = (flight \ {m}) \cup {n}
          /\ \/ /\ m.kind = "query" /\ n.kind = "results" /\ n.seq = m.seq /\ n.of = m
                /\ n.cmds \in {<< >>, Ranked(m)}
             \/ m.kind = "load" /\ n.kind = "stats"
             \/ m.kind = "loadNeighbors" /\ n.kind = "neighbors"
    BY <1>2, AnswerIs
  <2>3. AskNow' = AskNow /\ \A ask : Ranked(ask)' = Ranked(ask)
    BY <2>1, RankedStays DEF AskNow
  <2>4. Awaited => Awaited'
    BY <2>1, <2>2 DEF Awaited
  <2>5. \A k \in flight' : k.kind = "results" =>
          /\ k.of.seq = k.seq /\ (k.seq = seq => k.of = AskNow)
          /\ "change" \notin setting => k.cmds \in {<< >>, Ranked(k.of)}
    BY <2>2 DEF ShownInv, FlightInv
  <2> QED BY <2>1, <2>3, <2>4, <2>5 DEF ShownInv
<1>3. ASSUME NEW m \in flight, ReceiveResults(m) PROVE ShownInv'
  <2>1. UNCHANGED <<runs, cached, seq, query, status, stats, setting, open>> /\ m.kind = "results"
    BY <1>3 DEF ReceiveResults, database, question, outcome
  <2>2. AskNow' = AskNow /\ \A ask : Ranked(ask)' = Ranked(ask)
    BY <2>1, RankedStays DEF AskNow
  <2>3. CASE m.seq # seq
    <3>1. UNCHANGED <<results, shown>> /\ flight' = flight \ {m}
      BY <1>3, <2>3 DEF ReceiveResults, list
    <3>2. Awaited => Awaited'
      BY <2>1, <2>3, <3>1 DEF Awaited
    <3> QED BY <2>1, <2>2, <3>1, <3>2 DEF ShownInv
  <2>4. CASE m.seq = seq
    <3>1. results' = m.cmds /\ shown' = m.of
      BY <1>3, <2>4 DEF ReceiveResults
    <3>2. PICK selected : NeighborCmd(selected, flight \ {m})
      BY <1>3, <2>4, Zenon DEF ReceiveResults
    <3>3. PICK more : flight' = (flight \ {m}) \cup more /\ \A n \in more : n.kind = "loadNeighbors"
      BY <3>2, NeighborCmdIs
    <3>4. m.of.seq = seq /\ m.of = AskNow /\ seq \in Nat
      BY <2>1, <2>4 DEF ShownInv, FlightInv
    <3>5. shown'.seq \in Nat /\ shown'.seq <= seq /\ shown'.seq = seq
      BY <3>1, <3>4
    <3> QED BY <2>1, <2>2, <3>1, <3>3, <3>4, <3>5 DEF ShownInv
  <2> QED BY <2>3, <2>4
<1>4. ASSUME NEW m \in flight, ReceiveNeighbors(m) PROVE ShownInv'
  <2>1. UNCHANGED <<runs, cached, seq, query, status, stats, results, shown, setting, open>>
    BY <1>4 DEF ReceiveNeighbors, database, question, list, outcome
  <2> QED BY <1>4, <2>1, ShownUntouched DEF ReceiveNeighbors, Question
<1>5. ASSUME NEW m \in flight, ReceiveStats(m) PROVE ShownInv'
  <2>1. UNCHANGED <<runs, cached, results, shown, setting, open>> /\ m.kind = "stats"
    BY <1>5 DEF ReceiveStats, database, list, outcome
  <2>2. CASE Cardinality(DOMAIN m.stats) > Cardinality(DOMAIN stats)
    <3>1. RunQuery(m.stats, query, status, flight \ {m})
      BY <1>5, <2>2 DEF ReceiveStats
    <3> QED BY <2>1, <3>1, ShownAsked
  <2>3. CASE ~(Cardinality(DOMAIN m.stats) > Cardinality(DOMAIN stats))
    <3>1. UNCHANGED <<query, status, seq, stats>> /\ flight' = flight \ {m}
      BY <1>5, <2>3 DEF ReceiveStats
    <3> QED BY <2>1, <3>1, ShownUntouched DEF Question
  <2> QED BY <2>2, <2>3
<1>6. ASSUME NEW q, NEW c, EditQuery(q, c) PROVE ShownInv'
  <2>1. UNCHANGED <<runs, cached, results, shown, setting, open>>
    BY <1>6 DEF EditQuery, Key, database, list, outcome
  <2>2. CASE q = query
    <3>1. UNCHANGED <<query, status, seq, stats, flight>>
      BY <1>6, <2>2 DEF EditQuery
    <3> QED BY <2>1, <3>1, ShownUntouched
  <2>3. CASE q # query
    <3>1. RunQuery(stats, q, status, flight)
      BY <1>6, <2>3 DEF EditQuery
    <3> QED BY <2>1, <3>1, ShownAsked
  <2> QED BY <2>2, <2>3
<1>7. CASE MoveCaret
  BY <1>7, ShownUntouched DEF MoveCaret, Key, database, list, outcome
<1>8. CASE CycleStatus
  <2>1. UNCHANGED <<runs, cached, results, shown, setting, open>>
    BY <1>8 DEF CycleStatus, Key, database, list, outcome
  <2>2. RunQuery(stats, query, (status % Len(StatusCycle)) + 1, flight)
    BY <1>8 DEF CycleStatus
  <2> QED BY <2>1, <2>2, ShownAsked
<1>9. CASE Enter \/ Escape
  BY <1>9, ShownUntouched DEF Enter, Escape, database, question, list
<1>10. ASSUME NEW n, Move(n) PROVE ShownInv'
  <2>1. UNCHANGED <<runs, cached, seq, query, status, stats, results, shown, setting, open>>
    BY <1>10 DEF Move, Key, database, question, list, outcome
  <2>2. PICK selected : NeighborCmd(selected, flight)
    BY <1>10, Zenon DEF Move
  <2>3. PICK more : flight' = flight \cup more /\ \A m \in more : m.kind = "loadNeighbors"
    BY <2>2, NeighborCmdIs
  <2> QED BY <2>1, <2>3, ShownUntouched DEF Question
<1>11. ASSUME NEW h, Resize(h) PROVE ShownInv'
  BY <1>11, ShownUntouched DEF Resize, Key, database, question, list, outcome
<1>12. CASE Changed
  BY <1>12, ShownUntouched DEF Changed, question, list, outcome
<1> QED BY <1>1, <1>2, <1>3, <1>4, <1>5, <1>6, <1>7, <1>8, <1>9, <1>10, <1>11, <1>12, EditIs, Zenon
        DEF Next, Ends, Redacted, Refreshed

LEMMA AcceptInit == Init => AcceptInv
BY DEF Init, AcceptInv, AcceptanceIsRanked

LEMMA AcceptStep ==
  ASSUME ShownInv, AcceptInv, cursor \in Nat, [Next]_vars
  PROVE  AcceptInv'
<1>1. ASSUME UNCHANGED accepted, accepted = None PROVE AcceptInv'
  BY <1>1 DEF AcceptInv, AcceptanceIsRanked
<1>2. CASE ~open
  <2>1. UNCHANGED vars
    BY <1>2, EditIs, Zenon
    DEF Next, Answer, ReceiveResults, ReceiveNeighbors, ReceiveStats, EditQuery, MoveCaret, CycleStatus,
        Enter, Escape, Move, Resize, Key, Ends, Redacted, Refreshed, Changed
  <2>2. UNCHANGED <<runs, cached, seq, query, status, stats, shown, accepted, setting, open>>
    BY <2>1 DEF vars, database, question, list, outcome
  <2>3. \A ask : Ranked(ask)' = Ranked(ask)
    BY <2>2, RankedStays
  <2> QED BY <2>2, <2>3 DEF AcceptInv, AcceptanceIsRanked, Ask
<1>3. CASE open /\ Enter
  <2>1. UNCHANGED <<runs, cached, seq, query, status, stats, shown, setting>> /\ ~open'
    BY <1>3 DEF Enter, database, question, list
  <2>2. CASE UNCHANGED accepted
    BY <1>1, <1>3, <2>2 DEF AcceptInv
  <2>3. CASE ~UNCHANGED accepted
    <3>1. cursor < Len(results)
      BY <1>3, <2>3 DEF Enter, SelectedId, SelectedIn
    <3>2. PICK a : /\ accepted' = a
                  /\ a.query = query /\ a.chosen = results[cursor + 1].command
                  /\ a.rank = cursor /\ a.results = Len(results)
      BY <1>3, <2>3 DEF Enter, RecordAcceptance
    <3>3. "ahead" \notin setting => shown.seq = seq
      BY <1>3 DEF Enter, Patient, Awaited, ShownInv
    <3>4. shown.seq = seq => shown = AskNow /\ AskNow.query = query
      BY DEF ShownInv, AskNow, Ask
    <3>5. ASSUME "change" \notin setting PROVE results = Ranked(shown)
      <4>1. results # << >>
        BY <3>1
      <4> QED BY <3>5, <4>1 DEF ShownInv
    <3>6. Ranked(shown)' = Ranked(shown)
      BY <2>1, RankedStays
    <3> QED BY <2>1, <3>1, <3>2, <3>3, <3>4, <3>5, <3>6 DEF AcceptInv, AcceptanceIsRanked, AskNow, Ask
  <2> QED BY <2>2, <2>3
<1>4. CASE open /\ ~Enter
  <2>1. accepted = None
    BY <1>4 DEF AcceptInv
  <2>2. UNCHANGED accepted
    BY <1>4, EditIs
    DEF Next, Answer, ReceiveResults, ReceiveNeighbors, ReceiveStats, EditQuery, MoveCaret, CycleStatus,
        Escape, Move, Resize, Ends, Redacted, Refreshed, Changed, vars, outcome
  <2> QED BY <1>1, <2>1, <2>2
<1> QED BY <1>2, <1>3, <1>4

----------------------------------------------------------------------------
(* Sums.  SumFunction goes through its domain an element at a time: a      *)
(* counterexample on the fewest elements would be one on fewer.            *)

\* Every non-empty set of naturals has a least.
LEMMA LeastNat ==
  ASSUME NEW T \in SUBSET Nat, T # {}
  PROVE  \E n \in T : \A m \in T : n <= m
<1>1. PICK x \in T : \A y \in T : ~(<<y, x>> \in OpToRel(<, Nat))
  BY NatLessThanWellFounded, WFMin, Zenon
<1>2. \A y \in T : ~(y < x)
  BY <1>1 DEF OpToRel
<1> QED BY <1>2

\* A non-empty set of finite sets has one with the fewest elements.
LEMMA Fewest ==
  ASSUME NEW S, IsFiniteSet(S), NEW B \in SUBSET (SUBSET S), B # {}
  PROVE  \E s \in B : IsFiniteSet(s) /\ \A t \in B : Cardinality(s) <= Cardinality(t)
<1>1. \A s \in B : IsFiniteSet(s) /\ Cardinality(s) \in Nat
  BY FS_Subset, FS_CardinalityType
<1>2. {Cardinality(s) : s \in B} \in SUBSET Nat /\ {Cardinality(s) : s \in B} # {}
  BY <1>1
<1>3. PICK n \in {Cardinality(s) : s \in B} : \A m \in {Cardinality(s) : s \in B} : n <= m
  BY <1>2, LeastNat
<1> QED BY <1>1, <1>3

\* What SumFunction goes through: subset by subset, an element at a time.
One(t) == CHOOSE x \in t : TRUE

Adds(h, s, w) ==
  \A t \in SUBSET s : h[t] = IF t = {} THEN 0 ELSE w[One(t)] + h[t \ {One(t)}]

\* Two ways of adding up agree where both go.
LEMMA SumsAgree ==
  ASSUME NEW S, IsFiniteSet(S), NEW w, NEW h, NEW g, NEW a \in SUBSET S, NEW b \in SUBSET S,
         Adds(h, a, w), Adds(g, b, w)
  PROVE  \A t \in SUBSET (a \cap b) : h[t] = g[t]
<1> DEFINE B == {t \in SUBSET (a \cap b) : h[t] # g[t]}
<1> SUFFICES ASSUME B # {} PROVE FALSE
  OBVIOUS
<1>1. PICK s \in B : IsFiniteSet(s) /\ \A t \in B : Cardinality(s) <= Cardinality(t)
  <2>1. B \in SUBSET (SUBSET S)
    OBVIOUS
  <2> HIDE DEF B
  <2> QED BY <2>1, Fewest
<1>2. s # {}
  BY DEF Adds
<1>3. One(s) \in s
  BY <1>2 DEF One
<1>4. s \ {One(s)} \notin B
  <2>1. Cardinality(s \ {One(s)}) = Cardinality(s) - 1 /\ Cardinality(s) \in Nat
    BY <1>1, <1>3, FS_RemoveElement, FS_CardinalityType
  <2> QED BY <1>1, <2>1
<1>5. h[s \ {One(s)}] = g[s \ {One(s)}]
  BY <1>4
<1> QED BY <1>2, <1>5 DEF Adds

\* There is a way to add up.
LEMMA SumExists ==
  ASSUME NEW S, IsFiniteSet(S), NEW w \in [S -> Int]
  PROVE  \E h \in [SUBSET S -> Int] : Adds(h, S, w)
<1> DEFINE Solved(s) == \E h \in [SUBSET s -> Int] : Adds(h, s, w)
           B == {s \in SUBSET S : ~Solved(s)}
<1> SUFFICES ASSUME B # {} PROVE FALSE
  OBVIOUS
<1>1. PICK s \in B : IsFiniteSet(s) /\ \A t \in B : Cardinality(s) <= Cardinality(t)
  <2>1. B \in SUBSET (SUBSET S)
    OBVIOUS
  <2> HIDE DEF B
  <2> QED BY <2>1, Fewest
<1>2. ASSUME NEW t \in SUBSET s, t # s PROVE Solved(t)
  <2>1. PICK x \in s : x \notin t
    BY <1>2
  <2>2. /\ IsFiniteSet(s \ {x}) /\ Cardinality(s \ {x}) = Cardinality(s) - 1
        /\ Cardinality(s) \in Nat
    BY <1>1, <2>1, FS_RemoveElement, FS_CardinalityType
  <2>3. Cardinality(t) <= Cardinality(s \ {x}) /\ Cardinality(t) \in Nat
    <3>1. t \in SUBSET (s \ {x})
      BY <2>1
    <3> QED BY <2>2, <3>1, FS_Subset, FS_CardinalityType
  <2> HIDE DEF Solved
  <2>4. t \notin B
    <3> HIDE DEF B
    <3> QED BY <1>1, <2>2, <2>3
  <2> QED BY <2>4
<1> DEFINE G(t) == CHOOSE h \in [SUBSET t -> Int] : Adds(h, t, w)
<1>3. ASSUME NEW t \in SUBSET s, t # s PROVE G(t) \in [SUBSET t -> Int] /\ Adds(G(t), t, w)
  <2>1. \E h \in [SUBSET t -> Int] : Adds(h, t, w)
    BY <1>2, <1>3
  <2> QED BY <2>1, Zenon
<1> HIDE DEF G
<1>4. ASSUME NEW t \in SUBSET s, t # s, NEW u \in SUBSET t PROVE G(t)[u] = G(u)[u]
  <2>1. u \in SUBSET s /\ u # s /\ u \in SUBSET (t \cap u)
    BY <1>4
  <2>2. Adds(G(t), t, w) /\ Adds(G(u), u, w)
    BY <1>3, <1>4, <2>1
  <2>3. \A v \in SUBSET (t \cap u) : G(t)[v] = G(u)[v]
    BY <1>1, <2>1, <2>2, SumsAgree
  <2> QED BY <2>1, <2>3
<1> DEFINE top == IF s = {} THEN 0 ELSE w[One(s)] + G(s \ {One(s)})[s \ {One(s)}]
           H == [t \in SUBSET s |-> IF t = s THEN top ELSE G(t)[t]]
<1>5. s # {} => One(s) \in s
  BY DEF One
<1>6. top \in Int
  <2>1. CASE s = {}
    BY <2>1
  <2>2. CASE s # {}
    <3>1. s \ {One(s)} \in SUBSET s /\ s \ {One(s)} # s /\ One(s) \in S
      BY <1>5, <2>2
    <3>2. G(s \ {One(s)}) \in [SUBSET (s \ {One(s)}) -> Int]
      BY <1>3, <3>1
    <3> QED BY <2>2, <3>1, <3>2
  <2> QED BY <2>1, <2>2
<1> HIDE DEF top
<1>7. H \in [SUBSET s -> Int]
  <2>1. ASSUME NEW t \in SUBSET s, t # s PROVE G(t)[t] \in Int
    BY <1>3, <2>1
  <2> QED BY <1>6, <2>1
<1>8. Adds(H, s, w)
  <2> SUFFICES ASSUME NEW t \in SUBSET s
               PROVE  H[t] = IF t = {} THEN 0 ELSE w[One(t)] + H[t \ {One(t)}]
    BY DEF Adds
  <2>0. t # {} => One(t) \in t
    BY DEF One
  <2>1. CASE t = {}
    <3>1. CASE s = {}
      BY <2>1, <3>1 DEF top
    <3>2. CASE s # {}
      <4>1. G(t)[t] = 0
        BY <1>3, <2>1, <3>2 DEF Adds
      <4> QED BY <2>1, <3>2, <4>1
    <3> QED BY <3>1, <3>2
  <2>2. CASE t # {} /\ t = s
    <3>1. H[t] = top
      BY <2>2
    <3>2. H[t \ {One(t)}] = G(t \ {One(t)})[t \ {One(t)}]
      BY <2>0, <2>2
    <3> HIDE DEF H
    <3> QED BY <2>2, <3>1, <3>2 DEF top
  <2>3. CASE t # {} /\ t # s
    <3> DEFINE u == t \ {One(t)}
    <3>1. u \in SUBSET t /\ u \in SUBSET s /\ u # s
      BY <2>0, <2>3
    <3>2. G(t)[t] = w[One(t)] + G(t)[u]
      <4>1. Adds(G(t), t, w)
        BY <1>3, <2>3
      <4> QED BY <2>3, <4>1 DEF Adds
    <3> HIDE DEF u
    <3>3. G(t)[u] = G(u)[u]
      BY <1>4, <2>3, <3>1
    <3>4. H[t] = G(t)[t] /\ H[u] = G(u)[u]
      BY <2>3, <3>1
    <3> HIDE DEF H
    <3> QED BY <2>3, <3>2, <3>3, <3>4 DEF u
  <2> QED BY <2>1, <2>2, <2>3
<1>9. Solved(s)
  <2> HIDE DEF H
  <2> QED BY <1>7, <1>8
<1> QED BY <1>9

\* The sum of finitely many integers is one.
LEMMA SumTyped ==
  ASSUME NEW S, IsFiniteSet(S), NEW w \in [S -> Int]
  PROVE  SumFunction(w) \in Int
<1> DEFINE F(g) == [s \in SUBSET S |-> IF s = {} THEN 0 ELSE w[One(s)] + g[s \ {One(s)}]]
           iter == CHOOSE g : g = F(g)
<1>1. SumFunction(w) = iter[S]
  <2>1. DOMAIN w = S
    OBVIOUS
  <2> QED BY <2>1 DEF SumFunction, SumFunctionOnSet, FoldFunctionOnSet, MapThenFoldSet, One
<1>2. PICK h \in [SUBSET S -> Int] : Adds(h, S, w)
  BY SumExists
<1>3. h = F(h)
  BY <1>2 DEF Adds
<1>4. iter = F(iter)
  <2> HIDE DEF F
  <2> QED BY <1>3
<1> HIDE DEF iter
<1>5. Adds(iter, S, w)
  BY <1>4 DEF Adds
<1>6. iter[S] = h[S]
  <2>1. S \in SUBSET (S \cap S) /\ S \in SUBSET S
    OBVIOUS
  <2> QED BY <1>2, <1>5, <2>1, SumsAgree
<1> QED BY <1>1, <1>2, <1>6

\* Max and Min are what they are called.
LEMMA GreatestOf ==
  ASSUME NEW b \in Nat, NEW T \in SUBSET (0..b), T # {}
  PROVE  Max(T) \in T /\ Max(T) \in Nat /\ \A m \in T : m <= Max(T)
<1> DEFINE D == {b - m : m \in T}
<1>1. D \in SUBSET Nat /\ D # {}
  <2>1. \A m \in T : b - m \in Nat
    OBVIOUS
  <2> QED BY <2>1
<1>2. PICK d \in D : \A e \in D : d <= e
  <2> HIDE DEF D
  <2> QED BY <1>1, LeastNat
<1>3. PICK n \in T : d = b - n
  BY <1>2
<1>4. \A m \in T : n >= m
  <2> TAKE m \in T
  <2>1. b - m \in D
    OBVIOUS
  <2>2. d <= b - m
    BY <1>2, <2>1
  <2> QED BY <1>3, <2>2
<1>5. \E k \in T : \A m \in T : k >= m
  BY <1>4
<1>6. Max(T) \in T /\ \A m \in T : Max(T) >= m
  BY <1>5 DEF Max
<1>7. Max(T) \in 0..b
  BY <1>6
<1> QED BY <1>6, <1>7

LEMMA LeastOf ==
  ASSUME NEW T \in SUBSET Nat, T # {}
  PROVE  Min(T) \in T /\ \A m \in T : Min(T) <= m
<1>1. \E n \in T : \A m \in T : n <= m
  BY LeastNat
<1> QED BY <1>1 DEF Min

----------------------------------------------------------------------------
(* Scores are integers.                                                    *)

LEMMA CubeRootTyped ==
  ASSUME NEW n, NEW d
  PROVE  CubeRoot(n, d) \in Int
<1> DEFINE T == {0} \cup {k \in 1..100 : k * k * k * d <= n * 1000000}
<1>1. T \in SUBSET (0..100) /\ T # {}
  BY SMT
<1>2. Max(T) \in Nat
  <2> HIDE DEF T
  <2> QED BY <1>1, GreatestOf
<1> QED BY <1>2, SMT DEF CubeRoot

LEMMA TokenScoreTyped ==
  ASSUME NEW starts, NEW pos, Len(pos) \in Nat \ {0}
  PROVE  TokenScore(starts, pos) \in Int
<1> DEFINE n == Len(pos)
           weight == [k \in 1..n |->
                        CASE pos[k] \in starts -> 100
                          [] pos[k] \notin starts /\ k > 1 /\ pos[k - 1] = pos[k] - 1 -> 70
                          [] OTHER -> 40]
           placement == SumFunction(weight) \div n
           root == CubeRoot(n, pos[n] - pos[1] + 1)
<1>1. weight \in [1..n -> Int]
  <2>1. ASSUME NEW k \in 1..n
        PROVE  (CASE pos[k] \in starts -> 100
                  [] pos[k] \notin starts /\ k > 1 /\ pos[k - 1] = pos[k] - 1 -> 70
                  [] OTHER -> 40) \in Int
    OBVIOUS
  <2> QED BY <2>1, Zenon
<1>2. SumFunction(weight) \in Int
  <2>1. IsFiniteSet(1..n)
    BY FS_Interval
  <2> HIDE DEF weight
  <2> QED BY <1>1, <2>1, SumTyped
<1>3. placement \in Int
  <2> HIDE DEF weight
  <2> QED BY <1>2
<1>4. root \in Int
  BY CubeRootTyped
<1>5. TokenScore(starts, pos) = (placement * root) \div 100
  BY Zenon DEF TokenScore
<1> HIDE DEF placement, root
<1> QED BY <1>3, <1>4, <1>5

LEMMA LiftTyped ==
  ASSUME NEW w
  PROVE  Lift(w) \in Int
<1> DEFINE T == {0} \cup {k \in 1..10 : 100 * 2 ^ k <= 100 + w}
<1>1. T \in SUBSET (0..10) /\ T # {}
  OBVIOUS
<1> HIDE DEF T
<1>2. Max(T) \in Nat
  BY <1>1, GreatestOf
<1> QED BY <1>2 DEF Lift, T

LEMMA FrecencyTyped ==
  ASSUME NEW rs \in SUBSET Run
  PROVE  Frecency(rs) \in Int
<1> DEFINE starts == {r.start : r \in rs}
           counted == CHOOSE f : f = [t \in 0..Now |->
                        t \in starts /\ \A u \in 1..(t - 1) : t - u <= BurstWindow => ~f[u]]
           weight(t) == Max({w \in 0..100 : w * 2 ^ ((Now - t) \div HalfLife) <= 100})
           S == {u \in starts : counted[u]}
<1>1. starts \in SUBSET (1..Now)
  BY DEF Run
<1>2. IsFiniteSet(S) /\ S \in SUBSET (1..Now)
  <2>1. S \in SUBSET (1..Now)
    <3> HIDE DEF counted, starts
    <3> QED BY <1>1
  <2>2. IsFiniteSet(1..Now)
    BY FS_Interval, RankingConstants
  <2> HIDE DEF S
  <2> QED BY <2>1, <2>2, FS_Subset
<1> HIDE DEF S
<1>3. ASSUME NEW t \in S PROVE weight(t) \in Int
  <2> DEFINE e == (Now - t) \div HalfLife
             T == {w \in 0..100 : w * 2 ^ e <= 100}
  <2>1. t \in Int /\ Now - t \in Nat /\ HalfLife \in Nat \ {0}
    BY <1>2, RankingConstants
  <2>2. e \in Nat
    BY <2>1
  <2> HIDE DEF e
  <2>3. 2 ^ e \in Int
    BY <2>2
  <2>4. 0 * 2 ^ e = 0
    BY <2>3
  <2>5. T \in SUBSET (0..100) /\ T # {}
    BY <2>4
  <2>6. Max(T) \in Int
    <3> HIDE DEF T
    <3>1. Max(T) \in Nat
      BY <2>5, GreatestOf
    <3> QED BY <3>1
  <2> QED BY <2>6 DEF e
<1>4. Frecency(rs) = SumFunction([t \in S |-> weight(t)])
  BY Zenon DEF Frecency, S
<1>5. [t \in S |-> weight(t)] \in [S -> Int]
  <2> HIDE DEF weight
  <2> QED BY <1>3
<1> QED BY <1>2, <1>4, <1>5, SumTyped

LEMMA MultiplierTyped ==
  ASSUME NEW rs, IsFiniteSet(rs), NEW near
  PROVE  Multiplier(rs, near) \in Int
<1> DEFINE failures == Cardinality(Of(rs, {"failed"}))
           finished == Cardinality(Of(rs, {"ok", "failed", "neverRan"}))
           debugging == \E r \in Of(rs, {"failed"}) : Now - r.start <= DebugWindow
           place == CASE "dir" \in near -> 135
                      [] "dir" \notin near /\ "repo" \in near -> 120
                      [] OTHER -> 100
           shared == (place * (IF "session" \in near THEN 115 ELSE 100)
                            * (IF "host" \in near THEN 110 ELSE 100)) \div 100
           all == (shared * (IF "branch" \in near THEN 110 ELSE 100)) \div 100
           worked == IF Of(rs, {"neverRan"}) # {} /\ Of(rs, {"ok", "failed"}) = {} THEN 60
                     ELSE IF debugging \/ failures = 0 THEN 100
                     ELSE 100 - (25 * failures) \div finished
           known == IF rs # {} /\ Of(rs, {"imported"}) = rs THEN 90 ELSE 100
           m == (((all * worked) \div 100) * known) \div 10000
<1>1. Multiplier(rs, near) = IF m < 60 THEN 60 ELSE IF m > 200 THEN 200 ELSE m
  BY SMTT(30) DEF Multiplier
<1>2. failures \in Nat /\ finished \in Nat /\ failures <= finished
  <2>1. /\ Of(rs, {"failed"}) \in SUBSET Of(rs, {"ok", "failed", "neverRan"})
        /\ Of(rs, {"ok", "failed", "neverRan"}) \in SUBSET rs
    BY DEF Of
  <2>2. IsFiniteSet(Of(rs, {"ok", "failed", "neverRan"}))
    BY <2>1, FS_Subset
  <2> QED BY <2>1, <2>2, FS_Subset, FS_CardinalityType
<1> HIDE DEF failures, finished, debugging
<1>3. place \in Int
  OBVIOUS
<1> HIDE DEF place
<1>4. shared \in Int
  BY <1>3
<1> HIDE DEF shared
<1>5. all \in Int
  BY <1>4
<1> HIDE DEF all
<1>6. worked \in Int
  BY <1>2
<1>7. known \in Int
  OBVIOUS
<1> HIDE DEF worked, known
<1>8. m \in Int
  BY <1>5, <1>6, <1>7
<1> HIDE DEF m
<1> QED BY <1>1, <1>8

----------------------------------------------------------------------------
(* The order.                                                              *)

\* What can be put in order: finitely many, no two of them used last at once.
Orderable(S) ==
  /\ IsFiniteSet(S)
  /\ \A a \in S : a.tier \in Int /\ a.score \in Int /\ a.last \in Int
  /\ \A a, b \in S : a.last = b.last => a = b

\* The order is strict and total.
LEMMA LessOrders ==
  ASSUME NEW S, Orderable(S)
  PROVE  /\ \A a \in S : ~Less(a, a)
         /\ \A a, b \in S : a # b => Less(a, b) \/ Less(b, a)
         /\ \A a, b, c \in S : Less(a, b) /\ Less(b, c) => Less(a, c)
<1>0. /\ \A a \in S : a.tier \in Int /\ a.score \in Int /\ a.last \in Int
      /\ \A a, b \in S : a.last = b.last => a = b
  BY DEF Orderable
<1>1. ASSUME NEW a \in S PROVE ~Less(a, a)
  BY <1>0 DEF Less
<1>2. ASSUME NEW a \in S, NEW b \in S, a # b PROVE Less(a, b) \/ Less(b, a)
  <2>1. a.last # b.last
    BY <1>0, <1>2
  <2> QED BY <1>0, <2>1 DEF Less
<1>3. ASSUME NEW a \in S, NEW b \in S, NEW c \in S, Less(a, b), Less(b, c) PROVE Less(a, c)
  BY <1>0, <1>3 DEF Less
<1> QED BY <1>1, <1>2, <1>3

\* A worse entry has more ahead of it.
LEMMA AheadGrows ==
  ASSUME NEW S, Orderable(S), NEW a \in S
  PROVE  /\ Ahead(S, a) \in 0..(Cardinality(S) - 1)
         /\ \A b \in S : Less(a, b) => Ahead(S, a) < Ahead(S, b)
<1> DEFINE above(x) == {b \in S : Less(b, x)}
<1>1. IsFiniteSet(S) /\ Cardinality(S) \in Nat
  BY FS_CardinalityType DEF Orderable
<1>2. ASSUME NEW T \in SUBSET S, NEW U \in SUBSET T, NEW x \in T, x \notin U
      PROVE  Cardinality(U) \in Nat /\ Cardinality(U) < Cardinality(T)
  <2>1. IsFiniteSet(T) /\ Cardinality(T) \in Nat
    BY <1>1, FS_Subset, FS_CardinalityType
  <2>2. IsFiniteSet(U) /\ Cardinality(U) \in Nat /\ Cardinality(U) <= Cardinality(T)
        /\ (Cardinality(T) = Cardinality(U) => T = U)
    BY <2>1, FS_Subset, FS_CardinalityType
  <2> QED BY <1>2, <2>1, <2>2
<1>3. above(a) \in SUBSET S /\ a \notin above(a)
  BY LessOrders
<1>4. Ahead(S, a) = Cardinality(above(a)) /\ \A b \in S : Ahead(S, b) = Cardinality(above(b))
  BY DEF Ahead
<1>5. ASSUME NEW b \in S, Less(a, b) PROVE Ahead(S, a) < Ahead(S, b)
  <2>1. above(a) \in SUBSET above(b) /\ a \in above(b) /\ above(b) \in SUBSET S
    BY <1>5, LessOrders
  <2> HIDE DEF above
  <2> QED BY <1>2, <1>3, <1>4, <2>1
<1>6. Cardinality(above(a)) \in Nat /\ Cardinality(above(a)) < Cardinality(S)
  <2> HIDE DEF above
  <2> QED BY <1>2, <1>3
<1> HIDE DEF above
<1>7. Ahead(S, a) \in 0..(Cardinality(S) - 1)
  BY <1>1, <1>4, <1>6
<1> QED BY <1>5, <1>7

\* Every place has an entry.
LEMMA PlaceTaken ==
  ASSUME NEW S, Orderable(S), NEW n \in 0..(Cardinality(S) - 1)
  PROVE  \E a \in S : Ahead(S, a) = n
<1> DEFINE T == 0..(Cardinality(S) - 1)
           f == [a \in S |-> Ahead(S, a)]
<1>1. IsFiniteSet(S) /\ Cardinality(S) \in Nat
  BY FS_CardinalityType DEF Orderable
<1>2. IsFiniteSet(T) /\ Cardinality(T) = Cardinality(S)
  BY <1>1, FS_Interval
<1>3. f \in [S -> T]
  BY AheadGrows
<1>4. \A a, b \in S : f[a] = f[b] => a = b
  <2> SUFFICES ASSUME NEW a \in S, NEW b \in S, f[a] = f[b], a # b PROVE FALSE
    OBVIOUS
  <2>1. Less(a, b) \/ Less(b, a)
    BY LessOrders
  <2>2. Ahead(S, a) # Ahead(S, b)
    BY <1>1, <2>1, AheadGrows
  <2> QED BY <2>2
<1>5. f \in Injection(S, T)
  <2> HIDE DEF f, T
  <2> QED BY <1>3, <1>4 DEF Injection, IsInjective
<1>6. f \in Surjection(S, T)
  <2> HIDE DEF f, T
  <2> QED BY <1>2, <1>5, FS_Injection
<1>7. \E a \in S : f[a] = n
  <2> HIDE DEF f
  <2> QED BY <1>6 DEF Surjection
<1> QED BY <1>7

\* Sorting lists every entry once, the better ones first.
LEMMA SortedIs ==
  ASSUME NEW S, Orderable(S)
  PROVE  /\ Cardinality(S) \in Nat
         /\ DOMAIN Sorted(S) = 1..Cardinality(S)
         /\ \A n \in 1..Cardinality(S) : Sorted(S)[n] \in S
         /\ \A a \in S : \E n \in 1..Cardinality(S) : Sorted(S)[n] = a
         /\ \A i, j \in 1..Cardinality(S) : i < j => Less(Sorted(S)[i], Sorted(S)[j])
<1>1. IsFiniteSet(S) /\ Cardinality(S) \in Nat
  BY FS_CardinalityType DEF Orderable
<1>2. DOMAIN Sorted(S) = 1..Cardinality(S)
  BY DEF Sorted
<1>3. ASSUME NEW n \in 1..Cardinality(S)
      PROVE  Sorted(S)[n] \in S /\ Ahead(S, Sorted(S)[n]) = n - 1
  <2>1. n - 1 \in 0..(Cardinality(S) - 1)
    BY <1>1
  <2>2. \E a \in S : Ahead(S, a) = n - 1
    BY <2>1, PlaceTaken
  <2>3. Sorted(S)[n] = CHOOSE a \in S : Ahead(S, a) = n - 1
    BY DEF Sorted
  <2> QED BY <2>2, <2>3
<1>4. ASSUME NEW a \in S, NEW b \in S, Ahead(S, a) = Ahead(S, b) PROVE a = b
  BY <1>1, <1>4, LessOrders, AheadGrows
<1>5. ASSUME NEW a \in S PROVE \E n \in 1..Cardinality(S) : Sorted(S)[n] = a
  <2>1. Ahead(S, a) \in 0..(Cardinality(S) - 1)
    BY AheadGrows
  <2> DEFINE n == Ahead(S, a) + 1
  <2>2. n \in 1..Cardinality(S) /\ n - 1 = Ahead(S, a)
    BY <1>1, <2>1
  <2> HIDE DEF n
  <2>3. Sorted(S)[n] = a
    BY <1>3, <1>4, <2>2
  <2> QED BY <2>2, <2>3
<1>6. ASSUME NEW i \in 1..Cardinality(S), NEW j \in 1..Cardinality(S), i < j
      PROVE  Less(Sorted(S)[i], Sorted(S)[j])
  <2> DEFINE a == Sorted(S)[i]
             b == Sorted(S)[j]
  <2>1. a \in S /\ b \in S /\ Ahead(S, a) = i - 1 /\ Ahead(S, b) = j - 1
    BY <1>3
  <2> HIDE DEF a, b
  <2>2. ~Less(b, a) /\ a # b
    BY <1>6, <2>1, AheadGrows
  <2>3. Less(a, b)
    BY <2>1, <2>2, LessOrders
  <2> QED BY <2>3 DEF a, b
<1> QED BY <1>1, <1>2, <1>3, <1>5, <1>6

----------------------------------------------------------------------------
(* Matching.                                                               *)

\* A function on the first n positions is as long as that.
LEMMA LenOf ==
  ASSUME NEW n \in Nat, NEW g, g = [k \in 1..n |-> g[k]]
  PROVE  g \in Seq({g[k] : k \in 1..n}) /\ Len(g) = n
<1> DEFINE V == {g[k] : k \in 1..n}
<1>1. g \in [1..n -> V]
  OBVIOUS
<1> HIDE DEF V
<1>2. g \in Seq(V)
  BY <1>1
<1>3. Len(g) = n
  BY <1>1, <1>2
<1> QED BY <1>2, <1>3 DEF V

\* How many of the token's characters a scan of the text has met, in order.
Meets(text, tok, fw, m) ==
  \A i \in 0..m :
    fw[i] = IF i = 0 THEN 0
            ELSE IF fw[i - 1] < Len(tok) /\ text[i] = tok[fw[i - 1] + 1]
                   THEN fw[i - 1] + 1 ELSE fw[i - 1]

\* A scan of any length can be made.
LEMMA MeetsExists ==
  ASSUME NEW text, NEW tok, NEW l \in Nat
  PROVE  \E fw : fw = [i \in 0..l |-> fw[i]] /\ Meets(text, tok, fw, l)
<1> DEFINE Solved(m) == \E fw : fw = [i \in 0..m |-> fw[i]] /\ Meets(text, tok, fw, m)
           B == {m \in Nat : ~Solved(m)}
<1> SUFFICES ASSUME B # {} PROVE FALSE
  <2>1. l \notin B => Solved(l)
    OBVIOUS
  <2> QED BY <2>1
<1>1. PICK m \in B : \A k \in B : m <= k
  <2> HIDE DEF Solved
  <2>1. B \in SUBSET Nat
    OBVIOUS
  <2> HIDE DEF B
  <2> QED BY <2>1, LeastNat
<1>2. m # 0
  <2>1. Solved(0)
    <3> DEFINE fw == [i \in 0..0 |-> 0]
    <3>1. fw = [i \in 0..0 |-> fw[i]]
      OBVIOUS
    <3>2. Meets(text, tok, fw, 0)
      BY DEF Meets
    <3> HIDE DEF fw
    <3> QED BY <3>1, <3>2
  <2> HIDE DEF Solved
  <2> QED BY <2>1
<1>3. m \in Nat \ {0} /\ m - 1 \in Nat
  <2> HIDE DEF Solved
  <2>1. m \in Nat
    OBVIOUS
  <2> QED BY <1>2, <2>1
<1>4. Solved(m - 1)
  <2> HIDE DEF Solved
  <2>1. m - 1 \notin B
    <3> HIDE DEF B
    <3> QED BY <1>1, <1>3
  <2> QED BY <1>3, <2>1
<1>5. PICK fw : fw = [i \in 0..(m - 1) |-> fw[i]] /\ Meets(text, tok, fw, m - 1)
  BY <1>4
<1> DEFINE next == IF fw[m - 1] < Len(tok) /\ text[m] = tok[fw[m - 1] + 1]
                     THEN fw[m - 1] + 1 ELSE fw[m - 1]
           gw == [i \in 0..m |-> IF i = m THEN next ELSE fw[i]]
<1>6. Meets(text, tok, gw, m)
  <2> SUFFICES ASSUME NEW i \in 0..m
               PROVE  gw[i] = IF i = 0 THEN 0
                              ELSE IF gw[i - 1] < Len(tok) /\ text[i] = tok[gw[i - 1] + 1]
                                     THEN gw[i - 1] + 1 ELSE gw[i - 1]
    BY DEF Meets
  <2>1. CASE i = m
    <3>1. gw[i] = next /\ gw[i - 1] = fw[m - 1] /\ i # 0
      BY <1>3, <2>1
    <3> HIDE DEF gw
    <3> QED BY <2>1, <3>1
  <2>2. CASE i # m
    <3>1. i \in 0..(m - 1) /\ gw[i] = fw[i] /\ (i # 0 => gw[i - 1] = fw[i - 1])
      BY <1>3, <2>2
    <3> HIDE DEF gw
    <3> QED BY <1>5, <3>1 DEF Meets
  <2> QED BY <2>1, <2>2
<1>7. gw = [i \in 0..m |-> gw[i]]
  OBVIOUS
<1>8. Solved(m)
  <2> HIDE DEF gw
  <2> QED BY <1>6, <1>7
<1> QED BY <1>8

\* The count goes up by one, where the next character is met.
LEMMA MeetsCounts ==
  ASSUME NEW text, NEW tok, NEW l \in Nat, NEW fw, Meets(text, tok, fw, l), Len(tok) \in Nat
  PROVE  /\ \A i \in 0..l : fw[i] \in 0..Len(tok)
         /\ fw[0] = 0
         /\ \A i \in 1..l : /\ fw[i] = fw[i - 1] \/ (fw[i] = fw[i - 1] + 1 /\ text[i] = tok[fw[i]])
                            /\ fw[i - 1] < Len(tok) /\ text[i] = tok[fw[i - 1] + 1] =>
                                 fw[i] = fw[i - 1] + 1
         /\ \A j \in 0..l : \A i \in 0..j : fw[i] <= fw[j]
<1>0. \A i \in 0..l :
        fw[i] = IF i = 0 THEN 0
                ELSE IF fw[i - 1] < Len(tok) /\ text[i] = tok[fw[i - 1] + 1]
                       THEN fw[i - 1] + 1 ELSE fw[i - 1]
  BY DEF Meets
<1>1. \A i \in 0..l : fw[i] \in 0..Len(tok)
  <2> DEFINE B == {i \in 0..l : fw[i] \notin 0..Len(tok)}
  <2> SUFFICES ASSUME B # {} PROVE FALSE
    OBVIOUS
  <2>1. PICK m \in B : \A k \in B : m <= k
    <3>1. B \in SUBSET Nat
      OBVIOUS
    <3> HIDE DEF B
    <3> QED BY <3>1, LeastNat
  <2>2. m # 0
    BY <1>0
  <2>3. m - 1 \in 0..l /\ m - 1 \notin B
    BY <2>1, <2>2
  <2>4. fw[m - 1] \in 0..Len(tok)
    BY <2>3
  <2>5. fw[m] = IF fw[m - 1] < Len(tok) /\ text[m] = tok[fw[m - 1] + 1]
                  THEN fw[m - 1] + 1 ELSE fw[m - 1]
    BY <1>0, <2>2
  <2>6. fw[m] \in 0..Len(tok)
    BY <2>4, <2>5
  <2> QED BY <2>6
<1>2. fw[0] = 0
  BY <1>0
<1>3. ASSUME NEW i \in 1..l
      PROVE  /\ fw[i] = fw[i - 1] \/ (fw[i] = fw[i - 1] + 1 /\ text[i] = tok[fw[i]])
             /\ fw[i - 1] < Len(tok) /\ text[i] = tok[fw[i - 1] + 1] => fw[i] = fw[i - 1] + 1
  <2>1. i \in 0..l /\ i # 0
    OBVIOUS
  <2>2. fw[i] = IF fw[i - 1] < Len(tok) /\ text[i] = tok[fw[i - 1] + 1]
                  THEN fw[i - 1] + 1 ELSE fw[i - 1]
    BY <1>0, <2>1
  <2>3. fw[i - 1] \in Int
    <3>1. i - 1 \in 0..l
      OBVIOUS
    <3> QED BY <1>1, <3>1
  <2>4. fw[i] = fw[i - 1] \/ (fw[i] = fw[i - 1] + 1 /\ text[i] = tok[fw[i]])
    <3>1. CASE fw[i - 1] < Len(tok) /\ text[i] = tok[fw[i - 1] + 1]
      BY <2>2, <3>1
    <3>2. CASE ~(fw[i - 1] < Len(tok) /\ text[i] = tok[fw[i - 1] + 1])
      BY <2>2, <3>2
    <3> QED BY <3>1, <3>2
  <2>5. (fw[i - 1] < Len(tok) /\ text[i] = tok[fw[i - 1] + 1]) => fw[i] = fw[i - 1] + 1
    BY <2>2
  <2> QED BY <2>4, <2>5
<1>4. ASSUME NEW j \in 0..l, NEW i \in 0..j PROVE fw[i] <= fw[j]
  <2> DEFINE B == {k \in i..l : fw[i] > fw[k]}
  <2> SUFFICES ASSUME B # {} PROVE FALSE
    BY <1>1
  <2>1. PICK m \in B : \A k \in B : m <= k
    <3>1. B \in SUBSET Nat
      OBVIOUS
    <3> HIDE DEF B
    <3> QED BY <3>1, LeastNat
  <2>2. m \in 0..l /\ m # i /\ i \in 0..l
    BY <1>1
  <2>3. m - 1 \in i..l /\ m - 1 \notin B /\ m \in 1..l
    BY <2>1, <2>2
  <2>4. ~(fw[i] > fw[m - 1])
    BY <2>3
  <2>5. fw[m - 1] \in Int /\ fw[m] \in Int /\ fw[i] \in Int
    BY <1>1, <2>2, <2>3
  <2>6. fw[m - 1] <= fw[m]
    BY <1>3, <2>3, <2>5
  <2> QED BY <2>4, <2>5, <2>6
<1> QED BY <1>1, <1>2, <1>3, <1>4

\* Where a token's characters are, in order.
Scattered(text, tok) ==
  \E f \in [DOMAIN tok -> DOMAIN text] :
    \A i, j \in DOMAIN tok : (i < j => f[i] < f[j]) /\ text[f[i]] = tok[i]

\* Taking every character where it is met first finds them all if anything does.
LEMMA GreedyFinds ==
  ASSUME NEW S, NEW text \in Seq(S), NEW T, NEW tok \in Seq(T), Len(tok) # 0,
         NEW fw, Meets(text, tok, fw, Len(text))
  PROVE  Scattered(text, tok) <=> \E e \in DOMAIN text : fw[e] = Len(tok)
<1> DEFINE n == Len(tok)
           l == Len(text)
<1>1. n \in Nat \ {0} /\ l \in Nat /\ DOMAIN tok = 1..n /\ DOMAIN text = 1..l
  OBVIOUS
<1>2. /\ \A i \in 0..l : fw[i] \in 0..n
      /\ fw[0] = 0
      /\ \A i \in 1..l : /\ fw[i] = fw[i - 1] \/ (fw[i] = fw[i - 1] + 1 /\ text[i] = tok[fw[i]])
                         /\ fw[i - 1] < n /\ text[i] = tok[fw[i - 1] + 1] => fw[i] = fw[i - 1] + 1
      /\ \A j \in 0..l : \A i \in 0..j : fw[i] <= fw[j]
  BY MeetsCounts
<1> HIDE DEF n, l
<1>3. ASSUME Scattered(text, tok) PROVE \E e \in 1..l : fw[e] = n
  <2>1. PICK f \in [1..n -> 1..l] :
          \A i, j \in 1..n : (i < j => f[i] < f[j]) /\ text[f[i]] = tok[i]
    BY <1>1, <1>3 DEF Scattered
  <2> DEFINE B == {k \in 1..n : fw[f[k]] < k}
  <2>2. B = {}
    <3> SUFFICES ASSUME B # {} PROVE FALSE
      OBVIOUS
    <3>1. PICK k \in B : \A j \in B : k <= j
      <4>1. B \in SUBSET Nat
        OBVIOUS
      <4> HIDE DEF B
      <4> QED BY <4>1, LeastNat
    <3> DEFINE i == f[k]
    <3>2. k \in 1..n /\ i \in 1..l /\ fw[i] < k /\ text[i] = tok[k]
      BY <2>1
    <3> HIDE DEF i
    <3>3. fw[i - 1] >= k - 1
      <4>1. CASE k = 1
        <5>1. i - 1 \in 0..l
          BY <1>1, <3>2
        <5> QED BY <1>2, <4>1, <5>1
      <4>2. CASE k > 1
        <5>1. k - 1 \in 1..n /\ k - 1 \notin B
          <6>1. k - 1 \in 1..n /\ ~(k <= k - 1)
            BY <1>1, <3>2, <4>2
          <6> HIDE DEF B
          <6> QED BY <3>1, <6>1
        <5>2. ~(fw[f[k - 1]] < k - 1) /\ f[k - 1] < i /\ f[k - 1] \in 1..l
          <6>1. f[k - 1] < f[k]
            BY <1>1, <2>1, <3>2, <4>2, <5>1
          <6> QED BY <2>1, <5>1, <6>1 DEF i
        <5>3. i - 1 \in 0..l /\ f[k - 1] \in 0..(i - 1)
          BY <1>1, <3>2, <5>2
        <5>4. fw[f[k - 1]] <= fw[i - 1] /\ fw[f[k - 1]] \in Int /\ fw[i - 1] \in Int
          BY <1>2, <3>2, <5>2, <5>3, SMTT(30)
        <5> QED BY <3>2, <5>2, <5>4
      <4> QED BY <3>2, <4>1, <4>2
    <3>4. i - 1 \in 0..l /\ fw[i - 1] \in Int /\ fw[i] \in Int /\ fw[i - 1] <= fw[i]
      BY <1>1, <1>2, <3>2, SMTT(30)
    <3>5. fw[i - 1] = k - 1 /\ fw[i - 1] < n
      BY <1>1, <3>2, <3>3, <3>4
    <3>6. fw[i] = k
      <4>1. k \in Int /\ (k - 1) + 1 = k
        BY <3>2
      <4>2. fw[i - 1] + 1 = k
        BY <3>5, <4>1
      <4>3. text[i] = tok[fw[i - 1] + 1]
        BY <3>2, <4>2
      <4>4. fw[i] = fw[i - 1] + 1
        BY <1>2, <3>2, <3>5, <4>3
      <4> QED BY <4>2, <4>4
    <3> QED BY <3>2, <3>6
  <2>3. ~(fw[f[n]] < n) /\ f[n] \in 1..l
    BY <1>1, <2>1, <2>2
  <2>4. fw[f[n]] \in 0..n
    BY <1>1, <1>2, <2>3
  <2>5. fw[f[n]] = n
    BY <1>1, <2>3, <2>4
  <2> QED BY <2>3, <2>5
<1>4. ASSUME NEW e \in 1..l, fw[e] = n PROVE Scattered(text, tok)
  <2> DEFINE At(k) == {i \in 1..l : fw[i] >= k}
             f == [k \in 1..n |-> Min(At(k))]
  <2>1. ASSUME NEW k \in 1..n
        PROVE  /\ f[k] \in 1..l /\ fw[f[k]] = k /\ text[f[k]] = tok[k]
               /\ \A i \in 1..l : fw[i] >= k => f[k] <= i
    <3>1. At(k) \in SUBSET Nat /\ At(k) # {}
      <4>1. e \in At(k)
        BY <1>1, <1>4
      <4> QED BY <4>1
    <3> DEFINE i == Min(At(k))
    <3>2. i \in At(k) /\ \A j \in At(k) : i <= j
      <4> HIDE DEF At
      <4> QED BY <3>1, LeastOf
    <3> HIDE DEF i
    <3>3. i \in 1..l /\ fw[i] >= k /\ \A j \in 1..l : fw[j] >= k => i <= j
      BY <3>2
    <3>4. i - 1 \in 0..l /\ fw[i - 1] \in Int /\ fw[i] \in Int
      BY <1>1, <1>2, <3>3
    <3>5. fw[i - 1] < k
      <4>1. CASE i = 1
        BY <1>2, <4>1
      <4>2. CASE i # 1
        <5>1. i - 1 \in 1..l /\ ~(i <= i - 1)
          BY <1>1, <3>3, <4>2
        <5> QED BY <3>3, <3>4, <5>1
      <4> QED BY <4>1, <4>2
    <3>6. fw[i] = fw[i - 1] + 1 /\ text[i] = tok[fw[i]]
      BY <1>2, <3>3, <3>4, <3>5
    <3>7. fw[i] = k
      BY <3>3, <3>4, <3>5, <3>6
    <3>8. f[k] = i
      BY DEF i
    <3> HIDE DEF f
    <3> QED BY <3>3, <3>6, <3>7, <3>8
  <2> HIDE DEF f
  <2>2. f = [k \in 1..n |-> f[k]]
    BY DEF f
  <2>3. f \in [1..n -> 1..l]
    BY <2>1, <2>2
  <2>4. ASSUME NEW i \in 1..n, NEW j \in 1..n, i < j PROVE f[i] < f[j]
    <3>1. f[j] \in 1..l /\ fw[f[j]] = j /\ fw[f[i]] = i /\ f[i] \in 1..l
      BY <2>1
    <3>2. fw[f[j]] >= i
      BY <2>4, <3>1
    <3>3. f[i] <= f[j] /\ f[i] # f[j]
      BY <2>1, <2>4, <3>1, <3>2
    <3> QED BY <3>1, <3>3
  <2> QED BY <1>1, <2>1, <2>3, <2>4 DEF Scattered
<1> QED BY <1>1, <1>3, <1>4 DEF n

\* The two passes find a token where its characters are, and only there.
LEMMA SubsequenceFinds ==
  ASSUME NEW S, NEW text \in Seq(S), NEW T, NEW tok \in Seq(T), Len(tok) # 0
  PROVE  /\ Subsequence(text, tok) # << >> <=> Scattered(text, tok)
         /\ Subsequence(text, tok) # << >> => Len(Subsequence(text, tok)) = Len(tok)
<1> DEFINE n == Len(tok)
           F(g) == [i \in 0..Len(text) |->
                      IF i = 0 THEN 0
                      ELSE IF g[i - 1] < n /\ text[i] = tok[g[i - 1] + 1]
                             THEN g[i - 1] + 1 ELSE g[i - 1]]
           forward == CHOOSE g : g = F(g)
           ends == {i \in DOMAIN text : forward[i] = n}
           end == Min(ends)
           back == CHOOSE g : g = [i \in 1..(end + 1) |->
                     IF i = end + 1 THEN 0
                     ELSE IF g[i + 1] < n /\ text[i] = tok[n - g[i + 1]]
                            THEN g[i + 1] + 1 ELSE g[i + 1]]
           found == [k \in 1..n |-> Max({i \in 1..end : back[i] > n - k})]
<1>1. Subsequence(text, tok) = IF ends = {} THEN << >> ELSE found
  BY Zenon DEF Subsequence
<1>2. Meets(text, tok, forward, Len(text))
  <2>1. PICK g : g = [i \in 0..Len(text) |-> g[i]] /\ Meets(text, tok, g, Len(text))
    <3>1. Len(text) \in Nat
      OBVIOUS
    <3> QED BY <3>1, MeetsExists
  <2>2. g = F(g)
    BY <2>1 DEF Meets
  <2>3. forward = F(forward)
    <3> HIDE DEF F
    <3> QED BY <2>2
  <2> HIDE DEF forward
  <2> QED BY <2>3 DEF Meets
<1> HIDE DEF forward, back
<1>3. Scattered(text, tok) <=> ends # {}
  <2>1. Scattered(text, tok) <=> \E e \in DOMAIN text : forward[e] = Len(tok)
    BY <1>2, GreedyFinds
  <2> QED BY <2>1
<1> HIDE DEF ends, end
<1>4. Len(found) = n /\ n \in Nat \ {0}
  <2>1. n \in Nat \ {0}
    OBVIOUS
  <2>2. found = [k \in 1..n |-> found[k]]
    OBVIOUS
  <2> HIDE DEF found, n
  <2> QED BY <2>1, <2>2, LenOf
<1>5. found # << >>
  <2>1. Len(<< >>) = 0
    OBVIOUS
  <2> HIDE DEF found
  <2> QED BY <1>4, <2>1
<1> HIDE DEF found
<1> QED BY <1>1, <1>3, <1>4, <1>5

\* In lower case a text is as long.
LEMMA FoldIs ==
  ASSUME NEW S, NEW text \in Seq(S)
  PROVE  \E T : Fold(text) \in Seq(T) /\ Len(Fold(text)) = Len(text)
<1>1. Len(text) \in Nat /\ DOMAIN text = 1..Len(text)
  OBVIOUS
<1>2. Fold(text) = [k \in 1..Len(text) |-> Fold(text)[k]]
  BY <1>1 DEF Fold
<1> QED BY <1>1, <1>2, LenOf

\* A query is a short enough sequence of the characters typed.
LEMMA QueryIs ==
  ASSUME NEW q
  PROVE  q \in Query <=> q \in Seq(Typed) /\ Len(q) <= MaxQuery
<1>1. ASSUME q \in Query PROVE q \in Seq(Typed) /\ Len(q) <= MaxQuery
  <2>1. PICK n \in 0..MaxQuery : q \in [1..n -> Typed]
    BY <1>1 DEF Query
  <2>2. n \in Nat /\ n <= MaxQuery
    BY <2>1, PickerConstants
  <2>3. q \in Seq(Typed) /\ Len(q) = n
    BY <2>1, <2>2
  <2> QED BY <2>2, <2>3
<1>2. ASSUME q \in Seq(Typed), Len(q) <= MaxQuery PROVE q \in Query
  <2>1. q \in [1..Len(q) -> Typed] /\ Len(q) \in 0..MaxQuery
    BY <1>2, PickerConstants
  <2> QED BY <2>1 DEF Query
<1> QED BY <1>1, <1>2

\* A token is a word of the query, and not empty.
LEMMA TokensAre ==
  ASSUME NEW q \in Query
  PROVE  /\ DOMAIN Tokens(q) \in SUBSET (1..Len(q)) /\ Len(q) \in Nat
         /\ \A i \in DOMAIN Tokens(q) :
              \E T : Tokens(q)[i] \in Seq(T) /\ Len(Tokens(q)[i]) # 0
<1> DEFINE begins == {i \in DOMAIN q : q[i] # Blank /\ (i = 1 \/ q[i - 1] = Blank)}
           end(i) == CHOOSE j \in i..Len(q) :
                       /\ \A k \in i..j : q[k] # Blank
                       /\ j = Len(q) \/ q[j + 1] = Blank
<1>0. q \in Seq(Typed) /\ Len(q) \in Nat /\ DOMAIN q = 1..Len(q)
  BY QueryIs
<1>1. Tokens(q) = [i \in begins |-> Fold(SubSeq(q, i, end(i)))]
  BY Zenon DEF Tokens
<1>2. begins \in SUBSET (1..Len(q))
  BY <1>0
<1>3. ASSUME NEW i \in begins PROVE end(i) \in i..Len(q)
  <2> DEFINE G == {j \in i..Len(q) : \A k \in i..j : q[k] # Blank}
             g == Max(G)
  <2>1. i \in 1..Len(q) /\ q[i] # Blank
    BY <1>0
  <2>2. G \in SUBSET (0..Len(q)) /\ i \in G
    BY <1>0, <2>1
  <2>3. g \in G /\ \A j \in G : j <= g
    <3> HIDE DEF G
    <3>1. G # {}
      BY <2>2
    <3> QED BY <1>0, <2>2, <3>1, GreatestOf
  <2> HIDE DEF g
  <2>4. g \in i..Len(q) /\ \A k \in i..g : q[k] # Blank
    BY <2>3
  <2>5. g = Len(q) \/ q[g + 1] = Blank
    <3> SUFFICES ASSUME g # Len(q), q[g + 1] # Blank PROVE FALSE
      OBVIOUS
    <3>0. g \in Int /\ i \in Int /\ Len(q) \in Int /\ i <= g /\ g < Len(q)
      <4> HIDE DEF begins, G
      <4>1. i \in Int /\ Len(q) \in Int
        BY <1>0, <2>1
      <4>2. g \in i..Len(q)
        BY <2>4
      <4>3. g # Len(q)
        OBVIOUS
      <4> QED BY <4>1, <4>2, <4>3
    <3>1. g + 1 \in i..Len(q)
      BY <3>0
    <3>2. \A k \in i..(g + 1) : q[k] # Blank
      BY <2>1, <2>4
    <3>3. g + 1 \in G
      BY <3>1, <3>2
    <3> HIDE DEF G
    <3>4. g + 1 <= g /\ g \in Int
      BY <2>1, <2>3, <2>4, <3>3
    <3> QED BY <3>4
  <2>6. \E j \in i..Len(q) : (\A k \in i..j : q[k] # Blank) /\ (j = Len(q) \/ q[j + 1] = Blank)
    BY <2>4, <2>5
  <2> QED BY <2>6
<1>4. ASSUME NEW i \in begins
      PROVE  \E T : Tokens(q)[i] \in Seq(T) /\ Len(Tokens(q)[i]) # 0
  <2>1. end(i) \in i..Len(q) /\ i \in 1..Len(q)
    BY <1>2, <1>3
  <2>2. Tokens(q)[i] = Fold(SubSeq(q, i, end(i)))
    BY <1>1
  <2> HIDE DEF end, begins
  <2> DEFINE j == end(i)
  <2>3. j \in i..Len(q) /\ i \in 1..Len(q)
    BY <2>1
  <2> HIDE DEF j
  <2>4. SubSeq(q, i, j) \in Seq(Typed) /\ Len(SubSeq(q, i, j)) # 0
    BY <1>0, <2>3
  <2>5. \E T : Fold(SubSeq(q, i, j)) \in Seq(T) /\ Len(Fold(SubSeq(q, i, j))) # 0
    BY <2>4, FoldIs
  <2> QED BY <2>2, <2>5 DEF j
<1>5. DOMAIN Tokens(q) = begins
  BY <1>1
<1> QED BY <1>0, <1>2, <1>4, <1>5

LEMMA TierValues == TierNone = 0 /\ TierFuzzy = 1 /\ TierSubstring = 2 /\ TierPrefix = 3
BY DEF TierNone, TierFuzzy, TierSubstring, TierPrefix

\* How well a token matches is what it should be, and its score an integer.
THEOREM MatchTokenIs ==
  ASSUME NEW S, NEW text \in Seq(S), NEW T, NEW tok \in Seq(T), Len(tok) # 0
  PROVE  /\ MatchToken(text, tok).tier = TierOf(text, tok) /\ TierOf(text, tok) \in 0..3
         /\ MatchToken(text, tok).score \in Int
<1> DEFINE folded == Fold(text)
           starts == WordStarts(text)
           places == {i \in DOMAIN text : HasPrefixAt(folded, i, tok)}
           scattered == Subsequence(folded, tok)
           Hit(tier, pos) == [tier |-> tier, score |-> TokenScore(starts, pos)]
           At(i) == [k \in DOMAIN tok |-> i + k - 1]
<1>1. MatchToken(text, tok) =
        IF places \cap starts # {} THEN Hit(TierPrefix, At(Min(places \cap starts)))
        ELSE IF places # {} THEN Hit(TierSubstring, At(Min(places)))
        ELSE IF scattered # << >> THEN Hit(TierFuzzy, scattered)
        ELSE [tier |-> TierNone, score |-> 0]
  BY Zenon DEF MatchToken
<1>2. Len(tok) \in Nat \ {0} /\ DOMAIN tok = 1..Len(tok)
  OBVIOUS
<1>3. ASSUME NEW i PROVE TokenScore(starts, At(i)) \in Int
  <2>1. At(i) = [k \in 1..Len(tok) |-> At(i)[k]]
    BY <1>2
  <2> HIDE DEF At, starts
  <2>2. Len(At(i)) = Len(tok)
    BY <1>2, <2>1, LenOf
  <2> QED BY <1>2, <2>2, TokenScoreTyped
<1>4. PICK U : folded \in Seq(U) /\ Len(folded) = Len(text)
  BY FoldIs
<1>5. /\ scattered # << >> <=> Scattered(folded, tok)
      /\ scattered # << >> => TokenScore(starts, scattered) \in Int
  <2> HIDE DEF folded, starts
  <2>1. /\ scattered # << >> <=> Scattered(folded, tok)
        /\ scattered # << >> => Len(scattered) = Len(tok)
    BY <1>2, <1>4, SubsequenceFinds
  <2> HIDE DEF scattered
  <2> QED BY <1>2, <2>1, TokenScoreTyped
<1>6. places \cap starts # {} <=> \E i \in WordStarts(text) : HasPrefixAt(folded, i, tok)
  <2>1. starts \in SUBSET (DOMAIN text)
    BY DEF WordStarts
  <2> HIDE DEF folded
  <2> QED BY <2>1
<1>7. places # {} <=> \E i \in DOMAIN text : HasPrefixAt(folded, i, tok)
  OBVIOUS
<1>8. DOMAIN folded = DOMAIN text
  BY DEF Fold
<1>9. Scattered(folded, tok) <=>
        \E f \in [DOMAIN tok -> DOMAIN text] :
          \A i, j \in DOMAIN tok : (i < j => f[i] < f[j]) /\ folded[f[i]] = tok[i]
  <2> HIDE DEF folded
  <2> QED BY <1>8, Zenon DEF Scattered
<1>10. TierOf(text, tok) =
         IF \E i \in WordStarts(text) : HasPrefixAt(folded, i, tok) THEN TierPrefix
         ELSE IF \E i \in DOMAIN text : HasPrefixAt(folded, i, tok) THEN TierSubstring
         ELSE IF \E f \in [DOMAIN tok -> DOMAIN text] :
                   \A i, j \in DOMAIN tok : (i < j => f[i] < f[j]) /\ folded[f[i]] = tok[i]
                THEN TierFuzzy ELSE TierNone
  BY Zenon DEF TierOf
<1>11. TierOf(text, tok) =
         IF places \cap starts # {} THEN TierPrefix
         ELSE IF places # {} THEN TierSubstring
         ELSE IF scattered # << >> THEN TierFuzzy ELSE TierNone
  <2> HIDE DEF folded, places, starts, scattered
  <2> QED BY <1>5, <1>6, <1>7, <1>9, <1>10
<1>12. ASSUME NEW tier, NEW pos PROVE Hit(tier, pos).tier = tier /\ Hit(tier, pos).score = TokenScore(starts, pos)
  OBVIOUS
<1> HIDE DEF folded, places, starts, scattered, Hit, At
<1>13. [tier |-> TierNone, score |-> 0].tier = TierNone /\ [tier |-> TierNone, score |-> 0].score = 0
  OBVIOUS
<1> QED BY <1>1, <1>3, <1>5, <1>11, <1>12, <1>13, TierValues

\* A command matches as well as its worst token does.
LEMMA MatchCommandIs ==
  ASSUME NEW q \in Query, NEW c \in Command
  PROVE  /\ MatchCommand(c, Tokens(q)).tier = QualityOf(q, c) /\ QualityOf(q, c) \in 0..3
         /\ MatchCommand(c, Tokens(q)).score \in Int
         /\ Tokens(q) = << >> => QualityOf(q, c) = TierPrefix
<1> DEFINE tokens == Tokens(q)
           D == DOMAIN tokens
           match == [i \in D |-> MatchToken(c, tokens[i])]
           score == [i \in D |-> match[i].score]
           tiers == {match[i].tier : i \in D}
           ideal == {TierOf(c, tokens[i]) : i \in D}
<1>1. MatchCommand(c, tokens) =
        IF tokens = << >> THEN [tier |-> TierPrefix, score |-> 100]
        ELSE [tier |-> Min(tiers), score |-> SumFunction(score) \div Cardinality(D)]
  BY Zenon DEF MatchCommand
<1>2. QualityOf(q, c) = Min({TierPrefix} \cup ideal)
  BY Zenon DEF QualityOf
<1>3. /\ D \in SUBSET (1..Len(q)) /\ Len(q) \in Nat
      /\ \A i \in D : \E T : tokens[i] \in Seq(T) /\ Len(tokens[i]) # 0
  BY TokensAre
<1> HIDE DEF tokens
<1>4. IsFiniteSet(D) /\ Cardinality(D) \in Nat /\ (D # {} => Cardinality(D) # 0)
  <2>1. IsFiniteSet(1..Len(q))
    BY <1>3, FS_Interval
  <2>2. IsFiniteSet(D)
    BY <1>3, <2>1, FS_Subset
  <2> QED BY <2>2, FS_CardinalityType, FS_EmptySet
<1>5. ASSUME NEW i \in D
      PROVE  /\ match[i].tier = TierOf(c, tokens[i]) /\ TierOf(c, tokens[i]) \in 0..3
             /\ match[i].score \in Int
  <2>1. c \in Seq(Range(c))
    BY PickerConstants
  <2>2. PICK T : tokens[i] \in Seq(T) /\ Len(tokens[i]) # 0
    BY <1>3
  <2>3. match[i] = MatchToken(c, tokens[i])
    OBVIOUS
  <2> QED BY <2>1, <2>2, <2>3, MatchTokenIs
<1>6. tiers = ideal /\ ideal \in SUBSET (0..3)
  BY <1>5
<1>7. score \in [D -> Int]
  <2> HIDE DEF match
  <2> QED BY <1>5
<1> HIDE DEF match, tiers, score, ideal
<1>8. {TierPrefix} \cup ideal \in SUBSET Nat /\ {TierPrefix} \cup ideal # {}
  BY <1>6, TierValues
<1>9. /\ QualityOf(q, c) \in {TierPrefix} \cup ideal
      /\ \A t \in {TierPrefix} \cup ideal : QualityOf(q, c) <= t
  BY <1>2, <1>8, LeastOf
<1>10. QualityOf(q, c) \in 0..3
  <2>1. TierPrefix \in 0..3
    BY TierValues
  <2> QED BY <1>6, <1>9, <2>1, Zenon
<1>11. CASE tokens = << >>
  <2>1. D = {}
    BY <1>11
  <2>2. ideal = {}
    BY <2>1 DEF ideal
  <2>3. QualityOf(q, c) = TierPrefix
    BY <1>9, <2>2
  <2>4. /\ MatchCommand(c, tokens).tier = TierPrefix
        /\ MatchCommand(c, tokens).score = 100
    <3>1. MatchCommand(c, tokens) = [tier |-> TierPrefix, score |-> 100]
      BY <1>1, <1>11
    <3> QED BY <3>1
  <2> QED BY <1>10, <2>3, <2>4 DEF tokens
<1>12. CASE tokens # << >>
  <2>1. D # {}
    <3> SUFFICES ASSUME D = {} PROVE FALSE
      OBVIOUS
    <3>1. tokens = [k \in 1..0 |-> tokens[k]]
      <4>1. tokens = [k \in D |-> tokens[k]]
        BY DEF tokens, Tokens
      <4> QED BY <4>1
    <3>2. tokens \in Seq({tokens[k] : k \in 1..0}) /\ Len(tokens) = 0
      BY <3>1, LenOf
    <3> QED BY <1>12, <3>2, EmptySeq
  <2>2. tiers # {}
    <3>1. PICK i \in D : TRUE
      BY <2>1
    <3>2. TierOf(c, tokens[i]) \in ideal
      BY DEF ideal
    <3> QED BY <1>6, <3>2
  <2>3. Min(tiers) \in tiers /\ \A t \in tiers : Min(tiers) <= t
    <3>1. tiers \in SUBSET Nat
      BY <1>6
    <3> QED BY <2>2, <3>1, LeastOf
  <2>4. Min(tiers) = QualityOf(q, c)
    <3>1. Min(tiers) \in 0..3
      BY <1>6, <2>3
    <3>2. QualityOf(q, c) <= Min(tiers)
      BY <1>6, <1>9, <2>3
    <3>3. CASE QualityOf(q, c) \in ideal
      BY <1>6, <1>10, <2>3, <3>1, <3>2, <3>3
    <3>4. CASE QualityOf(q, c) = TierPrefix
      BY <3>1, <3>2, <3>4, TierValues
    <3> QED BY <1>9, <3>3, <3>4
  <2>5. SumFunction(score) \in Int
    BY <1>4, <1>7, SumTyped
  <2>6. SumFunction(score) \div Cardinality(D) \in Int
    <3> HIDE DEF D
    <3> QED BY <1>4, <2>1, <2>5
  <2>7. /\ MatchCommand(c, tokens).tier = Min(tiers)
        /\ MatchCommand(c, tokens).score = SumFunction(score) \div Cardinality(D)
    <3> HIDE DEF D
    <3>1. MatchCommand(c, tokens) = [tier |-> Min(tiers), score |-> SumFunction(score) \div Cardinality(D)]
      BY <1>1, <1>12
    <3> QED BY <3>1
  <2> QED BY <1>10, <1>12, <2>4, <2>6, <2>7 DEF tokens
<1> QED BY <1>11, <1>12

\* What the table of matches says.
LEMMA MatchOfIs ==
  ASSUME NEW q \in Query, NEW c \in Command
  PROVE  MatchOf(q)[c] = MatchCommand(c, Tokens(q))
<1> DEFINE row == [query |-> q, command |-> c, match |-> MatchCommand(c, Tokens(q))]
<1>1. row \in Matching /\ row.query = q /\ row.command = c /\ row.match = MatchCommand(c, Tokens(q))
  BY DEF Matching
<1>2. ASSUME NEW m \in Matching, m.query = q, m.command = c PROVE m.match = MatchCommand(c, Tokens(q))
  <2>1. PICK p \in Query, d \in Command :
          m = [query |-> p, command |-> d, match |-> MatchCommand(d, Tokens(p))]
    BY DEF Matching
  <2>2. p = q /\ d = c
    BY <1>2, <2>1
  <2> QED BY <2>1, <2>2
<1> HIDE DEF row
<1>3. (CHOOSE m \in Matching : m.query = q /\ m.command = c).match = MatchCommand(c, Tokens(q))
  BY <1>1, <1>2, Zenon
<1> QED BY <1>3 DEF MatchOf

\* What the table of qualities says.
LEMMA QualityIs ==
  ASSUME query \in Query, NEW c \in Command
  PROVE  Quality(c) = QualityOf(query, c)
<1> DEFINE row == [query |-> query, command |-> c, tier |-> QualityOf(query, c)]
<1>1. row \in Qualities /\ row.query = query /\ row.command = c /\ row.tier = QualityOf(query, c)
  BY DEF Qualities
<1>2. ASSUME NEW m \in Qualities, m.query = query, m.command = c PROVE m.tier = QualityOf(query, c)
  <2>1. PICK p \in Query, d \in Command :
          m = [query |-> p, command |-> d, tier |-> QualityOf(p, d)]
    BY DEF Qualities
  <2>2. p = query /\ d = c
    BY <1>2, <2>1
  <2> QED BY <2>1, <2>2
<1> HIDE DEF row
<1>3. (CHOOSE m \in Qualities : m.query = query /\ m.command = c).tier = QualityOf(query, c)
  BY <1>1, <1>2, Zenon
<1> QED BY <1>3 DEF Quality

----------------------------------------------------------------------------
(* The history.                                                            *)

\* Runs no two of which started at once.
Distinct(rs) == \A r, u \in rs : r.start = u.start => r = u

\* A command was used last in one of its runs.
LEMMA LatestIs ==
  ASSUME NEW rs \in SUBSET Run, rs # {}
  PROVE  Latest(rs) \in 1..Now /\ \E r \in rs : r.start = Latest(rs)
<1> DEFINE T == {r.start : r \in rs}
<1>1. T \in SUBSET (1..Now) /\ T # {}
  BY DEF Run
<1>2. T \in SUBSET (0..Now) /\ Now \in Nat
  BY <1>1, RankingConstants
<1> HIDE DEF T
<1>3. Max(T) \in T
  BY <1>1, <1>2, GreatestOf
<1>4. Latest(rs) \in T
  BY <1>3 DEF Latest, T
<1> QED BY <1>1, <1>4 DEF T

\* A command has finitely many runs: one a millisecond at most.
LEMMA RunsFinite ==
  ASSUME NEW rs \in SUBSET Run, Distinct(rs)
  PROVE  IsFiniteSet(rs)
<1> DEFINE f == [r \in rs |-> r.start]
<1>1. f \in [rs -> 1..Now]
  BY DEF Run
<1>2. \A r, u \in rs : f[r] = f[u] => r = u
  BY DEF Distinct
<1> HIDE DEF f
<1>3. f \in Injection(rs, 1..Now)
  BY <1>1, <1>2 DEF Injection, IsInjective
<1>4. IsFiniteSet(1..Now)
  BY FS_Interval, RankingConstants
<1> QED BY <1>3, <1>4, FS_Injection

----------------------------------------------------------------------------
(* A query, definition by definition.                                      *)

\* What the ranking is computed from: each text's runs, no two at once.
Statistics(st) ==
  /\ DOMAIN st \in SUBSET Command
  /\ \A c \in DOMAIN st : st[c] \in SUBSET Run /\ st[c] # {}
  /\ \A c, d \in DOMAIN st : \A r \in st[c], u \in st[d] : r.start = u.start => c = d /\ r = u

\* How each text matches a query.
Matches(match) == \A c \in Command : match[c].tier \in Int /\ match[c].score \in Int

Scored(st, match, blank, c, multiplier) ==
  [command |-> c, tier |-> match[c].tier, last |-> Latest(st[c]),
   score |-> IF blank THEN 0 ELSE match[c].score * Lift(Frecency(st[c])) * multiplier]

Possible(st, match, filter) ==
  {d \in DOMAIN st : StatusPossible(st[d], filter) /\ match[d].tier # TierNone}

Candidates(st, match, blank, filter) ==
  {Scored(st, match, blank, c, 100) : c \in Possible(st, match, filter)}

Shortlist(st, match, blank, filter) ==
  {s.command : s \in {a \in Candidates(st, match, blank, filter) :
                        Ahead(Candidates(st, match, blank, filter), a) < RefineCandidates}}

Shows(found, c, filter) == \E r \in found[c].row : StatusMatches(r, filter)

Near(found, c) == UNION {r.near : r \in found[c].runs}

Refined(st, match, blank, found, filter) ==
  {Scored(st, match, blank, c, Multiplier(st[c], Near(found, c))) :
     c \in {d \in Shortlist(st, match, blank, filter) : Shows(found, d, filter)}}

LEMMA RankedResultsIs ==
  ASSUME NEW st, NEW match, NEW blank, NEW found, NEW filter
  PROVE  RankedResults(st, match, blank, found, filter) =
           [n \in DOMAIN Sorted(Refined(st, match, blank, found, filter)) |->
              [command |-> Sorted(Refined(st, match, blank, found, filter))[n].command,
               run |-> CHOOSE r \in found[Sorted(Refined(st, match, blank, found, filter))[n].command].row : TRUE]]
BY Zenon DEF RankedResults, Refined, Shortlist, Candidates, Possible, Scored, Shows, Near

\* An entry carries what it is ordered by.
LEMMA ScoredIs ==
  ASSUME NEW st, Statistics(st), NEW match, Matches(match), NEW blank \in BOOLEAN,
         NEW c \in DOMAIN st, NEW m \in Int
  PROVE  /\ Scored(st, match, blank, c, m).command = c
         /\ Scored(st, match, blank, c, m).tier = match[c].tier
         /\ match[c].tier \in Int
         /\ Scored(st, match, blank, c, m).last = Latest(st[c])
         /\ Latest(st[c]) \in Int
         /\ Scored(st, match, blank, c, m).score \in Int
         /\ blank => Scored(st, match, blank, c, m).score = 0
<1>1. c \in Command /\ st[c] \in SUBSET Run /\ st[c] # {}
  BY DEF Statistics
<1>2. match[c].tier \in Int /\ match[c].score \in Int
  BY <1>1 DEF Matches
<1>3. Latest(st[c]) \in Int
  <2>1. Latest(st[c]) \in 1..Now
    BY <1>1, LatestIs
  <2> QED BY <2>1, RankingConstants
<1>4. Lift(Frecency(st[c])) \in Int
  BY LiftTyped
<1> DEFINE s == IF blank THEN 0 ELSE match[c].score * Lift(Frecency(st[c])) * m
<1>5. s \in Int /\ (blank => s = 0)
  BY <1>2, <1>4
<1>6. /\ Scored(st, match, blank, c, m).command = c
      /\ Scored(st, match, blank, c, m).tier = match[c].tier
      /\ Scored(st, match, blank, c, m).last = Latest(st[c])
      /\ Scored(st, match, blank, c, m).score = s
  <2> HIDE DEF s
  <2>1. Scored(st, match, blank, c, m) =
          [command |-> c, tier |-> match[c].tier, last |-> Latest(st[c]), score |-> s]
    BY Zenon DEF Scored, s
  <2> QED BY <2>1
<1> HIDE DEF s
<1> QED BY <1>2, <1>3, <1>5, <1>6

\* One entry for each of some texts.
Entries(S, C, st, match, blank) ==
  /\ \A s \in S : \E c \in C, m \in Int : s = Scored(st, match, blank, c, m)
  /\ \A s, t \in S : s.command = t.command => s = t
  /\ \A c \in C : \E s \in S : s.command = c

\* Entries can be put in order: no two commands ran at the same moment.
LEMMA EntriesOrdered ==
  ASSUME IsFiniteSet(Command), NEW st, Statistics(st), NEW match, Matches(match), NEW blank \in BOOLEAN,
         NEW C \in SUBSET (DOMAIN st), NEW S, Entries(S, C, st, match, blank)
  PROVE  /\ Orderable(S)
         /\ \A s \in S : /\ s.command \in C /\ s.tier = match[s.command].tier
                         /\ s.last = Latest(st[s.command])
                         /\ blank => s.score = 0
<1>1. ASSUME NEW s \in S
      PROVE  /\ s.command \in C /\ s.tier = match[s.command].tier /\ s.tier \in Int
             /\ s.last = Latest(st[s.command]) /\ s.last \in Int
             /\ s.score \in Int /\ (blank => s.score = 0)
  <2>1. PICK c \in C, m \in Int : s = Scored(st, match, blank, c, m)
    BY DEF Entries
  <2> QED BY <2>1, ScoredIs
<1>2. ASSUME NEW s \in S, NEW t \in S, s.last = t.last PROVE s = t
  <2>1. s.command \in DOMAIN st /\ t.command \in DOMAIN st /\ Latest(st[s.command]) = Latest(st[t.command])
    BY <1>1, <1>2
  <2>2. PICK r \in st[s.command] : r.start = Latest(st[s.command])
    BY <2>1, LatestIs DEF Statistics
  <2>3. PICK u \in st[t.command] : u.start = Latest(st[t.command])
    BY <2>1, LatestIs DEF Statistics
  <2>4. s.command = t.command
    BY <2>1, <2>2, <2>3 DEF Statistics
  <2> QED BY <2>4 DEF Entries
<1>3. IsFiniteSet(S)
  <2> DEFINE f == [s \in S |-> s.command]
  <2>1. f \in [S -> Command]
    BY <1>1 DEF Statistics
  <2>2. \A s, t \in S : f[s] = f[t] => s = t
    BY DEF Entries
  <2> HIDE DEF f
  <2>3. f \in Injection(S, Command)
    BY <2>1, <2>2 DEF Injection, IsInjective
  <2> QED BY <2>3, FS_Injection
<1> QED BY <1>1, <1>2, <1>3 DEF Orderable

\* Entries made with any multiplier for each text are entries.
LEMMA CandidateEntries ==
  ASSUME NEW st, Statistics(st), NEW match, Matches(match), NEW blank \in BOOLEAN, NEW filter
  PROVE  /\ Possible(st, match, filter) \in SUBSET (DOMAIN st)
         /\ Entries(Candidates(st, match, blank, filter), Possible(st, match, filter), st, match, blank)
<1> DEFINE C == Possible(st, match, filter)
           S == Candidates(st, match, blank, filter)
<1>1. C \in SUBSET (DOMAIN st)
  BY DEF Possible
<1>2. S = {Scored(st, match, blank, c, 100) : c \in C}
  BY DEF Candidates
<1> HIDE DEF C, S
<1>3. \A s \in S : \E c \in C : s = Scored(st, match, blank, c, 100) /\ s.command = c
  BY <1>1, <1>2, ScoredIs
<1>4. \A c \in C : Scored(st, match, blank, c, 100) \in S /\ Scored(st, match, blank, c, 100).command = c
  BY <1>1, <1>2, ScoredIs
<1>5. \A s \in S : \E c \in C, m \in Int : s = Scored(st, match, blank, c, m)
  BY <1>3
<1>6. \A s, t \in S : s.command = t.command => s = t
  BY <1>3
<1>7. \A c \in C : \E s \in S : s.command = c
  BY <1>4
<1> QED BY <1>1, <1>5, <1>6, <1>7 DEF Entries, C, S

\* So are the ones refined with the context.
LEMMA RefinedEntries ==
  ASSUME NEW st, Statistics(st), NEW match, Matches(match), NEW blank \in BOOLEAN, NEW found, NEW filter,
         NEW C, C = {d \in Shortlist(st, match, blank, filter) : Shows(found, d, filter)},
         C \in SUBSET (DOMAIN st)
  PROVE  Entries(Refined(st, match, blank, found, filter), C, st, match, blank)
<1> DEFINE S == Refined(st, match, blank, found, filter)
           m(c) == Multiplier(st[c], Near(found, c))
<1>1. ASSUME NEW c \in C PROVE m(c) \in Int
  <2>1. st[c] \in SUBSET Run /\ Distinct(st[c])
    BY DEF Statistics, Distinct
  <2> QED BY <2>1, RunsFinite, MultiplierTyped
<1>2. S = {Scored(st, match, blank, c, m(c)) : c \in C}
  BY DEF Refined
<1> HIDE DEF S, m
<1>3. \A s \in S : \E c \in C : s = Scored(st, match, blank, c, m(c)) /\ s.command = c
  BY <1>1, <1>2, ScoredIs
<1>4. \A c \in C : Scored(st, match, blank, c, m(c)) \in S /\ Scored(st, match, blank, c, m(c)).command = c
  BY <1>1, <1>2, ScoredIs
<1>5. \A s \in S : \E c \in C, k \in Int : s = Scored(st, match, blank, c, k)
  BY <1>1, <1>3
<1>6. \A s, t \in S : s.command = t.command => s = t
  BY <1>3
<1>7. \A c \in C : \E s \in S : s.command = c
  BY <1>4
<1> QED BY <1>5, <1>6, <1>7 DEF Entries, S

\* Those who match no worse than c, and could be listed.
Rivals(st, match, filter, c) ==
  {d \in DOMAIN st \ {c} : StatusPossible(st[d], filter) /\ match[d].tier >= match[c].tier}

\* What a ranked list is: rows of what could be listed, the better ones
\* first, and nothing left out but for as many that match no worse.
RankedList(list0, st, match, blank, found, filter) ==
  /\ \A i \in DOMAIN list0 :
       LET c == list0[i].command
       IN  /\ c \in DOMAIN st /\ match[c].tier # TierNone /\ Shows(found, c, filter)
           /\ list0[i] = [command |-> c, run |-> CHOOSE r \in found[c].row : TRUE]
  /\ \A i, j \in DOMAIN list0 : i < j =>
       LET c == list0[i].command  d == list0[j].command
       IN  /\ match[c].tier >= match[d].tier
           /\ blank /\ match[c].tier = match[d].tier => Latest(st[c]) > Latest(st[d])
  /\ \A c \in Possible(st, match, filter) : Shows(found, c, filter) =>
       \/ \E i \in DOMAIN list0 : list0[i].command = c
       \/ Cardinality(Rivals(st, match, filter, c)) >= RefineCandidates

\* A command is looked up unless as many that match no worse are.
LEMMA ShortlistIs ==
  ASSUME IsFiniteSet(Command), RefineCandidates \in Nat,
         NEW st, Statistics(st), NEW match, Matches(match), NEW blank \in BOOLEAN, NEW filter
  PROVE  /\ Shortlist(st, match, blank, filter) \in SUBSET Possible(st, match, filter)
         /\ \A c \in Possible(st, match, filter) :
              \/ c \in Shortlist(st, match, blank, filter)
              \/ Cardinality(Rivals(st, match, filter, c)) >= RefineCandidates
<1> DEFINE C == Possible(st, match, filter)
           S == Candidates(st, match, blank, filter)
<1>1. C \in SUBSET (DOMAIN st) /\ Entries(S, C, st, match, blank)
  BY CandidateEntries
<1> HIDE DEF C, S
<1>2. /\ Orderable(S)
      /\ \A s \in S : s.command \in C /\ s.tier = match[s.command].tier
  BY <1>1, EntriesOrdered
<1>3. Shortlist(st, match, blank, filter) = {s.command : s \in {a \in S : Ahead(S, a) < RefineCandidates}}
  BY DEF Shortlist, S
<1>4. Shortlist(st, match, blank, filter) \in SUBSET C
  BY <1>2, <1>3
<1>5. ASSUME NEW c \in C, c \notin Shortlist(st, match, blank, filter)
      PROVE  Cardinality(Rivals(st, match, filter, c)) >= RefineCandidates
  <2>1. PICK a \in S : a.command = c
    BY <1>1 DEF Entries
  <2>2. ~(Ahead(S, a) < RefineCandidates)
    BY <1>3, <1>5, <2>1
  <2>3. Ahead(S, a) \in Int /\ Ahead(S, a) >= RefineCandidates
    <3>1. Ahead(S, a) \in 0..(Cardinality(S) - 1)
      BY <1>2, AheadGrows
    <3> QED BY <2>2, <3>1
  <2> DEFINE A == {b \in S : Less(b, a)}
             R == Rivals(st, match, filter, c)
             f == [b \in A |-> b.command]
  <2>4. ASSUME NEW b \in A PROVE b.command \in R
    <3>1. b \in S /\ Less(b, a)
      OBVIOUS
    <3>2. b # a
      BY <1>2, <3>1, LessOrders
    <3>3. b.command # c
      BY <1>1, <2>1, <3>1, <3>2 DEF Entries
    <3>4. b.tier >= a.tier
      <4>1. b.tier \in Int /\ a.tier \in Int
        BY <1>2, <3>1 DEF Orderable
      <4> QED BY <3>1, <4>1 DEF Less
    <3>5. b.command \in DOMAIN st /\ StatusPossible(st[b.command], filter)
      BY <1>1, <1>2, <3>1 DEF C, Possible
    <3>6. match[b.command].tier >= match[c].tier
      BY <1>2, <2>1, <3>1, <3>4
    <3> QED BY <3>3, <3>5, <3>6 DEF Rivals
  <2>5. f \in [A -> R]
    <3> HIDE DEF A, R
    <3> QED BY <2>4
  <2>6. \A b, d \in A : f[b] = f[d] => b = d
    BY <1>1 DEF Entries
  <2>7. f \in Injection(A, R)
    <3> HIDE DEF f, A, R
    <3> QED BY <2>5, <2>6 DEF Injection, IsInjective
  <2>8. IsFiniteSet(R)
    <3>1. R \in SUBSET Command
      BY DEF Rivals, Statistics
    <3> HIDE DEF R
    <3> QED BY <3>1, FS_Subset
  <2>9. Cardinality(A) <= Cardinality(R) /\ Cardinality(R) \in Nat
    <3> HIDE DEF f, A, R
    <3> QED BY <2>7, <2>8, FS_Injection, FS_CardinalityType
  <2>10. Ahead(S, a) = Cardinality(A)
    BY DEF Ahead
  <2> HIDE DEF A, R, f
  <2>11. Cardinality(R) >= RefineCandidates
    BY <2>3, <2>9, <2>10
  <2> QED BY <2>11 DEF R
<1> QED BY <1>4, <1>5 DEF C

\* The two phases of a query give a ranked list.
LEMMA RankedIs ==
  ASSUME IsFiniteSet(Command), RefineCandidates \in Nat,
         NEW st, Statistics(st), NEW match, Matches(match), NEW blank \in BOOLEAN, NEW found, NEW filter
  PROVE  /\ \E n \in Nat : DOMAIN RankedResults(st, match, blank, found, filter) = 1..n
         /\ RankedResults(st, match, blank, found, filter)
              \in Seq({RankedResults(st, match, blank, found, filter)[i] :
                         i \in DOMAIN RankedResults(st, match, blank, found, filter)})
         /\ RankedList(RankedResults(st, match, blank, found, filter), st, match, blank, found, filter)
<1> DEFINE L == RankedResults(st, match, blank, found, filter)
           S == Refined(st, match, blank, found, filter)
           C == {d \in Shortlist(st, match, blank, filter) : Shows(found, d, filter)}
           out == Sorted(S)
           n == Cardinality(S)
           row(c) == [command |-> c, run |-> CHOOSE r \in found[c].row : TRUE]
<1>1. /\ Shortlist(st, match, blank, filter) \in SUBSET Possible(st, match, filter)
      /\ \A c \in Possible(st, match, filter) :
           \/ c \in Shortlist(st, match, blank, filter)
           \/ Cardinality(Rivals(st, match, filter, c)) >= RefineCandidates
  BY ShortlistIs
<1>2. C \in SUBSET (DOMAIN st) /\ C \in SUBSET Possible(st, match, filter)
  BY <1>1 DEF Possible
<1>3. Entries(S, C, st, match, blank)
  BY <1>2, RefinedEntries
<1> HIDE DEF C
<1>4. /\ Orderable(S)
      /\ \A s \in S : /\ s.command \in C /\ s.tier = match[s.command].tier
                      /\ s.last = Latest(st[s.command])
                      /\ blank => s.score = 0
  <2> HIDE DEF S
  <2> QED BY <1>2, <1>3, EntriesOrdered
<1>5. L = [k \in DOMAIN out |-> row(out[k].command)]
  BY RankedResultsIs, Zenon
<1> HIDE DEF L, S
<1>6. /\ n \in Nat /\ DOMAIN out = 1..n
      /\ \A k \in 1..n : out[k] \in S
      /\ \A a \in S : \E k \in 1..n : out[k] = a
      /\ \A i, j \in 1..n : i < j => Less(out[i], out[j])
  BY <1>4, SortedIs
<1> HIDE DEF out, n
<1>7. /\ DOMAIN L = 1..n /\ L = [k \in 1..n |-> L[k]]
      /\ \A k \in 1..n : L[k] = row(out[k].command) /\ L[k].command = out[k].command
  <2>1. L = [k \in 1..n |-> row(out[k].command)]
    BY <1>5, <1>6, Zenon
  <2>2. \A c : row(c).command = c
    OBVIOUS
  <2> HIDE DEF row
  <2>3. \A k \in 1..n : L[k] = row(out[k].command)
    BY <2>1
  <2> QED BY <2>1, <2>2, <2>3
<1> HIDE DEF row
<1>8. L \in Seq({L[k] : k \in 1..n})
  BY <1>6, <1>7, LenOf
<1>9. ASSUME NEW i \in DOMAIN L
      PROVE  /\ L[i].command \in DOMAIN st /\ match[L[i].command].tier # TierNone
             /\ Shows(found, L[i].command, filter)
             /\ L[i] = row(L[i].command)
  <2>1. L[i].command \in C /\ L[i] = row(L[i].command)
    BY <1>4, <1>6, <1>7
  <2> QED BY <1>2, <2>1 DEF C, Possible
<1>10. ASSUME NEW i \in DOMAIN L, NEW j \in DOMAIN L, i < j
       PROVE  /\ match[L[i].command].tier >= match[L[j].command].tier
              /\ blank /\ match[L[i].command].tier = match[L[j].command].tier =>
                   Latest(st[L[i].command]) > Latest(st[L[j].command])
  <2> DEFINE a == out[i]
             b == out[j]
  <2>1. a \in S /\ b \in S /\ Less(a, b) /\ L[i].command = a.command /\ L[j].command = b.command
    BY <1>6, <1>7, <1>10
  <2> HIDE DEF a, b
  <2>2. a.tier \in Int /\ b.tier \in Int /\ a.score \in Int /\ b.score \in Int /\ a.last \in Int /\ b.last \in Int
    BY <1>4, <2>1 DEF Orderable
  <2>3. a.tier >= b.tier
    BY <2>1, <2>2 DEF Less
  <2>4. ASSUME blank, a.tier = b.tier PROVE a.last > b.last
    <3>1. a.score = b.score
      BY <1>4, <2>1, <2>4
    <3> QED BY <2>1, <2>2, <2>4, <3>1 DEF Less
  <2> QED BY <1>4, <2>1, <2>3, <2>4
<1>11. ASSUME NEW c \in Possible(st, match, filter), Shows(found, c, filter)
       PROVE  \/ \E i \in DOMAIN L : L[i].command = c
              \/ Cardinality(Rivals(st, match, filter, c)) >= RefineCandidates
  <2>1. CASE c \in Shortlist(st, match, blank, filter)
    <3>1. c \in C
      BY <1>11, <2>1 DEF C
    <3>2. PICK s \in S : s.command = c
      BY <1>3, <3>1 DEF Entries
    <3> QED BY <1>6, <1>7, <3>2
  <2> QED BY <1>1, <2>1
<1>12. RankedList(L, st, match, blank, found, filter)
  BY <1>9, <1>10, <1>11 DEF RankedList, row
<1> QED BY <1>6, <1>7, <1>8, <1>12 DEF L

----------------------------------------------------------------------------
(* Kinds.                                                                  *)

\* The runs of every text, no two of which started at once.
Records(rs) ==
  /\ rs \in [Command -> SUBSET Run]
  /\ \A c, d \in Command : \A r \in rs[c], u \in rs[d] : r.start = u.start => c = d /\ r = u

Ids == Command \X Nat

\* What is in flight is of its kind.
Carries(m) ==
  /\ m.kind = "query" => m.query \in Query /\ Statistics(m.stats)
  /\ m.kind = "results" => m.cmds \in Seq(ResultRow)
  /\ m.kind = "stats" => Statistics(m.stats)
  /\ m.kind \in {"loadNeighbors", "neighbors"} => m.id \in Ids

HistoryKinds == Records(runs) /\ Records(cached) /\ Statistics(stats)

EditKinds ==
  /\ query \in Query /\ caret \in Nat /\ caret <= Len(query)
  /\ status \in 1..4

ScreenKinds ==
  /\ results \in Seq(ResultRow)
  /\ cursor \in Nat /\ offset \in Nat
  /\ cursor = 0 \/ cursor < Len(results)
  /\ offset <= cursor
  /\ height \in Heights
  /\ "resize" \notin setting => cursor < offset + height

PaneKinds == pane \in Ids \cup {None} /\ neighborsFor \in Ids \cup {None}

FlightKinds == \A m \in flight : Carries(m)

KindInv == HistoryKinds /\ EditKinds /\ ScreenKinds /\ PaneKinds /\ FlightKinds

LEMMA KindsAreTypes == ASSUME KindInv PROVE TypeOK
<1>1. query \in Query /\ caret \in 0..Len(query) /\ status \in DOMAIN StatusCycle
  <2>1. Len(query) \in Nat
    BY QueryIs DEF KindInv, EditKinds
  <2>2. DOMAIN StatusCycle = 1..4
    BY DEF StatusCycle
  <2> QED BY <2>1, <2>2 DEF KindInv, EditKinds
<1>2. \A i \in DOMAIN results : results[i] \in ResultRow
  BY DEF KindInv, ScreenKinds
<1>3. pane \in Ids \cup {None} /\ neighborsFor \in Ids \cup {None} /\ DOMAIN stats \subseteq Command
  BY DEF KindInv, PaneKinds, HistoryKinds, Statistics
<1>4. /\ cursor \in Nat /\ offset \in Nat
      /\ cursor = 0 \/ cursor < Len(results)
      /\ offset <= cursor
      /\ height \in Heights
      /\ "resize" \notin setting => cursor < offset + height
  BY Zenon DEF KindInv, ScreenKinds
<1> QED BY <1>1, <1>2, <1>3, <1>4, Zenon DEF TypeOK, Ids

----------------------------------------------------------------------------
(* What is read.                                                           *)

\* The statistics are some of the cache.
LEMMA StatisticsRead ==
  ASSUME Records(cached), NEW n
  PROVE  Statistics(CommandStats(n))
<1> DEFINE there == {c \in Command : cached[c] # {}}
           newer(c) == {d \in there : Latest(cached[d]) > Latest(cached[c])}
           D == {d \in there : Cardinality(newer(d)) < n}
<1>1. CommandStats(n) = [c \in D |-> cached[c]]
  BY Zenon DEF CommandStats
<1>2. D \in SUBSET Command /\ \A c \in D : cached[c] # {}
  OBVIOUS
<1> HIDE DEF D
<1>3. DOMAIN CommandStats(n) = D /\ \A c \in D : CommandStats(n)[c] = cached[c]
  BY <1>1
<1> QED BY <1>2, <1>3 DEF Statistics, Records

LEMMA NoStatistics == Statistics(<< >>)
BY DEF Statistics

\* How the commands match a query, and that it is what it should be.
LEMMA MatchesIs ==
  ASSUME NEW q \in Query
  PROVE  Matches(MatchOf(q)) /\ \A c \in Command : MatchOf(q)[c].tier = QualityOf(q, c)
<1> SUFFICES ASSUME NEW c \in Command
             PROVE  /\ MatchOf(q)[c].tier \in Int /\ MatchOf(q)[c].score \in Int
                    /\ MatchOf(q)[c].tier = QualityOf(q, c)
  BY DEF Matches
<1>1. MatchOf(q)[c] = MatchCommand(c, Tokens(q))
  BY MatchOfIs
<1>2. MatchCommand(c, Tokens(q)).tier = QualityOf(q, c) /\ QualityOf(q, c) \in 0..3
      /\ MatchCommand(c, Tokens(q)).score \in Int
  BY MatchCommandIs
<1> QED BY <1>1, <1>2

\* What the picker shows is rows of the history.
LEMMA RowsRanked ==
  ASSUME Sizes, Records(runs), NEW m, m.query \in Query, Statistics(m.stats)
  PROVE  /\ Ranked(m) \in Seq(ResultRow)
         /\ RankedList(Ranked(m), m.stats, MatchOf(m.query), Tokens(m.query) = << >>, Found, m.status)
<1> DEFINE match == MatchOf(m.query)
           blank == Tokens(m.query) = << >>
           L == RankedResults(m.stats, match, blank, Found, m.status)
<1>1. Ranked(m) = L
  BY DEF Ranked
<1>2. Matches(match) /\ blank \in BOOLEAN
  BY MatchesIs
<1> HIDE DEF match, blank
<1>3. /\ L \in Seq({L[i] : i \in DOMAIN L})
      /\ RankedList(L, m.stats, match, blank, Found, m.status)
  <2>1. IsFiniteSet(Command) /\ RefineCandidates \in Nat
    BY DEF Sizes
  <2>2. ASSUME NEW st, Statistics(st), NEW found, NEW filter
        PROVE  /\ RankedResults(st, match, blank, found, filter)
                    \in Seq({RankedResults(st, match, blank, found, filter)[i] :
                               i \in DOMAIN RankedResults(st, match, blank, found, filter)})
               /\ RankedList(RankedResults(st, match, blank, found, filter), st, match, blank, found, filter)
    BY <1>2, <2>1, <2>2, RankedIs
  <2> QED BY <2>2, Zenon
<1> HIDE DEF L
<1>4. ASSUME NEW i \in DOMAIN L PROVE L[i] \in ResultRow
  <2> DEFINE c == L[i].command
             r == CHOOSE u \in Found[c].row : TRUE
  <2>1. /\ c \in DOMAIN m.stats /\ Shows(Found, c, m.status)
        /\ L[i] = [command |-> c, run |-> r]
    BY <1>3 DEF RankedList
  <2>2. c \in Command
    BY <2>1 DEF Statistics
  <2> HIDE DEF c
  <2>3. Found[c].row \in SUBSET runs[c]
    BY <2>2 DEF Found
  <2>4. r \in Found[c].row
    BY <2>1 DEF Shows
  <2>5. r \in Run
    BY <2>2, <2>3, <2>4 DEF Records
  <2> HIDE DEF r
  <2> QED BY <2>1, <2>2, <2>5 DEF ResultRow
<1>5. L \in Seq(ResultRow)
  <2>1. {L[i] : i \in DOMAIN L} \in SUBSET ResultRow
    BY <1>4
  <2>2. Seq({L[i] : i \in DOMAIN L}) \in SUBSET Seq(ResultRow)
    BY <2>1
  <2> QED BY <1>3, <2>2
<1> QED BY <1>1, <1>3, <1>5 DEF match, blank

----------------------------------------------------------------------------
(* Editing.                                                                *)

\* The blanks left of the caret end somewhere, and so does the word before them.
LEMMA WordBeforeIs ==
  ASSUME EditKinds
  PROVE  WordBefore \in 0..caret
<1> DEFINE J == {j \in 0..caret : \A k \in (j + 1)..caret : query[k] = Blank}
<1>1. caret \in Nat
  BY DEF EditKinds
<1>2. caret \in J
  BY <1>1
<1>3. PICK j \in J : \A m \in J : j <= m
  <2>1. J \in SUBSET Nat
    OBVIOUS
  <2> HIDE DEF J
  <2> QED BY <1>2, <2>1, LeastNat
<1>4. j \in 0..caret /\ \A k \in (j + 1)..caret : query[k] = Blank
  BY <1>3
<1>5. j = 0 \/ query[j] # Blank
  <2> SUFFICES ASSUME j # 0, query[j] = Blank PROVE FALSE
    OBVIOUS
  <2>1. j - 1 \in 0..caret /\ ~(j <= j - 1)
    BY <1>1, <1>4
  <2>2. \A k \in ((j - 1) + 1)..caret : k = j \/ k \in (j + 1)..caret
    BY <1>1, <1>4
  <2>3. j - 1 \in J
    BY <1>4, <2>1, <2>2
  <2> QED BY <1>3, <2>1, <2>3
<1> DEFINE I == {i \in 0..j : \A k \in (i + 1)..j : query[k] # Blank}
<1>6. j \in I
  BY <1>4
<1> HIDE DEF J
<1>7. PICK i \in I : \A m \in I : i <= m
  <2>1. I \in SUBSET Nat
    BY <1>4
  <2> HIDE DEF I
  <2> QED BY <1>6, <2>1, LeastNat
<1>8. i \in 0..j /\ \A k \in (i + 1)..j : query[k] # Blank
  BY <1>7
<1>9. i = 0 \/ query[i] = Blank
  <2> SUFFICES ASSUME i # 0, query[i] # Blank PROVE FALSE
    OBVIOUS
  <2>1. i - 1 \in 0..j /\ ~(i <= i - 1)
    BY <1>4, <1>8
  <2>2. \A k \in ((i - 1) + 1)..j : k = i \/ k \in (i + 1)..j
    BY <1>4, <1>8
  <2>3. i - 1 \in I
    BY <1>8, <2>1, <2>2
  <2> QED BY <1>7, <2>1, <2>3
<1> HIDE DEF I
<1>10. i \in 0..caret /\ j \in i..caret
  BY <1>1, <1>4, <1>8
<1> QED BY <1>4, <1>5, <1>8, <1>9, <1>10 DEF WordBefore

\* An edit is a query and a caret.
LEMMA EditsQuery ==
  ASSUME EditKinds, Edit
  PROVE  \E q \in Query, c \in Nat : EditQuery(q, c)
<1>1. /\ query \in Seq(Typed) /\ Len(query) \in Nat /\ Len(query) <= MaxQuery
      /\ caret \in Nat /\ caret <= Len(query) /\ MaxQuery \in Nat
  BY QueryIs, PickerConstants DEF EditKinds
<1>2. ASSUME NEW n \in 0..Len(query)
      PROVE  /\ Left(n) \in Seq(Typed) /\ Len(Left(n)) = n
             /\ Right(n) \in Seq(Typed) /\ Len(Right(n)) = Len(query) - n
  BY <1>1 DEF Left, Right
<1>3. ASSUME NEW n \in 0..Len(query), NEW k \in 0..Len(query), n <= k PROVE Left(n) \o Right(k) \in Query
  <2>1. /\ Left(n) \in Seq(Typed) /\ Right(k) \in Seq(Typed)
        /\ Len(Left(n)) = n /\ Len(Right(k)) = Len(query) - k
    BY <1>2
  <2>2. Left(n) \o Right(k) \in Seq(Typed) /\ Len(Left(n) \o Right(k)) = n + (Len(query) - k)
    BY <2>1
  <2>3. n + (Len(query) - k) <= MaxQuery
    BY <1>1, <1>3
  <2> QED BY <2>2, <2>3, QueryIs
<1>4. ASSUME NEW n \in 0..Len(query) PROVE Left(n) \in Query /\ Right(n) \in Query
  <2>1. n <= MaxQuery /\ Len(query) - n <= MaxQuery
    BY <1>1
  <2> QED BY <1>2, <2>1, QueryIs
<1>5. caret \in 0..Len(query)
  BY <1>1
<1>6. CASE \E ch \in Typed : Insert(ch)
  <2>1. PICK ch \in Typed : Insert(ch)
    BY <1>6
  <2> DEFINE q == Left(caret) \o <<ch>> \o Right(caret)
  <2>2. EditQuery(q, caret + 1) /\ Len(query) < MaxQuery
    BY <2>1 DEF Insert
  <2>3. /\ Left(caret) \in Seq(Typed) /\ Len(Left(caret)) = caret
        /\ Right(caret) \in Seq(Typed) /\ Len(Right(caret)) = Len(query) - caret
    BY <1>2, <1>5
  <2>4. q \in Seq(Typed) /\ Len(q) = Len(query) + 1
    BY <1>1, <2>3
  <2>5. q \in Query
    <3> HIDE DEF q
    <3>1. Len(query) + 1 <= MaxQuery
      BY <1>1, <2>2
    <3> QED BY <2>4, <3>1, QueryIs
  <2>6. caret + 1 \in Nat
    BY <1>1
  <2> QED BY <2>2, <2>5, <2>6
<1>7. CASE DeleteWordBefore
  <2>1. WordBefore \in 0..Len(query) /\ WordBefore <= caret /\ WordBefore \in Nat
    BY <1>1, WordBeforeIs
  <2>2. Left(WordBefore) \o Right(caret) \in Query
    BY <1>3, <1>5, <2>1
  <2> QED BY <1>7, <2>1, <2>2 DEF DeleteWordBefore
<1>8. CASE CutRight
  BY <1>1, <1>4, <1>5, <1>8 DEF CutRight
<1>9. CASE CutLeft
  BY <1>4, <1>5, <1>9 DEF CutLeft
<1>10. CASE Delete
  <2> DEFINE k == IF caret < Len(query) THEN caret + 1 ELSE caret
  <2>1. k \in 0..Len(query) /\ caret <= k
    BY <1>1
  <2>2. EditQuery(Left(caret) \o Right(k), caret)
    BY <1>10 DEF Delete
  <2> HIDE DEF k
  <2> QED BY <1>1, <1>3, <1>5, <2>1, <2>2
<1>11. CASE Backspace
  <2> DEFINE i == IF caret = 0 THEN 0 ELSE caret - 1
  <2>1. i \in 0..Len(query) /\ i <= caret /\ i \in Nat
    BY <1>1
  <2>2. EditQuery(Left(i) \o Right(caret), i)
    BY <1>11 DEF Backspace
  <2> HIDE DEF i
  <2> QED BY <1>3, <1>5, <2>1, <2>2
<1> QED BY <1>6, <1>7, <1>8, <1>9, <1>10, <1>11 DEF Edit

AnsweredAs(m) ==
  \E n :
           /\ flight' = (flight \ {m}) \cup {n}
           /\ \/ /\ m.kind = "query" /\ n.kind = "results" /\ n.seq = m.seq
                 /\ n.cmds = << >> \/ n.cmds = Ranked(m)
              \/ /\ m.kind = "load" /\ n.kind = "stats"
                 /\ n.stats = << >> \/ n.stats = CommandStats(StatsLimit)
              \/ /\ m.kind = "loadNeighbors" /\ n.kind = "neighbors" /\ n.id = m.id

\* What a command becomes, the database failing or not.
LEMMA Messages ==
  ASSUME NEW m, Answer(m)
  PROVE  AnsweredAs(m)
<1> DEFINE results_(f) == [kind |-> "results", seq |-> m.seq, of |-> m,
                          cmds |-> IF f THEN << >> ELSE Ranked(m)]
           stats_(f) == [kind |-> "stats", stats |-> IF f THEN << >> ELSE CommandStats(StatsLimit)]
           neighbors_(f) == [kind |-> "neighbors", id |-> m.id, found |-> ~f]
<1>1. \A f \in BOOLEAN :
        /\ results_(f).kind = "results" /\ results_(f).seq = m.seq
        /\ results_(f).cmds = << >> \/ results_(f).cmds = Ranked(m)
        /\ stats_(f).kind = "stats"
        /\ stats_(f).stats = << >> \/ stats_(f).stats = CommandStats(StatsLimit)
        /\ neighbors_(f).kind = "neighbors" /\ neighbors_(f).id = m.id
  OBVIOUS
<1>2. PICK f \in BOOLEAN :
        \/ m.kind = "query" /\ flight' = (flight \ {m}) \cup {results_(f)}
        \/ m.kind = "load" /\ flight' = (flight \ {m}) \cup {stats_(f)}
        \/ m.kind = "loadNeighbors" /\ flight' = (flight \ {m}) \cup {neighbors_(f)}
  <2>1. \A f \in (IF "error" \in setting THEN BOOLEAN ELSE {FALSE}) : f \in BOOLEAN
    OBVIOUS
  <2> QED BY <2>1, Zenon DEF Answer
<1> HIDE DEF results_, stats_, neighbors_
<1> QED BY <1>1, <1>2 DEF AnsweredAs

----------------------------------------------------------------------------
LEMMA KindInit == Init => KindInv
<1> SUFFICES ASSUME Init PROVE KindInv
  OBVIOUS
<1>1. Records(runs) /\ Records(cached)
  <2>1. Records(History)
    BY PickerConstants DEF Records
  <2> QED BY <2>1 DEF Init
<1>2. Statistics(stats)
  BY <1>1, StatisticsRead DEF Init
<1>3. EditKinds
  <2>1. query \in Query /\ caret = Len(query) /\ status = 1
    BY PickerConstants DEF Init
  <2>2. Len(query) \in Nat
    BY <2>1, QueryIs
  <2> QED BY <2>1, <2>2 DEF EditKinds
<1>4. ScreenKinds
  <2>1. results = << >> /\ cursor = 0 /\ offset = 0 /\ height \in Heights /\ height \in Nat \ {0}
    BY PickerConstants DEF Init
  <2> QED BY <2>1 DEF ScreenKinds
<1>5. PaneKinds
  BY DEF Init, PaneKinds
<1>6. FlightKinds
  <2> DEFINE a == Ask(1, stats, query, "")
             l == [kind |-> "load"]
  <2>1. flight = {a, l}
    BY DEF Init
  <2>2. a.kind = "query" /\ a.query = query /\ a.stats = stats /\ l.kind = "load"
    BY DEF Ask
  <2> HIDE DEF a, l
  <2>3. Carries(a)
    BY <1>2, <1>3, <2>2 DEF Carries, EditKinds
  <2>4. Carries(l)
    BY <2>2 DEF Carries
  <2> QED BY <2>1, <2>3, <2>4 DEF FlightKinds
<1> QED BY <1>1, <1>2, <1>3, <1>4, <1>5, <1>6 DEF KindInv, HistoryKinds

\* The row selected is one of the history's.
LEMMA SelectedKind ==
  ASSUME NEW rows \in Seq(ResultRow), NEW cur \in Nat
  PROVE  SelectedIn(rows, cur) \in Ids \cup {None}
<1>1. CASE cur < Len(rows)
  <2>1. rows[cur + 1] \in ResultRow
    BY <1>1
  <2>2. PICK c \in Command, r \in Run : rows[cur + 1] = [command |-> c, run |-> r]
    BY <2>1 DEF ResultRow
  <2>3. IdOf(rows[cur + 1]) = <<c, r.start>>
    BY <2>2 DEF IdOf
  <2>4. r.start \in Nat
    BY RankingConstants DEF Run
  <2> QED BY <1>1, <2>3, <2>4 DEF SelectedIn, Ids
<1>2. CASE ~(cur < Len(rows))
  BY <1>2 DEF SelectedIn
<1> QED BY <1>1, <1>2

\* Looking up the selected row leaves everything of its kind.
LEMMA NeighborKinds ==
  ASSUME KindInv, NEW selected \in Ids \cup {None}, NEW pending \in SUBSET flight,
         NeighborCmd(selected, pending)
  PROVE  PaneKinds' /\ FlightKinds'
<1> DEFINE load == [kind |-> "loadNeighbors", id |-> selected]
<1>1. load.kind = "loadNeighbors" /\ load.id = selected
  OBVIOUS
<1>2. /\ pane' \in {None, pane} /\ neighborsFor' \in {None, neighborsFor}
      /\ \/ flight' = pending
         \/ flight' = pending \cup {load} /\ selected # None
  BY DEF NeighborCmd, detail
<1> HIDE DEF load
<1>3. selected # None => Carries(load)
  BY <1>1 DEF Carries
<1>4. \A m \in pending : Carries(m)
  BY DEF KindInv, FlightKinds
<1> QED BY <1>2, <1>3, <1>4 DEF KindInv, PaneKinds, FlightKinds, Ids

\* So does asking a question.
LEMMA AskedKinds ==
  ASSUME KindInv, NEW st, Statistics(st), NEW q \in Query, NEW s \in 1..4, NEW pending \in SUBSET flight,
         RunQuery(st, q, s, pending)
  PROVE  Statistics(stats') /\ query' = q /\ status' = s /\ FlightKinds'
<1> DEFINE a == Ask(seq + 1, st, q, StatusCycle[s])
<1>1. flight' = pending \cup {a} /\ stats' = st /\ query' = q /\ status' = s
  BY DEF RunQuery
<1>2. a.kind = "query" /\ a.query = q /\ a.stats = st
  BY DEF Ask
<1> HIDE DEF a
<1>3. Carries(a)
  BY <1>2 DEF Carries
<1> QED BY <1>1, <1>3 DEF KindInv, FlightKinds

\* The window follows the selection.
LEMMA ClampIs ==
  ASSUME NEW cur \in Nat, NEW off \in Nat, height \in Nat \ {0}
  PROVE  /\ ClampOffset(cur, off) \in Nat /\ ClampOffset(cur, off) <= cur
         /\ cur < ClampOffset(cur, off) + height
BY DEF ClampOffset

\* The selection moves and the window with it.
LEMMA ScreenMoves ==
  ASSUME ScreenKinds, NEW cur \in Nat, cur = 0 \/ cur < Len(results'), results' \in Seq(ResultRow),
         cursor' = cur, offset' = ClampOffset(cur, offset), UNCHANGED <<height, setting>>
  PROVE  ScreenKinds'
<1>1. height \in Nat \ {0} /\ offset \in Nat
  BY PickerConstants DEF ScreenKinds
<1>2. /\ ClampOffset(cur, offset) \in Nat /\ ClampOffset(cur, offset) <= cur
      /\ cur < ClampOffset(cur, offset) + height
  BY <1>1, ClampIs
<1> QED BY <1>2 DEF ScreenKinds

\* The selection goes back to the top.
LEMMA ScreenReset ==
  ASSUME ScreenKinds, cursor' = 0, offset' = 0, UNCHANGED <<results, height, setting>>
  PROVE  ScreenKinds'
<1>1. height \in Nat \ {0}
  BY PickerConstants DEF ScreenKinds
<1> QED BY <1>1 DEF ScreenKinds

\* A run that ends is the same run.
LEMMA RecordsEnd ==
  ASSUME Records(runs), NEW c \in Command, Ends(c)
  PROVE  Records(runs')
<1>1. PICK r \in Of(runs[c], {"running"}), o \in {"ok", "failed"} :
        runs' = [runs EXCEPT ![c] = (@ \ {r}) \cup {[r EXCEPT !.outcome = o]}]
  BY DEF Ends
<1>2. r \in runs[c] /\ r \in Run
  BY DEF Of, Records
<1> DEFINE e == [r EXCEPT !.outcome = o]
<1>3. e \in Run /\ e.start = r.start
  BY <1>2 DEF Run, Outcome
<1>4. runs' = [runs EXCEPT ![c] = (runs[c] \ {r}) \cup {e}]
  BY <1>1 DEF Records
<1> HIDE DEF e
<1>5. runs'[c] = (runs[c] \ {r}) \cup {e} /\ \A d \in Command \ {c} : runs'[d] = runs[d]
  BY <1>4 DEF Records
<1>6. runs' \in [Command -> SUBSET Run]
  BY <1>3, <1>4 DEF Records
<1>7. ASSUME NEW d \in Command, NEW u \in runs'[d]
      PROVE  \E v \in runs[d] : v.start = u.start /\ (u = v \/ (d = c /\ v = r /\ u = e))
  BY <1>2, <1>3, <1>5, <1>7
<1>8. ASSUME NEW d \in Command, NEW f \in Command, NEW u \in runs'[d], NEW v \in runs'[f], u.start = v.start
      PROVE  d = f /\ u = v
  <2>1. PICK u0 \in runs[d] : u0.start = u.start /\ (u = u0 \/ (d = c /\ u0 = r /\ u = e))
    BY <1>7
  <2>2. PICK v0 \in runs[f] : v0.start = v.start /\ (v = v0 \/ (f = c /\ v0 = r /\ v = e))
    BY <1>7
  <2>3. d = f /\ u0 = v0
    BY <1>8, <2>1, <2>2 DEF Records
  <2>4. ASSUME u = r, d = c PROVE u = e
    BY <1>5, <2>4
  <2>5. ASSUME v = r, f = c PROVE v = e
    BY <1>5, <2>5
  <2> QED BY <2>1, <2>2, <2>3, <2>4, <2>5
<1> QED BY <1>6, <1>8 DEF Records

\* A run that goes takes nothing else with it.
LEMMA RecordsRedacted ==
  ASSUME Records(runs), NEW c \in Command, Redacted(c)
  PROVE  Records(runs')
<1>1. PICK r \in runs[c] : runs' = [runs EXCEPT ![c] = runs[c] \ {r}]
  BY DEF Redacted, Records
<1>2. runs' \in [Command -> SUBSET Run]
  BY <1>1 DEF Records
<1>3. \A d \in Command : runs'[d] \in SUBSET runs[d]
  BY <1>1 DEF Records
<1> QED BY <1>2, <1>3 DEF Records

----------------------------------------------------------------------------
(* The steps.                                                              *)

LEMMA HistoryStep ==
  ASSUME KindInv, [Next]_vars
  PROVE  HistoryKinds'
<1> USE DEF KindInv, HistoryKinds
<1>1. CASE UNCHANGED <<database, stats>>
  BY <1>1 DEF database
<1>2. ASSUME NEW m \in flight, ReceiveStats(m) PROVE HistoryKinds'
  <2>1. UNCHANGED database /\ Statistics(m.stats)
    BY <1>2 DEF ReceiveStats, FlightKinds, Carries
  <2>2. stats' = m.stats \/ stats' = stats
    BY <1>2 DEF ReceiveStats, RunQuery
  <2> QED BY <2>1, <2>2 DEF database
<1>3. ASSUME NEW c \in Command, Ends(c) \/ Redacted(c) PROVE HistoryKinds'
  <2>1. Records(runs')
    BY <1>3, RecordsEnd, RecordsRedacted
  <2>2. UNCHANGED <<cached, stats>>
    BY <1>3 DEF Ends, Redacted, Changed, question
  <2> QED BY <2>1, <2>2
<1>4. CASE Refreshed
  BY <1>4 DEF Refreshed, Changed, question
<1>5. ASSUME NEW q, NEW c, EditQuery(q, c) PROVE UNCHANGED <<database, stats>>
  BY <1>5 DEF EditQuery, RunQuery
<1>6. ASSUME NEW m, Answer(m) \/ ReceiveResults(m) \/ ReceiveNeighbors(m) PROVE UNCHANGED <<database, stats>>
  BY <1>6 DEF Answer, ReceiveResults, ReceiveNeighbors, question
<1>7. ASSUME NEW d, Move(d) \/ Resize(d) PROVE UNCHANGED <<database, stats>>
  BY <1>7 DEF Move, Resize, question
<1>8. CASE MoveCaret \/ CycleStatus \/ Enter \/ Escape
  BY <1>1, <1>8 DEF MoveCaret, CycleStatus, Enter, Escape, RunQuery, question
<1>9. CASE UNCHANGED vars
  BY <1>1, <1>9 DEF vars, question
<1> QED BY <1>1, <1>2, <1>3, <1>4, <1>5, <1>6, <1>7, <1>8, <1>9, EditIs, Zenon DEF Next

LEMMA EditStep ==
  ASSUME KindInv, [Next]_vars
  PROVE  EditKinds'
<1>0. /\ query \in Query /\ Len(query) \in Nat /\ caret \in Nat /\ caret <= Len(query) /\ status \in 1..4
      /\ EditKinds
  BY QueryIs DEF KindInv, EditKinds
<1>1. CASE UNCHANGED <<query, caret, status>>
  BY <1>0, <1>1 DEF EditKinds
<1>2. ASSUME NEW m \in flight, ReceiveStats(m) PROVE UNCHANGED <<query, caret, status>>
  BY <1>2 DEF ReceiveStats, RunQuery
<1>3. CASE Edit
  <2>1. PICK q \in Query, c \in Nat : EditQuery(q, c)
    BY <1>0, <1>3, EditsQuery
  <2>2. query' = q /\ status' = status /\ caret' = IF c > Len(q) THEN Len(q) ELSE c
    BY <2>1 DEF EditQuery, RunQuery
  <2>3. Len(q) \in Nat
    BY QueryIs
  <2>4. caret' \in Nat /\ caret' <= Len(q)
    BY <2>2, <2>3
  <2> QED BY <1>0, <2>2, <2>4 DEF EditKinds
<1>4. CASE MoveCaret
  <2>1. UNCHANGED <<query, status>>
    BY <1>4 DEF MoveCaret
  <2>2. caret' \in Nat /\ caret' <= Len(query)
    BY <1>0, <1>4 DEF MoveCaret
  <2> QED BY <1>0, <2>1, <2>2 DEF EditKinds
<1>5. CASE CycleStatus
  <2>1. UNCHANGED <<query, caret>> /\ status' = (status % Len(StatusCycle)) + 1
    BY <1>5 DEF CycleStatus, RunQuery
  <2>2. Len(StatusCycle) = 4
    BY DEF StatusCycle
  <2>3. status' \in 1..4
    BY <1>0, <2>1, <2>2
  <2> QED BY <1>0, <2>1, <2>3 DEF EditKinds
<1>6. ASSUME NEW m, Answer(m) \/ ReceiveResults(m) \/ ReceiveNeighbors(m) PROVE UNCHANGED <<query, caret, status>>
  BY <1>6 DEF Answer, ReceiveResults, ReceiveNeighbors, question
<1>7. ASSUME NEW d, Move(d) \/ Resize(d) PROVE UNCHANGED <<query, caret, status>>
  BY <1>7 DEF Move, Resize, question
<1>8. CASE Enter \/ Escape \/ Changed
  BY <1>1, <1>8 DEF Enter, Escape, Changed, question
<1>9. CASE UNCHANGED vars
  BY <1>1, <1>9 DEF vars, question
<1> QED BY <1>1, <1>2, <1>3, <1>4, <1>5, <1>6, <1>7, <1>8, <1>9, Zenon DEF Next, Ends, Redacted, Refreshed

\* An arrow, the wheel or a page stays in the list.
LEMMA ScreenMovesBy ==
  ASSUME KindInv, NEW d \in Int, Move(d)
  PROVE  ScreenKinds'
<1>0. /\ ScreenKinds /\ results \in Seq(ResultRow) /\ cursor \in Nat /\ offset \in Nat
      /\ height \in Nat \ {0} /\ Len(results) \in Nat
  BY PickerConstants DEF KindInv, ScreenKinds
<1>1. UNCHANGED <<results, height, setting>>
  BY DEF Move, list
<1>2. CASE results = << >>
  BY <1>0, <1>1, <1>2 DEF Move, list, ScreenKinds
<1>3. CASE results # << >>
  <2> DEFINE cur == IF cursor + d < 0 THEN 0
                    ELSE IF cursor + d >= Len(results) THEN Len(results) - 1 ELSE cursor + d
  <2>1. cursor' = cur /\ offset' = ClampOffset(cur, offset)
    BY <1>3 DEF Move
  <2>2. Len(results) # 0
    BY <1>0, <1>3
  <2>3. cur \in Nat /\ cur < Len(results)
    BY <1>0, <2>2
  <2> HIDE DEF cur
  <2> QED BY <1>0, <1>1, <2>1, <2>3, ScreenMoves
<1> QED BY <1>2, <1>3

LEMMA ScreenStep ==
  ASSUME KindInv, [Next]_vars
  PROVE  ScreenKinds'
<1>0. /\ ScreenKinds /\ results \in Seq(ResultRow) /\ cursor \in Nat /\ offset \in Nat
      /\ height \in Nat \ {0} /\ Len(results) \in Nat
  BY PickerConstants DEF KindInv, ScreenKinds
<1>1. CASE UNCHANGED <<results, cursor, offset, height, setting>>
  BY <1>0, <1>1 DEF ScreenKinds
<1>2. ASSUME NEW m \in flight, ReceiveResults(m) PROVE ScreenKinds'
  <2>1. UNCHANGED <<height, setting>> /\ m.kind = "results"
    BY <1>2 DEF ReceiveResults
  <2>2. CASE m.seq # seq
    BY <1>1, <1>2, <2>1, <2>2 DEF ReceiveResults, list
  <2>3. CASE m.seq = seq
    <3> DEFINE n == Len(m.cmds)
               cur == IF cursor < n THEN cursor ELSE IF n = 0 THEN 0 ELSE n - 1
    <3>1. results' = m.cmds /\ cursor' = cur /\ offset' = ClampOffset(cur, offset)
      BY <1>2, <2>3 DEF ReceiveResults
    <3>2. m.cmds \in Seq(ResultRow) /\ n \in Nat
      BY <2>1 DEF KindInv, FlightKinds, Carries
    <3>3. cur \in Nat /\ (cur = 0 \/ cur < n)
      BY <1>0, <3>2
    <3> HIDE DEF cur
    <3> QED BY <1>0, <2>1, <3>1, <3>2, <3>3, ScreenMoves
  <2> QED BY <2>2, <2>3
<1>3. ASSUME NEW q, NEW c, EditQuery(q, c) PROVE ScreenKinds'
  <2>1. UNCHANGED <<results, height, setting>>
    BY <1>3 DEF EditQuery, list
  <2>2. (cursor' = 0 /\ offset' = 0) \/ UNCHANGED <<cursor, offset>>
    BY <1>3 DEF EditQuery, list
  <2> QED BY <1>0, <1>1, <2>1, <2>2, ScreenReset
<1>4. CASE CycleStatus
  BY <1>0, <1>4, ScreenReset DEF CycleStatus
<1>5. ASSUME NEW d \in Int, Move(d) PROVE ScreenKinds'
  BY <1>5, ScreenMovesBy
<1>6. ASSUME NEW h \in Heights, Resize(h) PROVE ScreenKinds'
  <2>1. UNCHANGED <<results, cursor, offset, setting>> /\ "resize" \in setting /\ height' = h
    BY <1>6 DEF Resize, list
  <2> QED BY <1>0, <2>1 DEF ScreenKinds
<1>7. ASSUME NEW m, Answer(m) \/ ReceiveStats(m) \/ ReceiveNeighbors(m)
      PROVE  UNCHANGED <<results, cursor, offset, height, setting>>
  BY <1>7 DEF Answer, ReceiveStats, ReceiveNeighbors, list
<1>8. CASE MoveCaret \/ Enter \/ Escape \/ Changed
  BY <1>1, <1>8 DEF MoveCaret, Enter, Escape, Changed, list
<1>9. CASE UNCHANGED vars
  BY <1>1, <1>9 DEF vars, list
<1>10. \A d \in {-height, -3, -1, 1, 3, height} : d \in Int
  BY <1>0
<1> QED BY <1>1, <1>2, <1>3, <1>4, <1>5, <1>6, <1>7, <1>8, <1>9, <1>10, EditIs, Zenon DEF Next, Ends, Redacted, Refreshed

LEMMA PaneFlightStep ==
  ASSUME Sizes, KindInv, [Next]_vars
  PROVE  PaneKinds' /\ FlightKinds'
<1>0. /\ PaneKinds /\ FlightKinds /\ Records(runs) /\ Records(cached) /\ Statistics(stats)
      /\ query \in Query /\ status \in 1..4
      /\ results \in Seq(ResultRow) /\ cursor \in Nat
  BY DEF KindInv, HistoryKinds, EditKinds, ScreenKinds
<1>1. CASE UNCHANGED <<pane, neighborsFor, flight>>
  BY <1>0, <1>1 DEF PaneKinds, FlightKinds
<1>2. ASSUME UNCHANGED <<pane, neighborsFor>> PROVE PaneKinds'
  BY <1>0, <1>2 DEF PaneKinds
<1>3. ASSUME flight' \in SUBSET flight PROVE FlightKinds'
  BY <1>0, <1>3 DEF FlightKinds
<1>4. ASSUME NEW m \in flight, Answer(m) PROVE PaneKinds' /\ FlightKinds'
  <2>1. UNCHANGED <<pane, neighborsFor>>
    BY <1>4 DEF Answer, detail
  <2>2. PICK n :
           /\ flight' = (flight \ {m}) \cup {n}
           /\ \/ /\ m.kind = "query" /\ n.kind = "results" /\ n.seq = m.seq
                 /\ n.cmds = << >> \/ n.cmds = Ranked(m)
              \/ /\ m.kind = "load" /\ n.kind = "stats"
                 /\ n.stats = << >> \/ n.stats = CommandStats(StatsLimit)
              \/ /\ m.kind = "loadNeighbors" /\ n.kind = "neighbors" /\ n.id = m.id
    BY <1>4, Messages DEF AnsweredAs
  <2>3. Carries(m)
    BY <1>0 DEF FlightKinds
  <2>4. CASE m.kind = "query"
    <3>1. n.kind = "results" /\ (n.cmds = << >> \/ n.cmds = Ranked(m))
      BY <2>2, <2>4
    <3>2. Ranked(m) \in Seq(ResultRow)
      BY <1>0, <2>3, <2>4, RowsRanked DEF Carries
    <3>3. n.cmds \in Seq(ResultRow)
      <4>1. << >> \in Seq(ResultRow)
        OBVIOUS
      <4> QED BY <3>1, <3>2, <4>1, Zenon
    <3> QED BY <1>0, <1>2, <2>1, <2>2, <3>1, <3>3 DEF FlightKinds, Carries
  <2>5. CASE m.kind = "load"
    <3>1. n.kind = "stats" /\ (n.stats = << >> \/ n.stats = CommandStats(StatsLimit))
      BY <2>2, <2>5
    <3>2. Statistics(n.stats)
      BY <1>0, <3>1, StatisticsRead, NoStatistics
    <3> QED BY <1>0, <1>2, <2>1, <2>2, <3>1, <3>2 DEF FlightKinds, Carries
  <2>6. CASE m.kind = "loadNeighbors"
    <3>1. n.kind = "neighbors" /\ n.id \in Ids
      BY <2>2, <2>3, <2>6 DEF Carries
    <3> QED BY <1>0, <1>2, <2>1, <2>2, <3>1 DEF FlightKinds, Carries
  <2> QED BY <2>2, <2>4, <2>5, <2>6
<1>5. ASSUME NEW m \in flight, ReceiveResults(m) PROVE PaneKinds' /\ FlightKinds'
  <2>1. CASE m.seq # seq
    <3>1. UNCHANGED <<pane, neighborsFor>> /\ flight' = flight \ {m}
      BY <1>5, <2>1 DEF ReceiveResults, detail
    <3> QED BY <1>2, <1>3, <3>1
  <2>2. CASE m.seq = seq
    <3> DEFINE n == Len(m.cmds)
               cur == IF cursor < n THEN cursor ELSE IF n = 0 THEN 0 ELSE n - 1
    <3>1. NeighborCmd(SelectedIn(m.cmds, cur), flight \ {m}) /\ m.kind = "results"
      BY <1>5, <2>2 DEF ReceiveResults
    <3>2. m.cmds \in Seq(ResultRow) /\ n \in Nat
      BY <1>0, <3>1 DEF FlightKinds, Carries
    <3>3. cur \in Nat
      BY <1>0, <3>2
    <3> HIDE DEF cur
    <3>4. SelectedIn(m.cmds, cur) \in Ids \cup {None}
      BY <3>2, <3>3, SelectedKind
    <3>5. flight \ {m} \in SUBSET flight
      OBVIOUS
    <3> QED BY <3>1, <3>4, <3>5, NeighborKinds
  <2> QED BY <2>1, <2>2
<1>6. ASSUME NEW m \in flight, ReceiveNeighbors(m) PROVE PaneKinds' /\ FlightKinds'
  <2>1. m.kind = "neighbors" /\ flight' = flight \ {m}
    BY <1>6 DEF ReceiveNeighbors
  <2>2. m.id \in Ids
    BY <1>0, <2>1 DEF FlightKinds, Carries
  <2>3. pane' \in {m.id, None, pane} /\ neighborsFor' \in {m.id, neighborsFor}
    BY <1>6 DEF ReceiveNeighbors, detail
  <2>4. PaneKinds'
    BY <1>0, <2>2, <2>3 DEF PaneKinds
  <2> QED BY <1>3, <2>1, <2>4
<1>7. ASSUME NEW m \in flight, ReceiveStats(m) PROVE PaneKinds' /\ FlightKinds'
  <2>1. UNCHANGED <<pane, neighborsFor>> /\ m.kind = "stats"
    BY <1>7 DEF ReceiveStats, detail
  <2>2. Statistics(m.stats)
    BY <1>0, <2>1 DEF FlightKinds, Carries
  <2>3. RunQuery(m.stats, query, status, flight \ {m}) \/ flight' = flight \ {m}
    BY <1>7 DEF ReceiveStats
  <2>4. flight \ {m} \in SUBSET flight
    OBVIOUS
  <2>5. FlightKinds'
    BY <1>0, <1>3, <2>2, <2>3, <2>4, AskedKinds
  <2> QED BY <1>2, <2>1, <2>5
<1>8. CASE Edit
  <2>1. PICK q \in Query, c \in Nat : EditQuery(q, c)
    BY <1>8, EditsQuery DEF KindInv
  <2>2. UNCHANGED <<pane, neighborsFor>>
    BY <2>1 DEF EditQuery, detail
  <2>3. RunQuery(stats, q, status, flight) \/ UNCHANGED flight
    BY <2>1 DEF EditQuery
  <2>4. flight \in SUBSET flight
    OBVIOUS
  <2>5. FlightKinds'
    BY <1>0, <1>3, <2>3, <2>4, AskedKinds
  <2> QED BY <1>2, <2>2, <2>5
<1>9. CASE CycleStatus
  <2>1. UNCHANGED <<pane, neighborsFor>> /\ RunQuery(stats, query, (status % Len(StatusCycle)) + 1, flight)
    BY <1>9 DEF CycleStatus, detail
  <2>2. Len(StatusCycle) = 4
    BY DEF StatusCycle
  <2>3. (status % Len(StatusCycle)) + 1 \in 1..4
    BY <1>0, <2>2
  <2>4. flight \in SUBSET flight
    OBVIOUS
  <2> QED BY <1>0, <1>2, <2>1, <2>3, <2>4, AskedKinds
<1>10. ASSUME NEW d \in Int, Move(d) PROVE PaneKinds' /\ FlightKinds'
  <2>1. NeighborCmd(SelectedIn(results, cursor'), flight)
    BY <1>10 DEF Move
  <2>2. cursor' \in Nat
    <3>1. ScreenKinds'
      BY <1>10, ScreenMovesBy
    <3> QED BY <3>1 DEF ScreenKinds
  <2>3. SelectedIn(results, cursor') \in Ids \cup {None}
    BY <1>0, <2>2, SelectedKind
  <2>4. flight \in SUBSET flight
    OBVIOUS
  <2> QED BY <2>1, <2>3, <2>4, NeighborKinds
<1>11. CASE Enter \/ Escape
  <2>1. UNCHANGED <<pane, neighborsFor>> /\ flight' = {}
    BY <1>11 DEF Enter, Escape, detail
  <2> QED BY <1>2, <1>3, <2>1
<1>12. ASSUME NEW d, Resize(d) PROVE UNCHANGED <<pane, neighborsFor, flight>>
  BY <1>12 DEF Resize, detail
<1>13. CASE MoveCaret \/ Changed
  BY <1>1, <1>13 DEF MoveCaret, Changed, detail
<1>14. CASE UNCHANGED vars
  BY <1>1, <1>14 DEF vars, detail
<1>15. \A d \in {-height, -3, -1, 1, 3, height} : d \in Int
  BY PickerConstants DEF KindInv, ScreenKinds
<1> QED BY <1>1, <1>4, <1>5, <1>6, <1>7, <1>8, <1>9, <1>10, <1>11, <1>12, <1>13, <1>14, <1>15, Zenon
        DEF Next, Ends, Redacted, Refreshed

LEMMA KindStep ==
  ASSUME Sizes, KindInv, [Next]_vars
  PROVE  KindInv'
BY HistoryStep, EditStep, ScreenStep, PaneFlightStep DEF KindInv

----------------------------------------------------------------------------
(* The best match first.                                                   *)

StillInv == "change" \notin setting => runs = cached

LEMMA StillInit == Init => StillInv
BY DEF Init, StillInv

\* Nothing but another process changes the history.
LEMMA StillStep ==
  ASSUME StillInv, [Next]_vars
  PROVE  StillInv'
<1> USE DEF StillInv
<1>1. CASE UNCHANGED <<database, setting>>
  BY <1>1 DEF database
<1>2. CASE Changed
  BY <1>2 DEF Changed
<1>3. ASSUME NEW m, Answer(m) \/ ReceiveResults(m) \/ ReceiveNeighbors(m) \/ ReceiveStats(m)
      PROVE  UNCHANGED <<database, setting>>
  BY <1>3 DEF Answer, ReceiveResults, ReceiveNeighbors, ReceiveStats
<1>4. ASSUME NEW q, NEW c, EditQuery(q, c) PROVE UNCHANGED <<database, setting>>
  BY <1>4 DEF EditQuery
<1>5. ASSUME NEW d, Move(d) \/ Resize(d) PROVE UNCHANGED <<database, setting>>
  BY <1>5 DEF Move, Resize
<1>6. CASE MoveCaret \/ CycleStatus \/ Enter \/ Escape
  BY <1>1, <1>6 DEF MoveCaret, CycleStatus, Enter, Escape
<1>7. CASE UNCHANGED vars
  BY <1>1, <1>7 DEF vars
<1> QED BY <1>1, <1>2, <1>3, <1>4, <1>5, <1>6, <1>7, EditIs, Zenon DEF Next, Ends, Redacted, Refreshed

\* The row the database has for a text is its last run.
LastRun(c) == CHOOSE r \in runs[c] : r.start = Latest(runs[c])

LEMMA RowIsLast ==
  ASSUME Records(runs), runs = cached, NEW c \in Command, runs[c] # {}
  PROVE  Found[c].row = {LastRun(c)} /\ LastRun(c) \in runs[c]
<1>1. runs[c] \in SUBSET Run
  BY DEF Records
<1>2. \E r \in runs[c] : r.start = Latest(runs[c])
  BY <1>1, LatestIs
<1>3. LastRun(c) \in runs[c] /\ LastRun(c).start = Latest(runs[c])
  BY <1>2 DEF LastRun
<1>4. \A r \in runs[c] : r.start = Latest(runs[c]) => r = LastRun(c)
  BY <1>3 DEF Records
<1>5. Found[c].row = {r \in runs[c] : cached[c] # {} /\ r.start = Latest(cached[c])}
  BY DEF Found
<1> QED BY <1>3, <1>4, <1>5

\* A command whose last run has the status filtered for is not ruled out by
\* its counts, but for one that was only ever interrupted.
LEMMA RuledOut ==
  ASSUME NEW rs, NEW r \in rs, r.outcome \in Outcome,
         NEW filter \in {"", "running", "failed", "orphaned"},
         StatusMatches(r, filter), ~StatusPossible(rs, filter)
  PROVE  Of(rs, {"failed", "neverRan"}) = {} /\ filter = "failed"
<1>1. CASE filter = ""
  BY <1>1 DEF StatusPossible
<1>2. CASE filter \in {"running", "orphaned"}
  <2>1. StatusOf(r) = filter
    BY <1>2 DEF StatusMatches
  <2>2. r.outcome \in {"running", "orphaned"}
    BY <1>2, <2>1 DEF StatusOf, Outcome
  <2>3. Of(rs, {"running", "orphaned", "imported"}) = {}
    BY <1>2 DEF StatusPossible
  <2> QED BY <2>2, <2>3 DEF Of
<1>3. CASE filter = "failed"
  BY <1>3 DEF StatusPossible
<1> QED BY <1>1, <1>2, <1>3

\* The list read from the statistics is the best matches first.
LEMMA ListIsBest ==
  ASSUME Sizes, KindInv, ListInv, StillInv
  PROVE  BestMatchFirst
<1> DEFINE filter == StatusCycle[status]
           listed == {results[i].command : i \in DOMAIN results}
           matches(c) == Quality(c) # TierNone /\ StatusMatches(LastRun(c), filter)
           better(c) == {d \in DOMAIN stats \ {c} :
                           StatusPossible(stats[d], filter) /\ Quality(d) >= Quality(c)}
           ordered == \A i, j \in DOMAIN results : i < j =>
                        /\ Quality(results[i].command) >= Quality(results[j].command)
                        /\ Tokens(query) = << >> =>
                             Latest(runs[results[i].command]) > Latest(runs[results[j].command])
           true == \A c \in listed : matches(c)
           complete == \A c \in DOMAIN stats \ listed : matches(c) =>
                         \/ Cardinality(better(c)) >= RefineCandidates
                         \/ Of(runs[c], {"failed", "neverRan"}) = {} /\ filter = "failed"
<1> SUFFICES ASSUME Steady, open, ~Awaited PROVE ordered /\ true /\ complete
  BY Zenon DEF BestMatchFirst, Steady, LastRun
<1> DEFINE match == MatchOf(query)
           blank == Tokens(query) = << >>
<1>1. Records(runs) /\ Records(cached) /\ Statistics(stats) /\ query \in Query /\ status \in 1..4
  BY DEF KindInv, HistoryKinds, EditKinds
<1>2. runs = cached
  BY DEF StillInv, Steady
<1>3. RankedList(results, stats, match, blank, Found, filter)
  <2>1. results = Ranked(AskNow)
    BY DEF ListInv
  <2>2. AskNow.stats = stats /\ AskNow.query = query /\ AskNow.status = filter
    BY DEF AskNow, Ask
  <2> HIDE DEF AskNow, filter
  <2>3. RankedList(Ranked(AskNow), AskNow.stats, MatchOf(AskNow.query), Tokens(AskNow.query) = << >>,
                   Found, AskNow.status)
    BY <1>1, <2>2, RowsRanked
  <2> QED BY <2>1, <2>2, <2>3
<1>4. filter \in {"", "running", "failed", "orphaned"}
  <2>1. status = 1 \/ status = 2 \/ status = 3 \/ status = 4
    BY <1>1
  <2>2. /\ StatusCycle[1] = "" /\ StatusCycle[2] = "running"
        /\ StatusCycle[3] = "failed" /\ StatusCycle[4] = "orphaned"
    BY DEF StatusCycle
  <2> QED BY <2>1, <2>2
<1>5. ASSUME NEW c \in Command
      PROVE  Quality(c) = match[c].tier /\ Quality(c) \in 0..3 /\ (blank => Quality(c) = TierPrefix)
  BY <1>1, MatchesIs, MatchCommandIs, QualityIs
<1>6. ASSUME NEW c \in DOMAIN stats PROVE c \in Command /\ stats[c] = runs[c] /\ runs[c] # {}
  <2>1. PICK n : stats = CommandStats(n)
    BY DEF ListInv
  <2>2. CommandStats(n)[c] = cached[c]
    BY <2>1 DEF CommandStats
  <2>3. c \in Command /\ stats[c] # {}
    BY <1>1 DEF Statistics
  <2> QED BY <1>2, <2>1, <2>2, <2>3
<1>7. ASSUME NEW c \in DOMAIN stats
      PROVE  LastRun(c) \in runs[c] /\ (Shows(Found, c, filter) <=> StatusMatches(LastRun(c), filter))
  <2>1. Found[c].row = {LastRun(c)} /\ LastRun(c) \in runs[c]
    BY <1>1, <1>2, <1>6, RowIsLast
  <2> QED BY <2>1 DEF Shows
<1> HIDE DEF match, blank, filter
<1>8. ASSUME NEW i \in DOMAIN results
      PROVE  /\ results[i].command \in DOMAIN stats /\ match[results[i].command].tier # TierNone
             /\ Shows(Found, results[i].command, filter)
  BY <1>3 DEF RankedList
<1>9. ordered
  <2> SUFFICES ASSUME NEW i \in DOMAIN results, NEW j \in DOMAIN results, i < j
               PROVE  /\ Quality(results[i].command) >= Quality(results[j].command)
                      /\ blank => Latest(runs[results[i].command]) > Latest(runs[results[j].command])
    BY DEF blank
  <2> DEFINE c == results[i].command
             d == results[j].command
  <2>1. /\ match[c].tier >= match[d].tier
        /\ blank /\ match[c].tier = match[d].tier => Latest(stats[c]) > Latest(stats[d])
    BY <1>3 DEF RankedList
  <2>2. c \in DOMAIN stats /\ d \in DOMAIN stats
    BY <1>8
  <2> HIDE DEF c, d
  <2>3. /\ stats[c] = runs[c] /\ stats[d] = runs[d]
        /\ Quality(c) = match[c].tier /\ Quality(d) = match[d].tier
        /\ blank => Quality(c) = Quality(d)
    BY <1>5, <1>6, <2>2
  <2>4. Quality(c) >= Quality(d) /\ (blank => Latest(runs[c]) > Latest(runs[d]))
    BY <2>1, <2>3
  <2> QED BY <2>4 DEF c, d
<1>10. true
  <2> SUFFICES ASSUME NEW i \in DOMAIN results PROVE matches(results[i].command)
    OBVIOUS
  <2> QED BY <1>5, <1>6, <1>7, <1>8
<1>11. complete
  <2> SUFFICES ASSUME NEW c \in DOMAIN stats, c \notin listed, matches(c)
               PROVE  \/ Cardinality(better(c)) >= RefineCandidates
                      \/ Of(runs[c], {"failed", "neverRan"}) = {} /\ filter = "failed"
    OBVIOUS
  <2>1. c \in Command /\ stats[c] = runs[c] /\ Shows(Found, c, filter) /\ LastRun(c) \in runs[c]
    BY <1>6, <1>7
  <2>2. CASE StatusPossible(stats[c], filter)
    <3>1. c \in Possible(stats, match, filter)
      BY <1>5, <2>1, <2>2 DEF Possible
    <3>2. ~ \E i \in DOMAIN results : results[i].command = c
      OBVIOUS
    <3>3. Cardinality(Rivals(stats, match, filter, c)) >= RefineCandidates
      <4> HIDE DEF listed, matches
      <4> QED BY <1>3, <2>1, <3>1, <3>2 DEF RankedList
    <3>4. \A d \in DOMAIN stats : Quality(d) = match[d].tier
      BY <1>5, <1>6
    <3>5. Rivals(stats, match, filter, c) = better(c)
      BY <3>4 DEF Rivals
    <3> QED BY <3>3, <3>5
  <2>3. CASE ~StatusPossible(stats[c], filter)
    <3>1. LastRun(c).outcome \in Outcome
      BY <1>1, <2>1 DEF Records, Run
    <3> QED BY <1>4, <2>1, <2>3, <3>1, RuledOut
  <2> QED BY <2>2, <2>3
<1> QED BY <1>9, <1>10, <1>11

----------------------------------------------------------------------------
(* The theorems.                                                           *)

\* The inductive invariant: what is in flight, the list, the pane and the
\* question shown agree with each other.
Agreement == FlightInv /\ ListInv /\ PaneInv /\ ShownInv

THEOREM Invariance == Sizes => (Spec => []Agreement)
<1> SUFFICES ASSUME Sizes PROVE Spec => []Agreement
  OBVIOUS
<1>1. Init => Agreement
  BY FlightInit, ListInit, PaneInit, ShownInit DEF Agreement
<1>2. Agreement /\ [Next]_vars => Agreement'
  BY FlightStep, ListStep, PaneStep, ShownStep DEF Agreement
<1> QED BY <1>1, <1>2, PTL DEF Spec

\* Everything the picker holds, shows or has in flight is of its kind.
THEOREM KindsKept == Sizes => (Spec => [](KindInv /\ StillInv))
<1> SUFFICES ASSUME Sizes PROVE Spec => [](KindInv /\ StillInv)
  OBVIOUS
<1>1. Init => KindInv /\ StillInv
  BY KindInit, StillInit
<1>2. KindInv /\ StillInv /\ [Next]_vars => (KindInv /\ StillInv)'
  BY KindStep, StillStep
<1> QED BY <1>1, <1>2, PTL DEF Spec

\* The caret stays in the query, the cursor in the list and the selected row
\* on the screen (tui.go: editQuery, clampOffset), whatever arrives when.
THEOREM PickerTyped == Sizes => (Spec => []TypeOK)
<1>1. KindInv => TypeOK
  BY KindsAreTypes
<1> QED BY <1>1, KindsKept, PTL

\* The list has the better matches first and leaves none out that it looked
\* up (rank.go, ranking.go), for any history, query and filter.
THEOREM BetterMatchesFirst == Sizes => (Spec => []BestMatchFirst)
<1> SUFFICES ASSUME Sizes PROVE Spec => []BestMatchFirst
  OBVIOUS
<1>1. KindInv /\ Agreement /\ StillInv => BestMatchFirst
  BY ListIsBest DEF Agreement
<1> QED BY <1>1, Invariance, KindsKept, PTL

\* The list answers the question on the screen unless its answer is awaited
\* (tui.go: seq), for any history, query and order of messages.
THEOREM ListIsCurrent == Sizes => (Spec => []ListAnswersQuery)
<1>1. Agreement => ListAnswersQuery
  BY DEF Agreement, ListInv, ListAnswersQuery, Steady, Loading, AskNow
<1> QED BY <1>1, Invariance, PTL

\* The session shown and the one remembered are never another row's, and with
\* keys that wait for the screen and reads that succeed it is shown (tui.go:
\* neighborsMsg, neighborCmd).
THEOREM PaneShowsSelected == Sizes => (Spec => []PaneFollows)
<1>1. Agreement => PaneBelongs
  BY DEF Agreement, PaneInv
<1>2. Agreement => PaneIsRemembered
  BY DEF Agreement, PaneInv, PaneIsRemembered, LookedUp, Reading
<1>3. Agreement => PaneIsFilled
  BY DEF Agreement, PaneInv, PaneIsFilled, Calm, LookedUp, Awaited
<1> QED BY <1>1, <1>2, <1>3, Invariance, PTL DEF PaneFollows

\* An acceptance is logged with its rank in the list it was taken from, whose
\* question is the one on the screen unless keys were pressed ahead of its
\* answer (tui.go: recordAcceptance).
THEOREM AcceptancesAreRanked == Sizes => (Spec => []AcceptanceIsRanked)
<1> SUFFICES ASSUME Sizes PROVE Spec => []AcceptanceIsRanked
  OBVIOUS
<1>1. Init => AcceptInv
  BY AcceptInit
<1>2. Agreement /\ KindInv /\ AcceptInv /\ [Next]_vars => AcceptInv'
  BY AcceptStep DEF Agreement, KindInv, ScreenKinds
<1>3. AcceptInv => AcceptanceIsRanked
  BY DEF AcceptInv
<1> QED BY <1>1, <1>2, <1>3, Invariance, KindsKept, PTL DEF Spec

=============================================================================
