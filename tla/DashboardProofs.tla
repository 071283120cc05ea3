------------------------------ MODULE DashboardProofs ------------------------
(***************************************************************************)
(* Proofs about Dashboard: its types, and that the page shows what the     *)
(* database holds or has it on its way.  They hold for any number of       *)
(* commands, events and requests, any buffer and any LIMIT, and whatever   *)
(* sets of conditions the behaviours are subject to.                       *)
(***************************************************************************)
EXTENDS DashboardProperties, FiniteSetTheorems, SequenceTheorems, TLAPS

(* Versions.                                                               *)

\* A version counts events of the log, so it is at most its length.
LEMMA VersionBound ==
  ASSUME NEW l \in Seq(Command), NEW c
  PROVE  VersionIn(l, c) \in Nat /\ VersionIn(l, c) <= Len(l)
<1> DEFINE S == {i \in DOMAIN l : l[i] = c}
<1>1. Len(l) \in Nat /\ DOMAIN l = 1..Len(l)
  OBVIOUS
<1>2. IsFiniteSet(1..Len(l)) /\ Cardinality(1..Len(l)) = Len(l)
  <2>1. IsFiniteSet(1..Len(l))
        /\ Cardinality(1..Len(l)) = IF 1 > Len(l) THEN 0 ELSE Len(l) - 1 + 1
    BY <1>1, FS_Interval
  <2> QED
    BY <1>1, <2>1
<1>3. S \in SUBSET (1..Len(l))
  BY <1>1
<1>4. IsFiniteSet(S) /\ Cardinality(S) <= Cardinality(1..Len(l))
  BY <1>2, <1>3, FS_Subset
<1>5. Cardinality(S) \in Nat
  BY <1>4, FS_CardinalityType
<1> QED
  BY <1>2, <1>4, <1>5 DEF VersionIn

\* The set a version counts is finite.
LEMMA VersionFinite ==
  ASSUME NEW l \in Seq(Command), NEW c
  PROVE  IsFiniteSet({i \in DOMAIN l : l[i] = c})
<1>1. Len(l) \in Nat /\ DOMAIN l = 1..Len(l)
  OBVIOUS
<1>2. IsFiniteSet(1..Len(l))
  BY <1>1, FS_Interval
<1>3. {i \in DOMAIN l : l[i] = c} \in SUBSET (1..Len(l))
  BY <1>1
<1> QED
  BY <1>2, <1>3, FS_Subset

\* An event moves its own command's version by one, and no other.
LEMMA VersionAppend ==
  ASSUME NEW l \in Seq(Command), NEW d \in Command, NEW c
  PROVE  VersionIn(Append(l, d), c) = IF d = c THEN VersionIn(l, c) + 1 ELSE VersionIn(l, c)
<1> DEFINE S == {i \in DOMAIN l : l[i] = c}
           n == Len(l) + 1
           T == {i \in DOMAIN Append(l, d) : Append(l, d)[i] = c}
<1>1. /\ Len(l) \in Nat /\ DOMAIN l = 1..Len(l) /\ DOMAIN Append(l, d) = 1..n
      /\ \A i \in 1..Len(l) : Append(l, d)[i] = l[i]
      /\ Append(l, d)[n] = d
  <2>1. Append(l, d) \in Seq(Command) /\ Len(Append(l, d)) = Len(l) + 1
        /\ \A i \in 1..Len(l) : Append(l, d)[i] = l[i]
        /\ Append(l, d)[Len(l) + 1] = d
    BY AppendProperties
  <2> QED
    BY <2>1
<1>2. n \notin S /\ IsFiniteSet(S)
  <2>1. IsFiniteSet(S)
    BY Zenon, VersionFinite
  <2>2. n \notin S
    BY <1>1
  <2> QED
    BY <2>1, <2>2
<1>3. CASE d = c
  <2>1. T = S \cup {n}
    BY <1>1, <1>3
  <2>2. Cardinality(S \cup {n}) = Cardinality(S) + 1
    BY <1>2, FS_AddElement
  <2> QED
    BY <1>3, <2>1, <2>2 DEF VersionIn
<1>4. CASE d # c
  <2>1. T = S
    BY <1>1, <1>4
  <2> QED
    BY <1>4, <2>1 DEF VersionIn
<1> QED
  BY <1>3, <1>4

\* A command with an event has a row.
LEMMA VersionSeen ==
  ASSUME NEW l \in Seq(Command), NEW c, NEW i \in DOMAIN l, l[i] = c
  PROVE  VersionIn(l, c) > 0
<1> DEFINE S == {j \in DOMAIN l : l[j] = c}
<1>1. S # {} /\ IsFiniteSet(S)
  BY VersionFinite
<1>2. Cardinality(S) # 0 /\ Cardinality(S) \in Nat
  BY <1>1, FS_EmptySet, FS_CardinalityType
<1> QED
  BY <1>2 DEF VersionIn

\* What the broker has read of the log, as a set of rowids.
LEMMA PrefixVersion ==
  ASSUME NEW l \in Seq(Command), NEW m \in 0..Len(l), NEW c
  PROVE  VersionIn(SubSeq(l, 1, m), c) = Cardinality({i \in 1..m : l[i] = c})
<1>1. SubSeq(l, 1, m) \in Seq(Command) /\ Len(SubSeq(l, 1, m)) = m
      /\ \A i \in 1..m : SubSeq(l, 1, m)[i] = l[i]
  <2>1. m \in Int /\ 1 \in Int /\ m \in Nat /\ \A i \in 1..m : l[i] \in Command
    OBVIOUS
  <2>2. /\ SubSeq(l, 1, m) \in Seq(Command)
        /\ Len(SubSeq(l, 1, m)) = IF 1 <= m THEN m - 1 + 1 ELSE 0
        /\ \A i \in 1..(m - 1 + 1) : SubSeq(l, 1, m)[i] = l[1 + i - 1]
    BY <2>1, SubSeqProperties
  <2> QED
    BY <2>1, <2>2
<1>2. DOMAIN SubSeq(l, 1, m) = 1..m
  BY <1>1
<1>3. {i \in DOMAIN SubSeq(l, 1, m) : SubSeq(l, 1, m)[i] = c} = {i \in 1..m : l[i] = c}
  BY <1>1, <1>2
<1> QED
  BY <1>3 DEF VersionIn

\* The broker has read no more of a command than there is.
LEMMA PrefixBelow ==
  ASSUME NEW l \in Seq(Command), NEW m \in 0..Len(l), NEW c
  PROVE  VersionIn(SubSeq(l, 1, m), c) <= VersionIn(l, c)
<1> DEFINE S == {i \in DOMAIN l : l[i] = c}
           T == {i \in 1..m : l[i] = c}
<1>1. IsFiniteSet(S)
  BY Zenon, VersionFinite
<1>2. T \in SUBSET S
  OBVIOUS
<1>3. Cardinality(T) <= Cardinality(S)
  BY <1>1, <1>2, FS_Subset
<1>4. VersionIn(SubSeq(l, 1, m), c) = Cardinality(T)
  BY Zenon, PrefixVersion
<1> QED
  BY <1>3, <1>4 DEF VersionIn

\* A new event is not among those the broker has read.
LEMMA PrefixAppend ==
  ASSUME NEW l \in Seq(Command), NEW m \in 0..Len(l), NEW d \in Command, NEW c
  PROVE  VersionIn(SubSeq(Append(l, d), 1, m), c) = VersionIn(SubSeq(l, 1, m), c)
<1>1. /\ Append(l, d) \in Seq(Command) /\ m \in 0..Len(Append(l, d))
      /\ \A i \in 1..m : Append(l, d)[i] = l[i]
  <2>1. /\ Append(l, d) \in Seq(Command) /\ Len(Append(l, d)) = Len(l) + 1
        /\ \A i \in 1..Len(l) : Append(l, d)[i] = l[i]
    BY AppendProperties
  <2> QED
    BY <2>1
<1>2. {i \in 1..m : Append(l, d)[i] = c} = {i \in 1..m : l[i] = c}
  BY <1>1
<1>3. VersionIn(SubSeq(Append(l, d), 1, m), c) = Cardinality({i \in 1..m : Append(l, d)[i] = c})
  BY <1>1, PrefixVersion
<1> QED
  BY <1>2, <1>3, PrefixVersion

\* Reading events of others leaves what was read of a command.
LEMMA PrefixQuiet ==
  ASSUME NEW l \in Seq(Command), NEW m \in 0..Len(l), NEW n \in m..Len(l), NEW c,
         \A i \in (m + 1)..n : l[i] # c
  PROVE  VersionIn(SubSeq(l, 1, n), c) = VersionIn(SubSeq(l, 1, m), c)
<1>1. n \in 0..Len(l)
  OBVIOUS
<1>2. {i \in 1..n : l[i] = c} = {i \in 1..m : l[i] = c}
  OBVIOUS
<1>3. /\ VersionIn(SubSeq(l, 1, n), c) = Cardinality({i \in 1..n : l[i] = c})
      /\ VersionIn(SubSeq(l, 1, m), c) = Cardinality({i \in 1..m : l[i] = c})
  BY <1>1, Zenon, PrefixVersion
<1> QED
  BY <1>2, <1>3

----------------------------------------------------------------------------
(* The inductive invariant.                                                *)

\* The redactions that have still to append their event.
Unanswered == {m \in Pending("redact") : ~m.answered}

\* The log has room for them.
RoomKept == IsFiniteSet(flight) /\ Len(log) + Cardinality(Unanswered) <= MaxEvents

\* The answers that wait for the page to take them.
Answered(kind) == {m \in Pending(kind) : m.answered}

\* What a page has, and has asked for, before it listens.
PageInOrder ==
  /\ client <=> page = "live"
  /\ ~client => buffer = << >>
  /\ page = "lost" => "drop" \in setting
  /\ page \in {"boot", "load", "connect"} => filter = "all"
  /\ page \in {"boot", "load"} => rows = Nothing /\ panel.id = NoCommand
  /\ page = "boot" => flight = {}
  /\ page = "load" =>
       /\ \A m, n \in flight : m = n
       /\ \A m \in flight : m.ask = [kind |-> "list", filter |-> "all"]
  /\ page = "connect" => Pending("list") = {}

\* Without overtaking there is one request at a time, and a list is for the
\* filter there is.
OneRequest ==
  "overtake" \notin setting =>
    /\ \A m, n \in flight : m = n
    /\ \A m \in Pending("list") : m.ask.filter = filter

\* Whatever a part of the system knows of a command, the log has an event of.
Seen(c) ==
  /\ c \in changed => Row(c) > 0
  /\ rows[c] > 0 => Row(c) > 0
  /\ \A i \in DOMAIN buffer : buffer[i][c] > 0 => Row(c) > 0
  /\ panel.id = c => Row(c) > 0
  /\ \A m \in flight : m.answer[c] > 0 => Row(c) > 0
  /\ \A m \in flight : m.ask.kind # "list" /\ m.ask.id = c => Row(c) > 0
  /\ \A m \in Answered("redact") : m.ask.id = c => Row(c) > 1

\* A page to which nothing happened that it could miss, once it has its list.
Ready == setting = {} /\ page \in {"connect", "live"}

\* What a page that does not listen yet shows must be right as it is; later, what
\* it shows, or is about to show, may be late if the stream makes up for it.
Late(c) == page = "live" /\ Coming(c)

Fresh(v, c) == v = Row(c) \/ Late(c)

\* Nothing is recorded between the first list and the subscription.
LoadIsCurrent ==
  setting = {} /\ page = "load" =>
    \A c \in Command : \A m \in flight : m.answered => m.answer[c] = Row(c)

\* Each place that holds a version of a command: the rows, an answer of any
\* kind, the payloads, the panel.
RowsFresh(c) ==
  Fresh(rows[c], c)
    \/ (rows[c] = 0 /\ filter # "all")
    \/ \E m \in Pending("list") : m.ask.filter = "all" /\ (m.answered => m.answer[c] = Row(c))

ListFresh(c) ==
  \A m \in Answered("list") : Fresh(m.answer[c], c) \/ (m.answer[c] = 0 /\ filter # "all")

RedactFresh(c) ==
  \A m \in Answered("redact") : m.ask.id = c => Fresh(m.answer[c], c)

BufferFresh(c) ==
  (\E i \in DOMAIN buffer : buffer[i][c] > 0) => Coming(c)

PanelFresh(c) ==
  panel.id = c => Fresh(panel.version, c) \/ \E m \in Pending("detail") : m.ask.id = c

DetailFresh(c) ==
  \A m \in Answered("detail") : m.ask.id = c => Fresh(m.answer[c], c)

FreshAll ==
  Ready => \A c \in Command :
    RowsFresh(c) /\ ListFresh(c) /\ RedactFresh(c) /\ BufferFresh(c) /\ PanelFresh(c) /\ DetailFresh(c)

\* What is listed as ended has ended, and so has what will be.
Ended ==
  "overtake" \notin setting /\ filter = "ended" =>
    \A c \in Command :
      /\ Pending("list") = {} /\ rows[c] > 0 => Row(c) > 1
      /\ \A m \in Answered("list") : m.answer[c] > 0 => Row(c) > 1

\* Together they are inductive: a payload is right only because of what the
\* broker still has to read, a row because of the payloads and answers after it.
IInv ==
  /\ TypeOK /\ RoomKept /\ PageInOrder /\ OneRequest
  /\ \A c \in Command : Seen(c)
  /\ LoadIsCurrent /\ FreshAll /\ Ended /\ PayloadsAreCurrent

----------------------------------------------------------------------------
(* Rows, requests and the stream.                                          *)

\* A row fits in a payload.
LEMMA RowFacts ==
  ASSUME TypeOK
  PROVE  /\ \A c \in Command : Row(c) \in Nat /\ Row(c) \in Version
         /\ 0 \in Version /\ Nothing \in Payload
<1>1. log \in Seq(Command) /\ Len(log) <= MaxEvents /\ Len(log) \in Nat /\ MaxEvents \in Nat
  BY DashboardConstants DEF TypeOK
<1>2. ASSUME NEW c \in Command
      PROVE  Row(c) \in Nat /\ Row(c) \in Version
  <2>1. VersionIn(log, c) \in Nat /\ VersionIn(log, c) <= Len(log)
    BY <1>1, VersionBound
  <2> QED
    BY <1>1, <2>1 DEF Row, Version
<1>3. 0 \in Version
  BY <1>1 DEF Version
<1> QED
  BY <1>2, <1>3 DEF Nothing, Payload

\* A new event is the last of its command, and has not been read.
LEMMA LogStep ==
  ASSUME TypeOK, NEW d \in Command, log' = Append(log, d),
         UNCHANGED <<broker, page, setting>>
  PROVE  /\ \A c \in Command : Row(c)' = IF d = c THEN Row(c) + 1 ELSE Row(c)
         /\ \A c \in Command : Row(c)' >= Row(c) /\ Row(c)' \in Nat
         /\ Coming(d)'
         /\ \A c \in Command : Coming(c) => Coming(c)'
         /\ log' \in Seq(Command) /\ Len(log') = Len(log) + 1
         /\ PayloadsAreCurrent => PayloadsAreCurrent'
<1>1. log \in Seq(Command) /\ mark \in 0..Len(log) /\ Len(log) \in Nat
  BY DEF TypeOK
<1>2. /\ log' \in Seq(Command) /\ Len(log') = Len(log) + 1
      /\ \A i \in 1..Len(log) : log'[i] = log[i]
      /\ log'[Len(log) + 1] = d
  BY <1>1, AppendProperties
<1>3. ASSUME NEW c \in Command
      PROVE  Row(c)' = IF d = c THEN Row(c) + 1 ELSE Row(c)
  BY <1>1, VersionAppend DEF Row
<1>4. ASSUME NEW c \in Command
      PROVE  Row(c)' >= Row(c) /\ Row(c)' \in Nat
  <2>1. Row(c) \in Nat
    BY RowFacts
  <2> QED
    BY <1>3, <2>1
<1>5. DOMAIN log = 1..Len(log) /\ DOMAIN log' = 1..(Len(log) + 1)
  BY <1>1, <1>2
<1>6. Coming(d)'
  <2>1. Len(log) + 1 \in DOMAIN log' /\ Len(log) + 1 > mark' /\ log'[Len(log) + 1] = d
    BY <1>1, <1>2, <1>5 DEF broker
  <2> QED
    BY <2>1 DEF Coming
<1>7. ASSUME NEW c \in Command, Coming(c)
      PROVE  Coming(c)'
  <2>1. CASE d = c
    BY <1>6, <2>1
  <2>2. CASE d # c
    <3>1. Row(c)' = Row(c)
      BY <1>3, <2>2
    <3>2. CASE \E i \in DOMAIN log : i > mark /\ log[i] = c
      <4>1. PICK i \in DOMAIN log : i > mark /\ log[i] = c
        BY <3>2
      <4>2. i \in DOMAIN log' /\ i > mark' /\ log'[i] = c
        BY <1>1, <1>2, <1>5, <4>1 DEF broker
      <4> QED
        BY <4>2 DEF Coming
    <3>3. CASE c \in changed
      BY <3>3 DEF Coming, broker
    <3>4. CASE \E i \in LastIn(c) : buffer[i][c] = Row(c)
      <4>1. LastIn(c)' = LastIn(c) /\ buffer' = buffer
        BY DEF LastIn, broker
      <4> QED
        BY <3>1, <3>4, <4>1 DEF Coming
    <3> QED
      BY <1>7, <3>2, <3>3, <3>4 DEF Coming
  <2> QED
    BY <2>1, <2>2
<1>8. ASSUME PayloadsAreCurrent
      PROVE  PayloadsAreCurrent'
  <2>1. ASSUME NEW c \in Command
        PROVE  VersionIn(SubSeq(log', 1, mark'), c) = VersionIn(SubSeq(log, 1, mark), c)
    BY <1>1, PrefixAppend DEF broker
  <2>2. ASSUME NEW c \in Command
        PROVE  LastIn(c)' = LastIn(c)
    BY DEF LastIn, broker
  <2>3. UNCHANGED <<changed, buffer, setting>>
    BY DEF broker
  <2> QED
    BY <1>8, <2>1, <2>2, <2>3 DEF PayloadsAreCurrent
<1> QED
  BY <1>2, <1>3, <1>4, <1>6, <1>7, <1>8

\* A step of the page alone leaves what is on its way.
LEMMA StreamStays ==
  ASSUME UNCHANGED <<database, broker, setting>>
  PROVE  /\ \A c \in Command : Row(c)' = Row(c)
         /\ \A c \in Command : Coming(c)' <=> Coming(c)
         /\ PayloadsAreCurrent => PayloadsAreCurrent'
<1>1. /\ UNCHANGED <<log, mark, changed, client, buffer, setting>>
  BY DEF database, broker
<1> QED
  BY <1>1 DEF Row, Coming, LastIn, PayloadsAreCurrent

\* What kind a request is of says what it asks.
LEMMA Kinds ==
  ASSUME TypeOK, NEW m \in flight
  PROVE  /\ m.ask \in Request /\ m.answered \in BOOLEAN /\ m.answer \in Payload
         /\ m.ask.kind \in {"list", "detail", "redact"}
         /\ m.ask.kind = "list" => m.ask.filter \in Filter
         /\ m.ask.kind # "list" => m.ask.id \in Command
<1>1. m.ask \in Request /\ m.answered \in BOOLEAN /\ m.answer \in Payload
  BY DEF TypeOK
<1> QED
  BY <1>1 DEF Request

\* A request asked is in flight and not answered.
LEMMA AskFacts ==
  ASSUME TypeOK, NEW r \in Request, flight' = Asking(r)
  PROVE  /\ flight' \subseteq [ask : Request, answered : BOOLEAN, answer : Payload]
         /\ flight \subseteq flight'
         /\ \A m \in flight' : m \in flight \/ (m.ask = r /\ m.answered = FALSE /\ m.answer = Nothing)
         /\ \E m \in flight' : m.ask = r /\ m.answered = FALSE /\ m.answer = Nothing
         /\ flight = {} => \A m, n \in flight' : m = n
         /\ IsFiniteSet(flight) => IsFiniteSet(flight')
<1> DEFINE new == [ask |-> r, answered |-> FALSE, answer |-> Nothing]
<1>1. flight' = flight \cup {new}
  BY DEF Asking
<1>2. new.ask = r /\ new.answered = FALSE /\ new.answer = Nothing
  OBVIOUS
<1>3. new \in [ask : Request, answered : BOOLEAN, answer : Payload]
  BY RowFacts
<1> HIDE DEF new
<1>4. IsFiniteSet(flight) => IsFiniteSet(flight')
  BY <1>1, FS_AddElement
<1> QED
  BY <1>1, <1>2, <1>3, <1>4 DEF TypeOK

\* A request that is not a redaction takes no room.
LEMMA AskRoom ==
  ASSUME IInv, NEW r \in Request, r.kind # "redact", flight' = Asking(r), log' = log
  PROVE  RoomKept'
<1>1. /\ flight \subseteq flight'
      /\ \A m \in flight' : m \in flight \/ (m.ask = r /\ m.answered = FALSE /\ m.answer = Nothing)
      /\ IsFiniteSet(flight) => IsFiniteSet(flight')
  BY AskFacts DEF IInv
<1>2. Unanswered' = Unanswered
  BY <1>1 DEF Unanswered, Pending
<1> QED
  BY <1>1, <1>2 DEF IInv, RoomKept

\* Without an answer to any, a request leaves at most what there was.
LEMMA Answers ==
  ASSUME TypeOK, NEW r \in Request, flight' = Asking(r), NEW kind
  PROVE  Answered(kind)' = Answered(kind)
BY AskFacts DEF Answered, Pending

----------------------------------------------------------------------------
(* The requests of the user and of the page.                               *)

\* Opening a row asks for it.
LEMMA OpenStep ==
  ASSUME IInv, NEW c \in Command, Open(c)
  PROVE  IInv'
<1> DEFINE r == [kind |-> "detail", id |-> c]
<1>1. /\ r \in Request /\ r.kind = "detail" /\ r.id = c
      /\ flight' = Asking(r) /\ rows[c] > 0 /\ MayAsk /\ User
      /\ UNCHANGED <<database, broker, page, rows, filter, panel, setting>>
  BY Zenon DEF Open, Request
<1> HIDE DEF r
<1>2. UNCHANGED <<log, mark, changed, client, buffer, page, rows, filter, panel, setting>>
  BY <1>1 DEF database, broker
<1>3. TypeOK
  BY DEF IInv
<1>4. /\ \A d \in Command : Row(d)' = Row(d) /\ (Coming(d)' <=> Coming(d)) /\ Row(d) \in Nat
      /\ PayloadsAreCurrent'
  BY <1>1, <1>3, StreamStays, RowFacts DEF IInv
<1>5. /\ flight' \subseteq [ask : Request, answered : BOOLEAN, answer : Payload]
      /\ flight \subseteq flight'
      /\ \A m \in flight' : m \in flight \/ (m.ask = r /\ m.answered = FALSE /\ m.answer = Nothing)
      /\ flight = {} => \A m, n \in flight' : m = n
  BY <1>1, <1>3, AskFacts
<1>6. \A kind : Answered(kind)' = Answered(kind)
  BY <1>1, <1>3, Answers
<1>7. Pending("list")' = Pending("list") /\ Pending("detail") \subseteq Pending("detail")'
  BY <1>1, <1>5 DEF Pending
<1>8. TypeOK'
  BY <1>1, <1>2, <1>5, DashboardConstants DEF IInv, TypeOK, User
<1>9. RoomKept'
  BY <1>1, <1>2, AskRoom
<1>10. PageInOrder'
  BY <1>1, <1>2, <1>5, <1>7 DEF IInv, PageInOrder, Nothing
<1>11. OneRequest'
  BY <1>1, <1>2, <1>5, <1>7 DEF IInv, OneRequest, MayAsk
<1>12. ASSUME NEW d \in Command
       PROVE  Seen(d)'
  BY <1>1, <1>2, <1>4, <1>5, <1>6 DEF IInv, Seen, Nothing
<1>13. LoadIsCurrent'
  BY <1>2, <1>4, <1>5 DEF IInv, LoadIsCurrent
<1>14. FreshAll'
  BY <1>2, <1>4, <1>6, <1>7
     DEF IInv, FreshAll, Ready, RowsFresh, ListFresh, RedactFresh, BufferFresh, PanelFresh,
         DetailFresh, Fresh, Late
<1>15. Ended'
  BY <1>2, <1>4, <1>6, <1>7 DEF IInv, Ended
<1> QED
  BY <1>4, <1>8, <1>9, <1>10, <1>11, <1>12, <1>13, <1>14, <1>15 DEF IInv

\* A filter asks for a list of its own.
LEMMA SetFilterStep ==
  ASSUME IInv, NEW f \in Filter, SetFilter(f)
  PROVE  IInv'
<1> DEFINE r == [kind |-> "list", filter |-> f]
<1>1. /\ r \in Request /\ r.kind = "list" /\ r.filter = f
      /\ flight' = Asking(r) /\ page \in {"live", "lost"} /\ f # filter /\ filter' = f
      /\ MayAsk /\ User
      /\ UNCHANGED <<database, broker, page, rows, panel, setting>>
  BY Zenon DEF SetFilter, Request
<1> HIDE DEF r
<1>2. UNCHANGED <<log, mark, changed, client, buffer, page, rows, panel, setting>>
  BY <1>1 DEF database, broker
<1>3. TypeOK
  BY DEF IInv
<1>4. /\ \A d \in Command : Row(d)' = Row(d) /\ (Coming(d)' <=> Coming(d)) /\ Row(d) \in Nat
      /\ PayloadsAreCurrent'
  BY <1>1, <1>3, StreamStays, RowFacts DEF IInv
<1>5. /\ flight' \subseteq [ask : Request, answered : BOOLEAN, answer : Payload]
      /\ flight \subseteq flight'
      /\ \A m \in flight' : m \in flight \/ (m.ask = r /\ m.answered = FALSE /\ m.answer = Nothing)
      /\ \E m \in flight' : m.ask = r /\ m.answered = FALSE /\ m.answer = Nothing
      /\ flight = {} => \A m, n \in flight' : m = n
  BY <1>1, <1>3, AskFacts
<1>6. \A kind : Answered(kind)' = Answered(kind)
  BY <1>1, <1>3, Answers
<1>7. Pending("detail") = Pending("detail")' /\ Pending("list") \subseteq Pending("list")'
      /\ \E m \in Pending("list")' : m.ask.filter = f /\ ~m.answered
  BY <1>1, <1>5 DEF Pending
<1>8. TypeOK'
  BY <1>1, <1>2, <1>5, DashboardConstants DEF IInv, TypeOK, User
<1>9. RoomKept'
  BY <1>1, <1>2, AskRoom
<1>10. PageInOrder'
  BY <1>1, <1>2, <1>5 DEF IInv, PageInOrder
<1>11. OneRequest'
  BY <1>1, <1>2, <1>5 DEF IInv, OneRequest, MayAsk, Pending
<1>12. ASSUME NEW d \in Command
       PROVE  Seen(d)'
  BY <1>1, <1>2, <1>4, <1>5, <1>6 DEF IInv, Seen, Nothing
<1>13. LoadIsCurrent'
  BY <1>1, <1>2 DEF LoadIsCurrent
<1>14. FreshAll'
  <2> SUFFICES ASSUME Ready', NEW d \in Command
               PROVE  (RowsFresh(d) /\ ListFresh(d) /\ RedactFresh(d) /\ BufferFresh(d)
                         /\ PanelFresh(d) /\ DetailFresh(d))'
    BY DEF FreshAll
  <2>1. flight = {} /\ Ready
    BY <1>1, <1>2 DEF Ready, MayAsk
  <2>2. /\ RowsFresh(d) /\ BufferFresh(d) /\ PanelFresh(d)
        /\ \A kind : Answered(kind)' = {}
    BY <1>6, <2>1 DEF IInv, FreshAll, Answered, Pending
  <2>3. \A v : Fresh(v, d)' <=> Fresh(v, d)
    BY <1>2, <1>4 DEF Fresh, Late
  <2>4. RowsFresh(d)'
    <3>1. CASE f = "all"
      BY <1>7, <3>1 DEF RowsFresh
    <3>2. CASE f # "all"
      BY <1>1, <1>2, <2>1, <2>2, <1>4, <3>2 DEF RowsFresh, Pending, Fresh, Late
    <3> QED
      BY <3>1, <3>2
  <2>5. BufferFresh(d)' /\ PanelFresh(d)'
    BY <1>2, <1>4, <1>7, <2>2 DEF BufferFresh, PanelFresh, Fresh, Late
  <2> QED
    BY <2>2, <2>4, <2>5 DEF ListFresh, RedactFresh, DetailFresh
<1>15. Ended'
  <2> SUFFICES ASSUME ("overtake" \notin setting /\ filter = "ended")'
               PROVE  (\A c \in Command :
                        /\ Pending("list") = {} /\ rows[c] > 0 => Row(c) > 1
                        /\ \A m \in Answered("list") : m.answer[c] > 0 => Row(c) > 1)'
    BY DEF Ended
  <2>1. flight = {}
    BY <1>1, <1>2 DEF MayAsk
  <2>2. Answered("list")' = {}
    BY <1>6, <2>1 DEF Answered, Pending
  <2> QED
    BY <1>7, <2>2
<1> QED
  BY <1>4, <1>8, <1>9, <1>10, <1>11, <1>12, <1>13, <1>14, <1>15 DEF IInv

\* The page asks for everything when it boots.
LEMMA BootStep ==
  ASSUME IInv, Boot
  PROVE  IInv'
<1> DEFINE r == [kind |-> "list", filter |-> filter]
<1>1. /\ r.kind = "list" /\ r.filter = filter
      /\ flight' = Asking(r) /\ page = "boot" /\ page' = "load"
      /\ UNCHANGED <<database, broker, rows, filter, panel, asked, setting>>
  BY Zenon DEF Boot
<1>2. UNCHANGED <<log, mark, changed, client, buffer, rows, filter, panel, asked, setting>>
  BY <1>1 DEF database, broker
<1>3. TypeOK /\ flight = {} /\ filter = "all"
  BY <1>1 DEF IInv, PageInOrder
<1>4. r \in Request /\ r = [kind |-> "list", filter |-> "all"]
  BY <1>3 DEF TypeOK, Request
<1> HIDE DEF r
<1>5. /\ \A d \in Command : Row(d)' = Row(d) /\ Row(d) \in Nat
      /\ PayloadsAreCurrent'
  BY <1>1, <1>3, StreamStays, RowFacts DEF IInv
<1>6. /\ flight' \subseteq [ask : Request, answered : BOOLEAN, answer : Payload]
      /\ \A m \in flight' : m.ask = r /\ m.answered = FALSE /\ m.answer = Nothing
      /\ \A m, n \in flight' : m = n
  BY <1>1, <1>3, <1>4, AskFacts
<1>7. \A kind : Answered(kind)' = {}
  BY <1>6 DEF Answered, Pending
<1>8. TypeOK'
  BY <1>1, <1>2, <1>6, <1>3 DEF TypeOK
<1>9. RoomKept'
  BY <1>1, <1>2, <1>4, AskRoom
<1>10. PageInOrder'
  BY <1>1, <1>2, <1>4, <1>6 DEF IInv, PageInOrder
<1>11. OneRequest'
  BY <1>1, <1>2, <1>6 DEF OneRequest, Pending
<1>12. ASSUME NEW d \in Command
       PROVE  Seen(d)'
  BY <1>1, <1>2, <1>5, <1>6, <1>7 DEF IInv, Seen, Nothing
<1>13. LoadIsCurrent' /\ FreshAll' /\ Ended'
  BY <1>1, <1>2, <1>3, <1>6 DEF LoadIsCurrent, FreshAll, Ready, Ended
<1> QED
  BY <1>5, <1>8, <1>9, <1>10, <1>11, <1>12, <1>13 DEF IInv

\* A redaction is asked for when the log has room for its event.
LEMMA RedactStep ==
  ASSUME IInv, Redact
  PROVE  IInv'
<1> DEFINE r == [kind |-> "redact", id |-> panel.id]
<1>1. /\ r.kind = "redact" /\ r.id = panel.id /\ panel.id # NoCommand
      /\ flight' = Asking(r) /\ MayAsk /\ User /\ Room
      /\ UNCHANGED <<database, broker, page, rows, filter, panel, setting>>
  BY Zenon DEF Redact
<1>2. UNCHANGED <<log, mark, changed, client, buffer, page, rows, filter, panel, setting>>
  BY <1>1 DEF database, broker
<1>3. TypeOK /\ panel.id \in Command
  BY <1>1 DEF IInv, TypeOK
<1>4. r \in Request
  BY <1>3 DEF Request
<1>5. r.kind # "list" /\ r.kind # "detail"
  BY <1>1
<1> HIDE DEF r
<1>6. /\ \A d \in Command : Row(d)' = Row(d) /\ (Coming(d)' <=> Coming(d)) /\ Row(d) \in Nat
      /\ PayloadsAreCurrent'
  BY <1>1, <1>3, StreamStays, RowFacts DEF IInv
<1>7. /\ flight' \subseteq [ask : Request, answered : BOOLEAN, answer : Payload]
      /\ flight \subseteq flight'
      /\ \A m \in flight' : m \in flight \/ (m.ask = r /\ m.answered = FALSE /\ m.answer = Nothing)
      /\ flight = {} => \A m, n \in flight' : m = n
      /\ IsFiniteSet(flight')
  BY <1>1, <1>3, <1>4, AskFacts DEF IInv, RoomKept
<1>8. \A kind : Answered(kind)' = Answered(kind)
  BY <1>1, <1>3, <1>4, Answers
<1>9. Pending("list")' = Pending("list") /\ Pending("detail")' = Pending("detail")
  BY <1>5, <1>7 DEF Pending
<1>10. TypeOK'
  BY <1>1, <1>2, <1>7, DashboardConstants DEF IInv, TypeOK, User
<1>11. RoomKept'
  <2> DEFINE new == [ask |-> r, answered |-> FALSE, answer |-> Nothing]
  <2>1. Unanswered' \in SUBSET (Unanswered \cup {new})
    BY <1>1 DEF Unanswered, Pending, Asking
  <2> HIDE DEF new
  <2>2. IsFiniteSet(Unanswered)
    <3>1. Unanswered \in SUBSET flight /\ IsFiniteSet(flight)
      BY DEF IInv, RoomKept, Unanswered, Pending
    <3> QED
      BY <3>1, FS_Subset
  <2>3. /\ IsFiniteSet(Unanswered \cup {new}) /\ Cardinality(Unanswered) \in Nat
        /\ Cardinality(Unanswered \cup {new}) <= Cardinality(Unanswered) + 1
    BY <2>2, FS_AddElement, FS_CardinalityType
  <2>4. Cardinality(Unanswered') <= Cardinality(Unanswered \cup {new}) /\ IsFiniteSet(Unanswered')
    BY <2>1, <2>3, FS_Subset
  <2>5. Cardinality(Unanswered \cup {new}) \in Nat /\ Cardinality(Unanswered') \in Nat
    BY <2>3, <2>4, FS_CardinalityType
  <2>6. Len(log) + Cardinality(Unanswered) < MaxEvents
    BY <1>1 DEF Room, Unanswered
  <2>7. Len(log) \in Nat /\ MaxEvents \in Nat
    BY <1>3, DashboardConstants DEF TypeOK
  <2> QED
    BY <1>2, <1>7, <2>3, <2>4, <2>5, <2>6, <2>7 DEF RoomKept
<1>12. PageInOrder'
  BY <1>1, <1>2, <1>7, <1>9 DEF IInv, PageInOrder
<1>13. OneRequest'
  BY <1>1, <1>2, <1>7, <1>9 DEF IInv, OneRequest, MayAsk
<1>14. ASSUME NEW d \in Command
       PROVE  Seen(d)'
  BY <1>1, <1>2, <1>6, <1>7, <1>8 DEF IInv, Seen, Nothing
<1>15. LoadIsCurrent'
  BY <1>2, <1>6, <1>7 DEF IInv, LoadIsCurrent
<1>16. FreshAll'
  BY <1>2, <1>6, <1>8, <1>9
     DEF IInv, FreshAll, Ready, RowsFresh, ListFresh, RedactFresh, BufferFresh, PanelFresh,
         DetailFresh, Fresh, Late
<1>17. Ended'
  BY <1>2, <1>6, <1>8, <1>9 DEF IInv, Ended
<1> QED
  BY <1>6, <1>10, <1>11, <1>12, <1>13, <1>14, <1>15, <1>16, <1>17 DEF IInv

\* A panel that closes shows no command.
LEMMA CloseStep ==
  ASSUME IInv, Close
  PROVE  IInv'
<1>1. /\ panel' = [id |-> NoCommand, version |-> 0]
      /\ UNCHANGED <<database, broker, page, rows, filter, flight, asked, setting>>
  BY DEF Close, Show
<1>2. /\ panel'.id = NoCommand /\ panel' \in [id : Command \cup {NoCommand}, version : Version]
      /\ UNCHANGED <<log, mark, changed, client, buffer, page, rows, filter, flight, asked, setting>>
  BY <1>1, RowFacts DEF database, broker, IInv
<1>3. \A kind : Pending(kind)' = Pending(kind) /\ Answered(kind)' = Answered(kind)
  BY <1>2 DEF Pending, Answered
<1>4. /\ \A d \in Command : Row(d)' = Row(d) /\ (Coming(d)' <=> Coming(d))
      /\ PayloadsAreCurrent'
  BY <1>1, StreamStays DEF IInv
<1>5. TypeOK' /\ RoomKept'
  BY <1>2, <1>3 DEF IInv, TypeOK, RoomKept, Unanswered
<1>6. PageInOrder' /\ OneRequest' /\ LoadIsCurrent'
  BY <1>2, <1>3, <1>4 DEF IInv, PageInOrder, OneRequest, LoadIsCurrent
<1>7. ASSUME NEW d \in Command
      PROVE  Seen(d)'
  BY <1>2, <1>3, <1>4, DashboardConstants DEF IInv, Seen
<1>8. FreshAll' /\ Ended'
  BY <1>2, <1>3, <1>4, DashboardConstants
     DEF IInv, FreshAll, Ready, RowsFresh, ListFresh, RedactFresh, BufferFresh, PanelFresh,
         DetailFresh, Fresh, Late, Ended
<1> QED
  BY <1>4, <1>5, <1>6, <1>7, <1>8 DEF IInv

----------------------------------------------------------------------------
(* Answers arrive.                                                         *)

\* Taking a request out of flight leaves the others as they are.
LEMMA TakeFacts ==
  ASSUME IInv, NEW m \in flight, flight' = flight \ {m}
  PROVE  /\ flight' \subseteq [ask : Request, answered : BOOLEAN, answer : Payload]
         /\ flight' \subseteq flight
         /\ \A kind : /\ Answered(kind)' \subseteq Answered(kind)
                      /\ m.ask.kind # kind => Pending(kind) = Pending(kind)'
         /\ log' = log => RoomKept'
<1>1. flight \subseteq [ask : Request, answered : BOOLEAN, answer : Payload]
  BY DEF IInv, TypeOK
<1>2. ASSUME log' = log
      PROVE  RoomKept'
  <2>1. flight' \in SUBSET flight /\ IsFiniteSet(flight) /\ Unanswered \in SUBSET flight
        /\ Unanswered' \in SUBSET Unanswered
    BY DEF IInv, RoomKept, Unanswered, Pending
  <2>2. IsFiniteSet(flight') /\ IsFiniteSet(Unanswered)
    BY <2>1, FS_Subset
  <2>3. Cardinality(Unanswered') <= Cardinality(Unanswered) /\ IsFiniteSet(Unanswered')
    BY <2>1, <2>2, FS_Subset
  <2>4. Cardinality(Unanswered) \in Nat /\ Cardinality(Unanswered') \in Nat
    BY <2>2, <2>3, FS_CardinalityType
  <2>5. Len(log) + Cardinality(Unanswered) <= MaxEvents /\ Len(log) \in Nat /\ MaxEvents \in Nat
    BY DashboardConstants DEF IInv, RoomKept, TypeOK
  <2> QED
    BY <1>2, <2>2, <2>3, <2>4, <2>5 DEF RoomKept
<1>3. \A kind : /\ Answered(kind)' \subseteq Answered(kind)
                /\ m.ask.kind # kind => Pending(kind) = Pending(kind)'
  BY DEF Answered, Pending
<1> QED
  BY <1>1, <1>2, <1>3

\* A list replaces the rows.
LEMMA ReceiveListStep ==
  ASSUME IInv, NEW m \in flight, ReceiveList(m)
  PROVE  IInv'
<1>1. /\ m \in flight /\ m.ask.kind = "list" /\ m.answered
      /\ rows' = m.answer /\ page' = (IF page = "load" THEN "connect" ELSE page)
      /\ flight' = flight \ {m}
      /\ UNCHANGED <<database, broker, filter, panel, asked, setting>>
  BY DEF ReceiveList, Pending
<1>2. UNCHANGED <<log, mark, changed, client, buffer, filter, panel, asked, setting>>
  BY <1>1 DEF database, broker
<1>3. TypeOK /\ m \in Answered("list") /\ m.answer \in Payload
  BY <1>1, Kinds DEF IInv, Answered, Pending
<1>4. /\ \A d \in Command : /\ Row(d)' = Row(d) /\ (Coming(d)' <=> Coming(d))
                            /\ Row(d) \in Nat /\ m.answer[d] \in Nat
      /\ PayloadsAreCurrent'
  <2>1. Version \subseteq Nat
    BY DashboardConstants DEF Version
  <2> QED
    BY <1>1, <1>3, <2>1, StreamStays, RowFacts DEF IInv, Payload
<1>5. /\ flight' \subseteq [ask : Request, answered : BOOLEAN, answer : Payload]
      /\ flight' \subseteq flight
      /\ Pending("detail")' = Pending("detail") /\ Pending("redact")' = Pending("redact")
      /\ \A kind : Answered(kind)' \subseteq Answered(kind)
      /\ RoomKept'
  BY <1>1, <1>2, TakeFacts
<1>6. TypeOK'
  BY <1>1, <1>2, <1>3, <1>5 DEF TypeOK
<1>7. PageInOrder'
  <2>1. CASE page = "load"
    <3>1. flight' = {}
      BY <1>1, <2>1 DEF IInv, PageInOrder
    <3> QED
      BY <1>1, <1>2, <2>1, <3>1 DEF IInv, PageInOrder, Pending
  <2>2. CASE page # "load"
    BY <1>1, <1>2, <1>5, <2>2 DEF IInv, PageInOrder, Pending
  <2> QED
    BY <2>1, <2>2
<1>8. OneRequest'
  BY <1>1, <1>2, <1>5 DEF IInv, OneRequest, Pending
<1>9. ASSUME NEW d \in Command
      PROVE  Seen(d)'
  BY <1>1, <1>2, <1>4, <1>5 DEF IInv, Seen
<1>10. LoadIsCurrent'
  BY <1>1 DEF LoadIsCurrent
<1>11. FreshAll'
  <2> SUFFICES ASSUME Ready', NEW d \in Command
               PROVE  (RowsFresh(d) /\ ListFresh(d) /\ RedactFresh(d) /\ BufferFresh(d)
                         /\ PanelFresh(d) /\ DetailFresh(d))'
    BY DEF FreshAll
  <2>1. CASE page = "load"
    <3>1. /\ flight' = {} /\ page' = "connect" /\ client = FALSE /\ buffer' = << >>
          /\ panel'.id = NoCommand
      BY <1>1, <1>2, <2>1 DEF IInv, PageInOrder, TypeOK
    <3>2. rows'[d] = Row(d)'
      BY <1>1, <1>2, <1>4, <2>1 DEF IInv, LoadIsCurrent, Ready
    <3> QED
      BY <3>1, <3>2, DashboardConstants
         DEF RowsFresh, ListFresh, RedactFresh, BufferFresh, PanelFresh, DetailFresh, Fresh,
             Answered, Pending
  <2>2. CASE page # "load"
    <3>1. Ready /\ page' = page
      BY <1>1, <1>2, <2>2 DEF Ready
    <3>2. RowsFresh(d) /\ ListFresh(d) /\ RedactFresh(d) /\ BufferFresh(d)
            /\ PanelFresh(d) /\ DetailFresh(d)
      BY <3>1 DEF IInv, FreshAll
    <3> QED
      BY <1>1, <1>2, <1>3, <1>4, <1>5, <3>1, <3>2
         DEF RowsFresh, ListFresh, RedactFresh, BufferFresh, PanelFresh, DetailFresh, Fresh, Late
  <2> QED
    BY <2>1, <2>2
<1>12. Ended'
  BY <1>1, <1>2, <1>3, <1>4, <1>5 DEF IInv, Ended
<1> QED
  BY <1>4, <1>5, <1>6, <1>7, <1>8, <1>9, <1>10, <1>11, <1>12 DEF IInv

\* A detail is shown.
LEMMA ReceiveDetailStep ==
  ASSUME IInv, NEW m \in flight, ReceiveDetail(m)
  PROVE  IInv'
<1>1. /\ m \in flight /\ m.ask.kind = "detail" /\ m.answered
      /\ panel' = [id |-> m.ask.id, version |-> m.answer[m.ask.id]]
      /\ flight' = flight \ {m}
      /\ UNCHANGED <<database, broker, page, rows, filter, asked, setting>>
  BY DEF ReceiveDetail, Pending, Show
<1>2. UNCHANGED <<log, mark, changed, client, buffer, page, rows, filter, asked, setting>>
  BY <1>1 DEF database, broker
<1>3. TypeOK /\ m \in Answered("detail") /\ m.answer \in Payload /\ m.ask.id \in Command
  BY <1>1, Kinds DEF IInv, Answered, Pending
<1>4. /\ panel' \in [id : Command \cup {NoCommand}, version : Version]
      /\ panel'.id = m.ask.id /\ panel'.version = m.answer[m.ask.id]
  BY <1>1, <1>3 DEF Payload
<1>5. /\ \A d \in Command : Row(d)' = Row(d) /\ (Coming(d)' <=> Coming(d)) /\ Row(d) \in Nat
      /\ PayloadsAreCurrent'
  BY <1>1, <1>3, StreamStays, RowFacts DEF IInv
<1>6. /\ flight' \subseteq [ask : Request, answered : BOOLEAN, answer : Payload]
      /\ flight' \subseteq flight
      /\ Pending("list")' = Pending("list")
      /\ \A kind : Answered(kind)' \subseteq Answered(kind)
      /\ RoomKept'
  BY <1>1, <1>2, TakeFacts
<1>7. TypeOK'
  BY <1>1, <1>2, <1>3, <1>4, <1>6 DEF TypeOK
<1>8. page \notin {"boot", "load"}
  BY <1>1 DEF IInv, PageInOrder
<1>9. PageInOrder' /\ OneRequest' /\ LoadIsCurrent'
  BY <1>1, <1>2, <1>6, <1>8 DEF IInv, PageInOrder, OneRequest, LoadIsCurrent
<1>10. ASSUME NEW d \in Command
       PROVE  Seen(d)'
  BY <1>1, <1>2, <1>4, <1>5, <1>6 DEF IInv, Seen
<1>11. FreshAll'
  BY <1>2, <1>3, <1>4, <1>5, <1>6
     DEF IInv, FreshAll, Ready, RowsFresh, ListFresh, RedactFresh, BufferFresh, PanelFresh,
         DetailFresh, Fresh, Late
<1>12. Ended'
  BY <1>2, <1>5, <1>6 DEF IInv, Ended
<1> QED
  BY <1>5, <1>6, <1>7, <1>9, <1>10, <1>11, <1>12 DEF IInv

\* A redacted row is shown and listed, and asked for again.
LEMMA ReceiveRedactStep ==
  ASSUME IInv, NEW m \in flight, ReceiveRedact(m)
  PROVE  IInv'
<1> DEFINE c == m.ask.id
           new == [ask |-> [kind |-> "detail", id |-> c], answered |-> FALSE, answer |-> Nothing]
<1>1. /\ m \in flight /\ m.ask.kind = "redact" /\ m.answered
      /\ rows' = [rows EXCEPT ![c] = m.answer[c]]
      /\ panel' = [id |-> c, version |-> m.answer[c]]
      /\ flight' = (flight \ {m}) \cup {new}
      /\ UNCHANGED <<database, broker, page, filter, asked, setting>>
  BY DEF ReceiveRedact, Pending, Show
<1>2. UNCHANGED <<log, mark, changed, client, buffer, page, filter, asked, setting>>
  BY <1>1 DEF database, broker
<1>3. TypeOK /\ m \in Answered("redact") /\ m.answer \in Payload /\ c \in Command
  BY <1>1, Kinds DEF IInv, Answered, Pending
<1>4. /\ panel' \in [id : Command \cup {NoCommand}, version : Version]
      /\ panel'.id = c /\ panel'.version = m.answer[c]
      /\ m.answer[c] \in Version /\ m.answer[c] \in Nat
  BY <1>1, <1>3, DashboardConstants DEF Payload, Version
<1>5. /\ rows' \in Payload /\ rows'[c] = m.answer[c]
      /\ \A d \in Command : d # c => rows'[d] = rows[d]
  BY <1>1, <1>3, <1>4 DEF TypeOK, Payload
<1>6. /\ \A d \in Command : Row(d)' = Row(d) /\ (Coming(d)' <=> Coming(d)) /\ Row(d) \in Nat
      /\ PayloadsAreCurrent'
  BY <1>1, <1>3, StreamStays, RowFacts DEF IInv
<1>7. /\ new \in [ask : Request, answered : BOOLEAN, answer : Payload]
      /\ new.ask.kind = "detail" /\ new.ask.id = c /\ new.answered = FALSE /\ new.answer = Nothing
  <2>1. [kind |-> "detail", id |-> c] \in Request
    BY <1>3 DEF Request
  <2> QED
    BY <1>3, <2>1, RowFacts
<1> HIDE DEF c, new
<1>8. /\ flight' \subseteq [ask : Request, answered : BOOLEAN, answer : Payload]
      /\ \A n \in flight' : n \in flight \/ n = new
      /\ Pending("list")' = Pending("list")
      /\ \A n \in Pending("detail") : n \in Pending("detail")'
      /\ new \in Pending("detail")'
      /\ \A kind : Answered(kind)' \subseteq Answered(kind)
  BY <1>1, <1>3, <1>7 DEF TypeOK, Pending, Answered
<1>9. RoomKept'
  <2>1. IsFiniteSet(flight) /\ Unanswered' = Unanswered
    BY <1>1, <1>7 DEF IInv, RoomKept, Unanswered, Pending
  <2>2. IsFiniteSet(flight \ {m})
    BY <2>1, FS_RemoveElement
  <2>3. IsFiniteSet(flight')
    BY <1>1, <2>2, FS_AddElement
  <2> QED
    BY <1>2, <2>1, <2>3 DEF IInv, RoomKept
<1>10. TypeOK'
  BY <1>1, <1>2, <1>3, <1>4, <1>5, <1>8 DEF TypeOK
<1>11. page \notin {"boot", "load"}
  BY <1>1 DEF IInv, PageInOrder
<1>12. PageInOrder' /\ LoadIsCurrent'
  BY <1>1, <1>2, <1>8, <1>11 DEF IInv, PageInOrder, LoadIsCurrent
<1>13. OneRequest'
  BY <1>1, <1>2, <1>8 DEF IInv, OneRequest
<1>14. Row(c) > 1
  BY <1>1, <1>3 DEF IInv, Seen, c
<1>15. ASSUME NEW d \in Command
       PROVE  Seen(d)'
  BY <1>1, <1>2, <1>4, <1>5, <1>6, <1>7, <1>8, <1>14 DEF IInv, Seen, Nothing
<1>16. FreshAll'
  <2> SUFFICES ASSUME Ready', NEW d \in Command
               PROVE  (RowsFresh(d) /\ ListFresh(d) /\ RedactFresh(d) /\ BufferFresh(d)
                         /\ PanelFresh(d) /\ DetailFresh(d))'
    BY DEF FreshAll
  <2>1. Ready /\ page' = page
    BY <1>2 DEF Ready
  <2>2. RowsFresh(d) /\ ListFresh(d) /\ RedactFresh(d) /\ BufferFresh(d)
          /\ PanelFresh(d) /\ DetailFresh(d)
    BY <2>1 DEF IInv, FreshAll
  <2>3. Row(d)' = Row(d) /\ (Late(d)' <=> Late(d))
    BY <1>6, <2>1 DEF Late
  <2>4. c = d => Fresh(m.answer[c], d)
    BY <1>3, <2>2 DEF RedactFresh, c
  <2>5. RowsFresh(d)'
    BY <1>2, <1>5, <1>8, <2>2, <2>3, <2>4 DEF RowsFresh, Fresh
  <2>6. ListFresh(d)' /\ RedactFresh(d)' /\ DetailFresh(d)' /\ BufferFresh(d)'
    BY <1>2, <1>6, <1>8, <2>2, <2>3 DEF ListFresh, RedactFresh, DetailFresh, BufferFresh, Fresh
  <2>7. PanelFresh(d)'
    BY <1>4, <1>7, <1>8 DEF PanelFresh
  <2> QED
    BY <2>5, <2>6, <2>7
<1>17. Ended'
  BY <1>2, <1>5, <1>6, <1>8, <1>14 DEF IInv, Ended
<1> QED
  BY <1>6, <1>9, <1>10, <1>12, <1>13, <1>15, <1>16, <1>17 DEF IInv

----------------------------------------------------------------------------
(* The log grows.                                                          *)

\* Something is recorded by the capture side.
LEMMA RecordStep ==
  ASSUME IInv, NEW c \in Command, Record(c)
  PROVE  IInv'
<1>1. /\ Room /\ Quiet /\ log' = Append(log, c)
      /\ UNCHANGED <<mark, changed, client, buffer, page, rows, filter, panel, flight, asked, setting>>
  BY DEF Record, broker, browser
<1>2. TypeOK
  BY DEF IInv
<1>3. /\ \A d \in Command : Row(d)' = IF c = d THEN Row(d) + 1 ELSE Row(d)
      /\ \A d \in Command : Row(d)' >= Row(d) /\ Row(d)' \in Nat
      /\ Coming(c)'
      /\ \A d \in Command : Coming(d) => Coming(d)'
      /\ log' \in Seq(Command) /\ Len(log') = Len(log) + 1
      /\ PayloadsAreCurrent'
  BY <1>1, <1>2, LogStep DEF IInv, broker
<1>4. \A d \in Command : Row(d) \in Nat
  BY <1>2, RowFacts
<1>5. \A kind : Pending(kind)' = Pending(kind) /\ Answered(kind)' = Answered(kind)
  BY <1>1 DEF Pending, Answered
<1>6. Unanswered' = Unanswered /\ IsFiniteSet(flight) /\ Cardinality(Unanswered) \in Nat
  <2>1. Unanswered' = Unanswered /\ IsFiniteSet(flight) /\ Unanswered \in SUBSET flight
    BY <1>1 DEF IInv, RoomKept, Unanswered, Pending
  <2> QED
    BY <2>1, FS_Subset, FS_CardinalityType
<1>7. Len(log) + Cardinality(Unanswered) < MaxEvents /\ Len(log) \in Nat /\ MaxEvents \in Nat
  BY <1>1, <1>2, DashboardConstants DEF Room, Unanswered, TypeOK
<1>8. RoomKept'
  BY <1>1, <1>3, <1>6, <1>7 DEF RoomKept
<1>9. TypeOK'
  BY <1>1, <1>2, <1>3, <1>6, <1>7 DEF TypeOK
<1>10. PageInOrder' /\ OneRequest'
  BY <1>1, <1>5 DEF IInv, PageInOrder, OneRequest
<1>11. ASSUME NEW d \in Command
       PROVE  Seen(d)'
  BY <1>1, <1>3, <1>4, <1>5 DEF IInv, Seen
<1>12. LoadIsCurrent'
  BY <1>1 DEF LoadIsCurrent, Quiet
<1>13. FreshAll'
  <2> SUFFICES ASSUME Ready', NEW d \in Command
               PROVE  (RowsFresh(d) /\ ListFresh(d) /\ RedactFresh(d) /\ BufferFresh(d)
                         /\ PanelFresh(d) /\ DetailFresh(d))'
    BY DEF FreshAll
  <2>1. Ready /\ page = "live" /\ page' = "live"
    BY <1>1 DEF Ready, Quiet
  <2>2. RowsFresh(d) /\ ListFresh(d) /\ RedactFresh(d) /\ BufferFresh(d)
          /\ PanelFresh(d) /\ DetailFresh(d)
    BY <2>1 DEF IInv, FreshAll
  <2>3. CASE c = d
    BY <1>3, <2>1, <2>3
       DEF RowsFresh, ListFresh, RedactFresh, BufferFresh, PanelFresh, DetailFresh, Fresh, Late
  <2>4. CASE c # d
    <3>1. Row(d)' = Row(d) /\ (Coming(d) => Coming(d)')
      BY <1>3, <2>4
    <3> QED
      BY <1>1, <1>5, <2>1, <2>2, <3>1
         DEF RowsFresh, ListFresh, RedactFresh, BufferFresh, PanelFresh, DetailFresh, Fresh, Late
  <2> QED
    BY <2>3, <2>4
<1>14. Ended'
  BY <1>1, <1>3, <1>4, <1>5 DEF IInv, Ended
<1> QED
  BY <1>3, <1>8, <1>9, <1>10, <1>11, <1>12, <1>13, <1>14 DEF IInv

\* What two of the filters let through.
LEMMA MatchCases ==
  \A v : (Matches(v, "all") <=> v > 0) /\ (Matches(v, "ended") <=> v > 1)
BY DEF Matches

\* What the handlers answer, and what a redaction adds to the log.
LEMMA AnswerFacts ==
  ASSUME IInv, NEW m \in flight, Answer(m)
  PROVE  \E new :
    /\ ~m.answered
    /\ flight' = (flight \ {m}) \cup {new}
    /\ new.ask = m.ask /\ new.answered = TRUE
    /\ new \in [ask : Request, answered : BOOLEAN, answer : Payload]
    /\ UNCHANGED <<mark, changed, client, buffer, page, rows, filter, panel, asked, setting>>
    /\ IF m.ask.kind = "redact" THEN log' = Append(log, m.ask.id) /\ Quiet ELSE log' = log
    /\ \A c \in Command :
         new.answer[c] = IF IF m.ask.kind = "list" THEN Matches(Row(c)', m.ask.filter)
                                                  ELSE c = m.ask.id
                         THEN Row(c)' ELSE 0
    /\ log' \in Seq(Command) /\ Len(log') <= MaxEvents /\ RoomKept'
<1> DEFINE r == m.ask
           after == IF r.kind = "redact" THEN Append(log, r.id) ELSE log
           rowsNow == [c \in Command |->
             LET v == VersionIn(after, c)
             IN  IF IF r.kind = "list" THEN Matches(v, r.filter) ELSE c = r.id THEN v ELSE 0]
           new == [m EXCEPT !.answered = TRUE, !.answer = rowsNow]
<1>1. /\ ~m.answered /\ (after # log => Quiet) /\ log' = after
      /\ flight' = (flight \ {m}) \cup {new}
      /\ UNCHANGED <<broker, page, rows, filter, panel, asked, setting>>
  BY Zenon DEF Answer
<1>2. UNCHANGED <<mark, changed, client, buffer, page, rows, filter, panel, asked, setting>>
  BY <1>1 DEF broker
<1>3. /\ TypeOK /\ m.ask \in Request /\ m \in [ask : Request, answered : BOOLEAN, answer : Payload]
      /\ m.ask.kind # "list" => m.ask.id \in Command
      /\ log \in Seq(Command) /\ Len(log) \in Nat /\ MaxEvents \in Nat
  BY Kinds, DashboardConstants DEF IInv, TypeOK
<1>4. ASSUME NEW c \in Command
      PROVE  rowsNow[c] = IF IF m.ask.kind = "list" THEN Matches(Row(c)', m.ask.filter)
                                                   ELSE c = m.ask.id
                          THEN Row(c)' ELSE 0
  BY <1>1 DEF Row
<1>5. IF m.ask.kind = "redact" THEN log' = Append(log, m.ask.id) /\ Quiet ELSE log' = log
  <2>1. CASE r.kind = "redact"
    <3>1. r.id \in Command
      BY <1>3, <2>1
    <3>2. Len(Append(log, r.id)) = Len(log) + 1
      BY <1>3, <3>1, AppendProperties
    <3>3. Append(log, r.id) # log
      BY <1>3, <3>2
    <3>4. after = Append(log, r.id)
      BY <2>1
    <3> HIDE DEF after
    <3> QED
      BY <1>1, <2>1, <3>3, <3>4
  <2>2. CASE r.kind # "redact"
    BY <1>1, <2>2
  <2> QED
    BY <2>1, <2>2
<1>6. new.ask = m.ask /\ new.answered = TRUE /\ new.answer = rowsNow
  BY <1>3
<1>7. Unanswered' = Unanswered \ {m}
  BY <1>1, <1>6 DEF Unanswered, Pending
<1>8. IsFiniteSet(flight) /\ IsFiniteSet(Unanswered)
  <2>1. IsFiniteSet(flight) /\ Unanswered \in SUBSET flight
    BY DEF IInv, RoomKept, Unanswered, Pending
  <2> QED
    BY <2>1, FS_Subset
<1>9. IsFiniteSet(flight')
  BY <1>1, <1>8, FS_RemoveElement, FS_AddElement
<1>10. /\ Cardinality(Unanswered') = IF m \in Unanswered THEN Cardinality(Unanswered) - 1
                                     ELSE Cardinality(Unanswered)
       /\ Cardinality(Unanswered) \in Nat /\ Cardinality(Unanswered') \in Nat
  BY <1>7, <1>8, FS_RemoveElement, FS_CardinalityType
<1>11. m.ask.kind = "redact" => m \in Unanswered
  BY <1>1 DEF Unanswered, Pending
<1>12. Len(log) + Cardinality(Unanswered) <= MaxEvents
  BY DEF IInv, RoomKept
<1>13. /\ log' \in Seq(Command)
       /\ Len(log') = IF m.ask.kind = "redact" THEN Len(log) + 1 ELSE Len(log)
  <2>1. CASE m.ask.kind = "redact"
    <3>1. m.ask.id \in Command /\ log' = Append(log, m.ask.id)
      BY <1>3, <1>5, <2>1
    <3> QED
      BY <1>3, <2>1, <3>1, AppendProperties
  <2>2. CASE m.ask.kind # "redact"
    BY <1>3, <1>5, <2>2
  <2> QED
    BY <2>1, <2>2
<1>14. Len(log') <= MaxEvents /\ RoomKept'
  BY <1>3, <1>9, <1>10, <1>11, <1>12, <1>13 DEF RoomKept
<1>15. new \in [ask : Request, answered : BOOLEAN, answer : Payload]
  <2>1. ASSUME NEW c \in Command
        PROVE  rowsNow[c] \in Version
    <3>1. Row(c)' \in Nat /\ Row(c)' <= Len(log')
      BY <1>13, VersionBound DEF Row
    <3>2. Row(c)' \in Version /\ 0 \in Version
      BY <1>3, <1>13, <1>14, <3>1 DEF Version
    <3> QED
      BY <1>4, <3>2
  <2>2. rowsNow \in Payload
    BY <2>1 DEF Payload
  <2> HIDE DEF rowsNow
  <2> QED
    BY <1>3, <2>2
<1> HIDE DEF rowsNow, after, new
<1> QED
  BY <1>1, <1>2, <1>4, <1>5, <1>6, <1>13, <1>14, <1>15


\* An answer carries the rows as they are.
LEMMA AnswerStep ==
  ASSUME IInv, NEW m \in flight, Answer(m)
  PROVE  IInv'
<1>1. PICK new :
    /\ ~m.answered
    /\ flight' = (flight \ {m}) \cup {new}
    /\ new.ask = m.ask /\ new.answered = TRUE
    /\ new \in [ask : Request, answered : BOOLEAN, answer : Payload]
    /\ UNCHANGED <<mark, changed, client, buffer, page, rows, filter, panel, asked, setting>>
    /\ IF m.ask.kind = "redact" THEN log' = Append(log, m.ask.id) /\ Quiet ELSE log' = log
    /\ \A c \in Command :
         new.answer[c] = IF IF m.ask.kind = "list" THEN Matches(Row(c)', m.ask.filter)
                                                  ELSE c = m.ask.id
                         THEN Row(c)' ELSE 0
    /\ log' \in Seq(Command) /\ Len(log') <= MaxEvents /\ RoomKept'
  BY Zenon, AnswerFacts
<1>2. /\ TypeOK /\ m.ask \in Request
      /\ m.ask.kind = "list" => m.ask.filter \in Filter
      /\ m.ask.kind # "list" => m.ask.id \in Command
      /\ m.ask.kind \in {"list", "detail", "redact"}
  BY Kinds DEF IInv
<1>3. /\ \A c \in Command :
           /\ Row(c) \in Nat /\ Row(c)' \in Nat /\ Row(c)' >= Row(c)
           /\ Row(c)' = IF m.ask.kind = "redact" /\ m.ask.id = c THEN Row(c) + 1 ELSE Row(c)
           /\ Coming(c) => Coming(c)'
           /\ m.ask.kind = "redact" /\ m.ask.id = c => Coming(c)'
      /\ PayloadsAreCurrent' /\ Len(log') >= Len(log)
  <2>1. CASE m.ask.kind = "redact"
    <3>1. m.ask.id \in Command /\ log' = Append(log, m.ask.id)
          /\ UNCHANGED <<broker, page, setting>>
      BY <1>1, <1>2, <2>1 DEF broker
    <3>2. Len(log) \in Nat
      BY <1>2 DEF TypeOK
    <3> QED
      BY <1>2, <2>1, <3>1, <3>2, LogStep, RowFacts DEF IInv
  <2>2. CASE m.ask.kind # "redact"
    <3>1. UNCHANGED <<database, broker, setting>> /\ Len(log) \in Nat
      BY <1>1, <1>2, <2>2 DEF broker, database, TypeOK
    <3> QED
      BY <1>1, <1>2, <2>2, <3>1, StreamStays, RowFacts DEF IInv
  <2> QED
    BY <2>1, <2>2
<1>4. TypeOK'
  BY <1>1, <1>2, <1>3 DEF TypeOK
<1>5. /\ \A n \in flight' : n \in flight \/ n = new
      /\ \A n \in flight : n = m \/ n \in flight'
      /\ new \in flight'
  BY <1>1
<1>6. PageInOrder'
  BY <1>1 DEF IInv, PageInOrder, Pending
<1>7. OneRequest'
  BY <1>1 DEF IInv, OneRequest, Pending
<1>8. ASSUME NEW d \in Command
      PROVE  Seen(d)'
  <2>1. Seen(d) /\ Row(d) \in Nat /\ Row(d)' \in Nat /\ Row(d)' >= Row(d)
    BY <1>3 DEF IInv
  <2>2. /\ d \in changed' => Row(d)' > 0
        /\ rows'[d] > 0 => Row(d)' > 0
        /\ \A i \in DOMAIN buffer' : buffer'[i][d] > 0 => Row(d)' > 0
        /\ panel'.id = d => Row(d)' > 0
    BY <1>1, <2>1 DEF Seen
  <2>3. new.answer[d] > 0 => Row(d)' > 0
    BY <1>1, <2>1
  <2>4. new.ask.kind # "list" /\ new.ask.id = d => Row(d)' > 0
    BY <1>1, <2>1 DEF Seen
  <2>5. \A n \in flight' : n.answer[d] > 0 => Row(d)' > 0
    BY <1>5, <2>1, <2>3 DEF Seen
  <2>6. \A n \in flight' : n.ask.kind # "list" /\ n.ask.id = d => Row(d)' > 0
    BY <1>5, <2>1, <2>4 DEF Seen
  <2>7. new.ask.kind = "redact" /\ new.ask.id = d => Row(d)' > 1
    BY <1>1, <1>3, <2>1 DEF Seen
  <2>8. \A n \in Answered("redact")' : n.ask.id = d => Row(d)' > 1
    <3>1. \A n \in Answered("redact")' : n = new \/ n \in Answered("redact")
      BY <1>5 DEF Answered, Pending
    <3>2. new \in Answered("redact")' => new.ask.kind = "redact"
      BY DEF Answered, Pending
    <3> QED
      BY <2>1, <2>7, <3>1, <3>2 DEF Seen
  <2> QED
    BY <2>2, <2>5, <2>6, <2>8 DEF Seen
<1>9. LoadIsCurrent'
  <2> SUFFICES ASSUME setting = {}, page = "load", NEW c \in Command
               PROVE  \A n \in flight' : n.answer[c] = Row(c)'
    BY <1>1 DEF LoadIsCurrent
  <2>1. flight' = {new} /\ m.ask.kind = "list" /\ m.ask.filter = "all"
    BY <1>1 DEF IInv, PageInOrder
  <2>2. new.answer[c] = Row(c)'
    BY <1>1, <1>3, <2>1 DEF Matches
  <2> QED
    BY <2>1, <2>2
<1>10. FreshAll'
  <2> SUFFICES ASSUME Ready', NEW d \in Command
               PROVE  (RowsFresh(d) /\ ListFresh(d) /\ RedactFresh(d) /\ BufferFresh(d)
                         /\ PanelFresh(d) /\ DetailFresh(d))'
    BY DEF FreshAll
  <2>1. Ready /\ page' = page /\ setting = {}
    BY <1>1 DEF Ready
  <2>2. flight = {m} /\ flight' = {new} /\ (m.ask.kind = "list" => m.ask.filter = filter)
    BY <1>1, <2>1 DEF IInv, OneRequest, Pending
  <2>3. RowsFresh(d) /\ ListFresh(d) /\ RedactFresh(d) /\ BufferFresh(d)
          /\ PanelFresh(d) /\ DetailFresh(d)
    BY <2>1 DEF IInv, FreshAll
  <2>4. CASE m.ask.kind = "redact" /\ m.ask.id = d
    <3>1. page' = "live" /\ Coming(d)'
      BY <1>1, <1>3, <2>1, <2>4 DEF Quiet, Ready
    <3> QED
      BY <3>1 DEF RowsFresh, ListFresh, RedactFresh, BufferFresh, PanelFresh, DetailFresh, Fresh, Late
  <2>5. CASE ~(m.ask.kind = "redact" /\ m.ask.id = d)
    <3>1. Row(d)' = Row(d) /\ (Late(d) => Late(d)') /\ (Coming(d) => Coming(d)')
      BY <1>3, <2>1, <2>5 DEF Late
    <3>2. /\ \A v : Fresh(v, d) => Fresh(v, d)'
          /\ BufferFresh(d)'
      BY <1>1, <2>3, <3>1 DEF Fresh, BufferFresh
    <3>3. \A kind : \A n \in Answered(kind)' : n = new /\ m.ask.kind = kind
      BY <1>1, <2>2 DEF Answered, Pending
    <3>4. RedactFresh(d)'
      BY <1>1, <2>5, <3>3 DEF RedactFresh
    <3>5. DetailFresh(d)'
      BY <1>1, <3>3 DEF DetailFresh, Fresh
    <3>6. m.ask.kind = "list" => new.answer[d] = Row(d)' \/ (new.answer[d] = 0 /\ filter' # "all")
      <4>1. CASE filter = "all"
        BY <1>1, <1>3, <2>2, <4>1, MatchCases
      <4>2. CASE filter # "all"
        BY <1>1, <4>2
      <4> QED
        BY <4>1, <4>2
    <3>7. ListFresh(d)'
      BY <3>3, <3>6 DEF ListFresh, Fresh
    <3>8. RowsFresh(d)'
      <4>1. CASE Fresh(rows[d], d)
        BY <1>1, <3>2, <4>1 DEF RowsFresh
      <4>2. CASE rows[d] = 0 /\ filter # "all"
        BY <1>1, <4>2 DEF RowsFresh
      <4>3. CASE \E n \in Pending("list") : n.ask.filter = "all" /\ (n.answered => n.answer[d] = Row(d))
        <5>1. m.ask.kind = "list" /\ m.ask.filter = "all"
          BY <2>2, <4>3 DEF Pending
        <5>2. new.answer[d] = Row(d)'
          BY <1>1, <1>3, <5>1 DEF Matches
        <5>3. new \in Pending("list")' /\ new.ask.filter = "all"
          BY <1>1, <1>5, <5>1 DEF Pending
        <5> QED
          BY <5>2, <5>3 DEF RowsFresh
      <4> QED
        BY <2>3, <4>1, <4>2, <4>3 DEF RowsFresh
    <3>9. PanelFresh(d)'
      <4>1. (\E n \in Pending("detail") : n.ask.id = d) => (\E n \in Pending("detail") : n.ask.id = d)'
        BY <1>1, <2>2 DEF Pending
      <4> QED
        BY <1>1, <2>3, <3>2, <4>1 DEF PanelFresh
    <3> QED
      BY <3>2, <3>4, <3>5, <3>7, <3>8, <3>9
  <2> QED
    BY <2>4, <2>5
<1>11. Ended'
  <2> SUFFICES ASSUME "overtake" \notin setting, filter = "ended", NEW c \in Command
               PROVE  (/\ Pending("list") = {} /\ rows[c] > 0 => Row(c) > 1
                       /\ \A n \in Answered("list") : n.answer[c] > 0 => Row(c) > 1)'
    BY <1>1 DEF Ended
  <2>1. Row(c) \in Nat /\ Row(c)' \in Nat /\ Row(c)' >= Row(c)
    BY <1>3
  <2>2. flight' = {new} /\ flight = {m} /\ (m.ask.kind = "list" => m.ask.filter = "ended")
    BY <1>1 DEF IInv, OneRequest, Pending
  <2>3. (Pending("list") = {} /\ rows[c] > 0 => Row(c) > 1)'
    <3>1. Pending("list")' = {} => Pending("list") = {}
      BY <1>1, <2>2 DEF Pending
    <3> QED
      BY <1>1, <2>1, <3>1 DEF IInv, Ended
  <2>4. m.ask.kind = "list" /\ new.answer[c] > 0 => Row(c)' > 1
    BY <1>1, <2>1, <2>2, MatchCases
  <2>5. \A n \in Answered("list")' : n = new /\ m.ask.kind = "list"
    BY <1>1, <2>2 DEF Answered, Pending
  <2> QED
    BY <2>3, <2>4, <2>5
<1> QED
  BY <1>1, <1>3, <1>4, <1>6, <1>7, <1>8, <1>9, <1>10, <1>11 DEF IInv

----------------------------------------------------------------------------
(* The broker.                                                             *)

\* What is sent last of a command is what the last payload with it carries.
LEMMA BufferAppend ==
  ASSUME buffer \in Seq(Payload), NEW p \in Payload, buffer' = Append(buffer, p),
         NEW c \in Command
  PROVE  /\ buffer' \in Seq(Payload) /\ Len(buffer') = Len(buffer) + 1
         /\ \A i \in DOMAIN buffer' :
                \/ i \in DOMAIN buffer /\ buffer'[i] = buffer[i]
                \/ i = Len(buffer) + 1 /\ buffer'[i] = p
         /\ p[c] > 0 => LastIn(c)' = {Len(buffer) + 1} /\ buffer'[Len(buffer) + 1] = p
         /\ p[c] = 0 => /\ LastIn(c)' = LastIn(c)
                        /\ \A i \in LastIn(c) : buffer'[i] = buffer[i]
<1> DEFINE n == Len(buffer) + 1
<1>1. /\ buffer' \in Seq(Payload) /\ Len(buffer') = n
      /\ \A i \in 1..Len(buffer) : buffer'[i] = buffer[i]
      /\ buffer'[n] = p
  BY AppendProperties
<1>2. Len(buffer) \in Nat /\ DOMAIN buffer = 1..Len(buffer) /\ DOMAIN buffer' = 1..n
  BY <1>1
<1>3. \A i \in DOMAIN buffer' :
          \/ i \in DOMAIN buffer /\ buffer'[i] = buffer[i]
          \/ i = n /\ buffer'[i] = p
  BY <1>1, <1>2
<1>4. ASSUME p[c] > 0
      PROVE  LastIn(c)' = {n}
  <2>1. n \in LastIn(c)'
    BY <1>1, <1>2, <1>4 DEF LastIn
  <2>2. ASSUME NEW i \in LastIn(c)'
        PROVE  i = n
    <3>1. i \in 1..n /\ \A j \in 1..n : j > i => buffer'[j][c] = 0
      BY <1>2, <2>2 DEF LastIn
    <3>2. n \in 1..n /\ n \in Nat /\ i \in Nat
      BY <1>2, <3>1
    <3>3. ~(n > i)
      BY <1>1, <1>4, <3>1, <3>2
    <3> QED
      BY <3>1, <3>2, <3>3
  <2> QED
    BY <2>1, <2>2
<1>5. ASSUME p[c] = 0
      PROVE  /\ LastIn(c)' = LastIn(c)
             /\ \A i \in LastIn(c) : buffer'[i] = buffer[i]
  <2>1. ASSUME NEW i \in LastIn(c)'
        PROVE  i \in LastIn(c)
    <3>1. i \in 1..n /\ buffer'[i][c] > 0 /\ \A j \in 1..n : j > i => buffer'[j][c] = 0
      BY <1>2, <2>1 DEF LastIn
    <3>2. i \in 1..Len(buffer)
      BY <1>1, <1>2, <1>5, <3>1
    <3> QED
      BY <1>1, <1>2, <3>1, <3>2 DEF LastIn
  <2>2. ASSUME NEW i \in LastIn(c)
        PROVE  i \in LastIn(c)'
    <3>1. i \in 1..Len(buffer) /\ buffer[i][c] > 0
          /\ \A j \in 1..Len(buffer) : j > i => buffer[j][c] = 0
      BY <1>2, <2>2 DEF LastIn
    <3>2. i \in 1..n /\ buffer'[i][c] > 0 /\ \A j \in 1..n : j > i => buffer'[j][c] = 0
      BY <1>1, <1>2, <1>3, <1>5, <3>1
    <3> QED
      BY <1>2, <3>2 DEF LastIn
  <2> QED
    BY <1>1, <1>2, <2>1, <2>2 DEF LastIn
<1> QED
  BY <1>1, <1>3, <1>4, <1>5

\* The broker's tick collects what it reads.
LEMMA PollStep ==
  ASSUME IInv, Poll
  PROVE  IInv'
<1> DEFINE next == IF Len(log) - mark > PollLimit THEN mark + PollLimit ELSE Len(log)
<1>1. /\ changed = {}
      /\ IF client
           THEN mark' = next /\ changed' = {log[i] : i \in (mark + 1)..next}
           ELSE mark' = Len(log) /\ UNCHANGED changed
      /\ UNCHANGED <<log, client, buffer, page, rows, filter, panel, flight, asked, setting>>
  BY DEF Poll, database, browser
<1>2. TypeOK /\ log \in Seq(Command) /\ mark \in 0..Len(log) /\ Len(log) \in Nat /\ client \in BOOLEAN
  BY DEF IInv, TypeOK
<1>3. next \in mark..Len(log) /\ next \in Nat
  BY <1>2, DashboardConstants
<1> HIDE DEF next
<1>4. \A kind : Pending(kind)' = Pending(kind) /\ Answered(kind)' = Answered(kind)
  BY <1>1 DEF Pending, Answered
<1>5. \A d \in Command : /\ Row(d)' = Row(d) /\ Row(d) \in Nat /\ LastIn(d)' = LastIn(d)
  BY <1>1, <1>2, RowFacts DEF Row, LastIn
<1>6. ASSUME NEW i \in (mark + 1)..next
      PROVE  i \in DOMAIN log /\ log[i] \in Command
  BY <1>2, <1>3
<1>7. TypeOK'
  <2>1. mark' \in 0..Len(log) /\ changed' \subseteq Command
    BY <1>1, <1>2, <1>3, <1>6
  <2> QED
    BY <1>1, <1>2, <2>1 DEF TypeOK
<1>8. RoomKept' /\ PageInOrder' /\ OneRequest'
  BY <1>1, <1>4 DEF IInv, RoomKept, Unanswered, PageInOrder, OneRequest
<1>9. ASSUME NEW d \in Command
      PROVE  Seen(d)'
  <2>1. d \in changed' => Row(d)' > 0
    <3> SUFFICES ASSUME d \in changed'
                 PROVE  Row(d) > 0
      BY <1>5
    <3>1. PICK i \in (mark + 1)..next : log[i] = d
      BY <1>1
    <3>2. i \in DOMAIN log
      BY <1>6, <3>1
    <3> QED
      BY <1>2, <3>1, <3>2, VersionSeen DEF Row
  <2> QED
    BY <1>1, <1>4, <1>5, <2>1 DEF IInv, Seen
<1>10. ASSUME client, NEW d \in Command, Coming(d)
       PROVE  Coming(d)'
  <2>1. CASE \E i \in DOMAIN log : i > mark /\ log[i] = d
    <3>1. PICK i \in DOMAIN log : i > mark /\ log[i] = d
      BY <2>1
    <3>2. i \in Nat /\ mark \in Nat
      BY <1>2
    <3>3. CASE i <= next
      BY <1>1, <1>3, <1>10, <3>1, <3>2, <3>3 DEF Coming
    <3>4. CASE i > next
      BY <1>1, <1>10, <3>1, <3>4 DEF Coming
    <3> QED
      BY <1>3, <3>2, <3>3, <3>4
  <2>2. CASE \E i \in LastIn(d) : buffer[i][d] = Row(d)
    BY <1>1, <1>5, <2>2 DEF Coming
  <2> QED
    BY <1>1, <1>10, <2>1, <2>2 DEF Coming
<1>11. LoadIsCurrent' /\ Ended'
  BY <1>1, <1>4, <1>5 DEF IInv, LoadIsCurrent, Ended
<1>12. FreshAll'
  <2> SUFFICES ASSUME Ready', NEW d \in Command
               PROVE  (RowsFresh(d) /\ ListFresh(d) /\ RedactFresh(d) /\ BufferFresh(d)
                         /\ PanelFresh(d) /\ DetailFresh(d))'
    BY DEF FreshAll
  <2>1. Ready
    BY <1>1 DEF Ready
  <2>2. RowsFresh(d) /\ ListFresh(d) /\ RedactFresh(d) /\ BufferFresh(d)
          /\ PanelFresh(d) /\ DetailFresh(d)
    BY <2>1 DEF IInv, FreshAll
  <2>3. \A v : Fresh(v, d) => Fresh(v, d)'
    BY <1>1, <1>5, <1>10 DEF IInv, PageInOrder, Fresh, Late
  <2>4. BufferFresh(d)'
    <3>1. CASE client
      BY <1>1, <1>10, <2>2, <3>1 DEF BufferFresh
    <3>2. CASE ~client
      <4>1. buffer' = << >>
        BY <1>1, <3>2 DEF IInv, PageInOrder
      <4> QED
        BY <4>1 DEF BufferFresh
    <3> QED
      BY <3>1, <3>2
  <2> QED
    BY <1>1, <1>4, <1>5, <2>2, <2>3, <2>4
       DEF RowsFresh, ListFresh, RedactFresh, PanelFresh, DetailFresh
<1>13. PayloadsAreCurrent'
  <2> SUFFICES ASSUME NEW c \in Command, NEW i \in LastIn(c)', c \notin changed',
                      setting \cap {"slow", "error"} = {}
               PROVE  buffer[i][c] >= VersionIn(SubSeq(log, 1, mark'), c)
    BY <1>1 DEF PayloadsAreCurrent
  <2>1. i \in LastIn(c) /\ client
    <3>1. i \in LastIn(c)
      BY <1>5
    <3> QED
      BY <3>1 DEF LastIn, IInv, PageInOrder
  <2>2. mark' = next /\ \A j \in (mark + 1)..next : log[j] # c
    BY <1>1, <2>1
  <2>3. VersionIn(SubSeq(log, 1, next), c) = VersionIn(SubSeq(log, 1, mark), c)
    BY <1>2, <1>3, <2>2, PrefixQuiet
  <2> QED
    BY <1>1, <2>1, <2>2, <2>3 DEF IInv, PayloadsAreCurrent
<1> QED
  BY <1>7, <1>8, <1>9, <1>11, <1>12, <1>13 DEF IInv

\* The rows collected are sent, when there is a page and room for them.
LEMMA PublishStep ==
  ASSUME IInv, Publish
  PROVE  IInv'
<1>1. PICK S \in (IF "error" \in setting THEN SUBSET changed ELSE {changed}) :
        LET payload == [c \in Command |-> IF c \in S THEN Row(c) ELSE 0]
        IN  IF ~client \/ S = {}
              THEN UNCHANGED buffer
              ELSE \/ /\ Len(buffer) < BufferSize
                      /\ buffer' = Append(buffer, payload)
                   \/ /\ Len(buffer) = BufferSize /\ "slow" \in setting
                      /\ UNCHANGED buffer
  BY Zenon DEF Publish
<1> DEFINE payload == [c \in Command |-> IF c \in S THEN Row(c) ELSE 0]
<1>2. /\ changed # {} /\ changed' = {}
      /\ IF ~client \/ S = {}
           THEN UNCHANGED buffer
           ELSE \/ Len(buffer) < BufferSize /\ buffer' = Append(buffer, payload)
                \/ Len(buffer) = BufferSize /\ "slow" \in setting /\ UNCHANGED buffer
      /\ UNCHANGED <<log, mark, client, page, rows, filter, panel, flight, asked, setting>>
  BY <1>1 DEF Publish, database, browser
<1>3. TypeOK /\ changed \subseteq Command /\ S \subseteq changed /\ ("error" \notin setting => S = changed)
      /\ log \in Seq(Command) /\ mark \in 0..Len(log)
      /\ buffer \in Seq(Payload) /\ client \in BOOLEAN /\ Len(buffer) \in Nat
  BY DEF IInv, TypeOK
<1>4. /\ payload \in Payload
      /\ \A c \in Command : payload[c] = IF c \in S THEN Row(c) ELSE 0
  BY <1>3, RowFacts DEF Payload
<1> HIDE DEF payload
<1>5. \A kind : Pending(kind)' = Pending(kind) /\ Answered(kind)' = Answered(kind)
  BY <1>2 DEF Pending, Answered
<1>6. \A d \in Command : Row(d)' = Row(d) /\ Row(d) \in Nat /\ (d \in S => Row(d) > 0)
  BY <1>2, <1>3, RowFacts DEF Row, IInv, Seen
<1>7. /\ RoomKept' /\ PageInOrder' /\ OneRequest' /\ LoadIsCurrent' /\ Ended'
  BY <1>2, <1>5, <1>6
     DEF IInv, RoomKept, Unanswered, PageInOrder, OneRequest, LoadIsCurrent, Ended
<1>8. CASE UNCHANGED buffer
  <2>1. ~client \/ S = {} \/ "slow" \in setting
    <3>1. client /\ S # {} /\ Len(buffer) < BufferSize => buffer' = Append(buffer, payload)
      BY <1>2
    <3>2. buffer # Append(buffer, payload)
      <4>1. Len(Append(buffer, payload)) = Len(buffer) + 1
        BY <1>3, <1>4, AppendProperties
      <4> QED
        BY <1>3, <4>1
    <3> QED
      BY <1>2, <1>8, <3>2
  <2>2. TypeOK'
    BY <1>2, <1>3, <1>8 DEF TypeOK
  <2>3. ASSUME NEW d \in Command
        PROVE  Seen(d)'
    BY <1>2, <1>5, <1>6, <1>8 DEF IInv, Seen
  <2>4. FreshAll'
    <3> SUFFICES ASSUME Ready
                 PROVE  FreshAll'
      BY <1>2 DEF FreshAll, Ready
    <3>1. setting = {} /\ S = changed /\ ~client /\ page = "connect" /\ buffer = << >>
      BY <1>2, <1>3, <2>1 DEF Ready, IInv, PageInOrder
    <3> QED
      BY <1>2, <1>5, <1>6, <1>8, <3>1
         DEF IInv, FreshAll, Ready, RowsFresh, ListFresh, RedactFresh, BufferFresh, PanelFresh,
             DetailFresh, Fresh, Late
  <2>5. PayloadsAreCurrent'
    <3> SUFFICES ASSUME NEW c \in Command, NEW i \in LastIn(c)', setting \cap {"slow", "error"} = {}
                 PROVE  FALSE
      BY <1>2, <1>8 DEF PayloadsAreCurrent
    <3>1. client
      BY <1>8 DEF LastIn, IInv, PageInOrder
    <3>2. S = changed
      BY <1>3
    <3> QED
      BY <1>2, <2>1, <3>1, <3>2
  <2> QED
    BY <1>7, <2>2, <2>3, <2>4, <2>5 DEF IInv
<1>9. CASE client /\ S # {} /\ Len(buffer) < BufferSize /\ buffer' = Append(buffer, payload)
  <2>1. ASSUME NEW c \in Command
        PROVE  /\ buffer' \in Seq(Payload) /\ Len(buffer') = Len(buffer) + 1
               /\ \A i \in DOMAIN buffer' :
                      \/ i \in DOMAIN buffer /\ buffer'[i] = buffer[i]
                      \/ i = Len(buffer) + 1 /\ buffer'[i] = payload
               /\ payload[c] > 0 => /\ LastIn(c)' = {Len(buffer) + 1}
                                    /\ buffer'[Len(buffer) + 1] = payload
               /\ payload[c] = 0 => /\ LastIn(c)' = LastIn(c)
                                    /\ \A i \in LastIn(c) : buffer'[i] = buffer[i]
    BY ZenonT(40), <1>3, <1>4, <1>9, BufferAppend
  <2>2. buffer' \in Seq(Payload) /\ Len(buffer') <= BufferSize
    <3>1. buffer' \in Seq(Payload) /\ Len(buffer') = Len(buffer) + 1
      BY <1>3, <1>4, <1>9, AppendProperties
    <3> QED
      BY <1>3, <1>9, <3>1, DashboardConstants
  <2>3. TypeOK'
    BY <1>2, <1>3, <2>2 DEF TypeOK
  <2>4. ASSUME NEW d \in Command
        PROVE  Seen(d)'
    <3>1. \A i \in DOMAIN buffer' : buffer'[i][d] > 0 => Row(d)' > 0
      BY <1>4, <1>6, <2>1 DEF IInv, Seen
    <3> QED
      BY <1>2, <1>5, <1>6, <3>1 DEF IInv, Seen
  <2>5. ASSUME NEW d \in Command, d \in S
        PROVE  Coming(d)'
    BY <1>4, <1>6, <2>1, <2>5 DEF Coming
  <2>6. ASSUME NEW d \in Command, Coming(d), S = changed
        PROVE  Coming(d)'
    <3>1. CASE d \in S
      BY <2>5, <3>1
    <3>2. CASE d \notin S
      BY <1>2, <1>4, <1>6, <2>1, <2>6, <3>2 DEF Coming
    <3> QED
      BY <3>1, <3>2
  <2>7. FreshAll'
    <3> SUFFICES ASSUME Ready', NEW d \in Command
                 PROVE  (RowsFresh(d) /\ ListFresh(d) /\ RedactFresh(d) /\ BufferFresh(d)
                           /\ PanelFresh(d) /\ DetailFresh(d))'
      BY DEF FreshAll
    <3>1. Ready /\ S = changed
      BY <1>2, <1>3 DEF Ready
    <3>2. RowsFresh(d) /\ ListFresh(d) /\ RedactFresh(d) /\ BufferFresh(d)
            /\ PanelFresh(d) /\ DetailFresh(d)
      BY <3>1 DEF IInv, FreshAll
    <3>3. \A v : Fresh(v, d) => Fresh(v, d)'
      BY <1>2, <1>6, <2>6, <3>1 DEF Fresh, Late
    <3>4. BufferFresh(d)'
      <4> SUFFICES ASSUME NEW i \in DOMAIN buffer', buffer'[i][d] > 0
                   PROVE  Coming(d)'
        BY DEF BufferFresh
      <4>1. CASE i \in DOMAIN buffer /\ buffer'[i] = buffer[i]
        BY <2>6, <3>1, <3>2, <4>1 DEF BufferFresh
      <4>2. CASE buffer'[i] = payload
        BY <1>4, <2>5, <4>2
      <4> QED
        BY <2>1, <4>1, <4>2
    <3> QED
      BY <1>2, <1>5, <1>6, <3>2, <3>3, <3>4
         DEF RowsFresh, ListFresh, RedactFresh, PanelFresh, DetailFresh
  <2>8. PayloadsAreCurrent'
    <3> SUFFICES ASSUME NEW c \in Command, NEW i \in LastIn(c)', setting \cap {"slow", "error"} = {}
                 PROVE  buffer'[i][c] >= VersionIn(SubSeq(log, 1, mark), c)
      BY <1>2 DEF PayloadsAreCurrent
    <3>1. S = changed
      BY <1>3
    <3>2. CASE c \in S
      <4>1. buffer'[i][c] = Row(c)
        BY <1>4, <1>6, <2>1, <3>2
      <4>2. VersionIn(SubSeq(log, 1, mark), c) <= Row(c)
        BY <1>3, PrefixBelow DEF Row
      <4>3. VersionIn(SubSeq(log, 1, mark), c) \in Nat /\ Row(c) \in Nat
        <5>1. SubSeq(log, 1, mark) \in Seq(Command)
          BY <1>3
        <5> QED
          BY <1>6, <5>1, VersionBound
      <4> QED
        BY <4>1, <4>2, <4>3
    <3>3. CASE c \notin S
      <4>1. i \in LastIn(c) /\ buffer'[i] = buffer[i] /\ c \notin changed
        BY <1>4, <2>1, <3>1, <3>3
      <4> QED
        BY <4>1 DEF IInv, PayloadsAreCurrent
    <3> QED
      BY <3>2, <3>3
  <2> QED
    BY <1>7, <2>3, <2>4, <2>7, <2>8 DEF IInv
<1> QED
  BY <1>2, <1>8, <1>9

----------------------------------------------------------------------------
(* The stream opens, breaks and delivers.                                  *)

\* A subscriber starts with nothing sent to it.
LEMMA SubscribeStep ==
  ASSUME IInv, Subscribe
  PROVE  IInv'
<1>1. /\ page \in {"connect", "lost"} /\ page' = "live" /\ client' = TRUE /\ buffer' = << >>
      /\ UNCHANGED <<log, mark, changed, rows, filter, panel, flight, asked, setting>>
  BY DEF Subscribe, database
<1>2. TypeOK /\ BufferSize \in Nat /\ << >> \in Seq(Payload) /\ Len(<< >>) = 0
  BY DashboardConstants DEF IInv
<1>3. buffer = << >> /\ (page = "lost" => "drop" \in setting)
  BY <1>1 DEF IInv, PageInOrder
<1>4. \A kind : Pending(kind)' = Pending(kind) /\ Answered(kind)' = Answered(kind)
  BY <1>1 DEF Pending, Answered
<1>5. \A d \in Command : Row(d)' = Row(d)
  BY <1>1 DEF Row
<1>6. TypeOK'
  BY <1>1, <1>2 DEF TypeOK
<1>7. RoomKept' /\ PageInOrder' /\ OneRequest' /\ LoadIsCurrent' /\ Ended'
  BY <1>1, <1>4, <1>5
     DEF IInv, RoomKept, Unanswered, PageInOrder, OneRequest, LoadIsCurrent, Ended
<1>8. ASSUME NEW d \in Command
      PROVE  Seen(d)'
  BY <1>1, <1>4, <1>5 DEF IInv, Seen
<1>9. FreshAll'
  <2> SUFFICES ASSUME setting = {}
               PROVE  FreshAll'
    BY <1>1 DEF FreshAll, Ready
  <2>1. page = "connect" /\ Ready
    BY <1>1, <1>3 DEF Ready
  <2>2. \A d \in Command : ~Late(d) /\ BufferFresh(d)'
    BY <1>1, <2>1 DEF Late, BufferFresh
  <2> QED
    BY <1>1, <1>4, <1>5, <2>1, <2>2
       DEF IInv, FreshAll, RowsFresh, ListFresh, RedactFresh, PanelFresh, DetailFresh, Fresh
<1>10. PayloadsAreCurrent'
  BY <1>1 DEF PayloadsAreCurrent, LastIn
<1> QED
  BY <1>6, <1>7, <1>8, <1>9, <1>10 DEF IInv

\* A connection breaks.
LEMMA DisconnectStep ==
  ASSUME IInv, Disconnect
  PROVE  IInv'
<1>1. /\ page = "live" /\ "drop" \in setting
      /\ page' = "lost" /\ client' = FALSE /\ buffer' = << >>
      /\ UNCHANGED <<log, mark, changed, rows, filter, panel, flight, asked, setting>>
  BY DEF Disconnect, database
<1>2. TypeOK /\ BufferSize \in Nat /\ << >> \in Seq(Payload) /\ Len(<< >>) = 0
  BY DashboardConstants DEF IInv
<1>3. \A kind : Pending(kind)' = Pending(kind) /\ Answered(kind)' = Answered(kind)
  BY <1>1 DEF Pending, Answered
<1>4. \A d \in Command : Row(d)' = Row(d)
  BY <1>1 DEF Row
<1>5. TypeOK'
  <2>1. client' \in BOOLEAN
    BY <1>1
  <2>2. page' \in {"boot", "load", "connect", "live", "lost"}
    BY <1>1
  <2>3. buffer' \in Seq(Payload) /\ Len(buffer') <= BufferSize
    BY <1>1, <1>2
  <2> QED
    BY <1>1, <1>2, <2>1, <2>2, <2>3 DEF TypeOK
<1>6. RoomKept' /\ PageInOrder' /\ OneRequest' /\ LoadIsCurrent' /\ Ended' /\ FreshAll'
  BY <1>1, <1>3, <1>4
     DEF IInv, RoomKept, Unanswered, PageInOrder, OneRequest, LoadIsCurrent, Ended, FreshAll, Ready
<1>7. ASSUME NEW d \in Command
      PROVE  Seen(d)'
  BY <1>1, <1>3, <1>4 DEF IInv, Seen
<1>8. PayloadsAreCurrent'
  BY <1>1 DEF PayloadsAreCurrent, LastIn
<1> QED
  BY <1>5, <1>6, <1>7, <1>8 DEF IInv

\* What is left of the stream once its first payload is taken.
LEMMA BufferTail ==
  ASSUME buffer \in Seq(Payload), buffer # << >>, buffer' = Tail(buffer), NEW c \in Command
  PROVE  /\ buffer' \in Seq(Payload) /\ Len(buffer') = Len(buffer) - 1
         /\ Head(buffer) \in Payload /\ Head(buffer) = buffer[1] /\ 1 \in DOMAIN buffer
         /\ \A i \in DOMAIN buffer' : i + 1 \in DOMAIN buffer /\ buffer'[i] = buffer[i + 1]
         /\ \A i \in LastIn(c)' : i + 1 \in LastIn(c)
         /\ \A i \in LastIn(c) : i # 1 => i - 1 \in LastIn(c)' /\ buffer'[i - 1] = buffer[i]
<1>1. /\ buffer' \in Seq(Payload) /\ Len(buffer') = Len(buffer) - 1
      /\ \A i \in 1..Len(buffer') : buffer'[i] = buffer[i + 1]
      /\ Head(buffer) \in Payload
  BY HeadTailProperties
<1>2. /\ Len(buffer) \in Nat /\ Len(buffer) > 0 /\ Head(buffer) = buffer[1]
      /\ DOMAIN buffer = 1..Len(buffer)
  OBVIOUS
<1>3. DOMAIN buffer' = 1..(Len(buffer) - 1)
  BY <1>1
<1>4. \A i \in DOMAIN buffer' : i + 1 \in DOMAIN buffer /\ buffer'[i] = buffer[i + 1]
  BY <1>1, <1>2, <1>3
<1>5. ASSUME NEW i \in LastIn(c)'
      PROVE  i + 1 \in LastIn(c)
  <2>1. /\ i \in 1..(Len(buffer) - 1) /\ buffer'[i][c] > 0
        /\ \A j \in 1..(Len(buffer) - 1) : j > i => buffer'[j][c] = 0
    BY <1>3 DEF LastIn
  <2>2. i + 1 \in DOMAIN buffer /\ buffer[i + 1][c] > 0
    BY <1>3, <1>4, <2>1
  <2>3. ASSUME NEW j \in DOMAIN buffer, j > i + 1
        PROVE  buffer[j][c] = 0
    <3>1. j - 1 \in 1..(Len(buffer) - 1) /\ j - 1 > i /\ (j - 1) + 1 = j
      BY <1>2, <2>1, <2>3
    <3>2. buffer'[j - 1] = buffer[j]
      BY <1>3, <1>4, <3>1
    <3> QED
      BY <2>1, <3>1, <3>2
  <2> QED
    BY <2>2, <2>3 DEF LastIn
<1>6. ASSUME NEW i \in LastIn(c), i # 1
      PROVE  i - 1 \in LastIn(c)' /\ buffer'[i - 1] = buffer[i]
  <2>1. /\ i \in 1..Len(buffer) /\ buffer[i][c] > 0
        /\ \A j \in 1..Len(buffer) : j > i => buffer[j][c] = 0
    BY <1>2 DEF LastIn
  <2>2. i - 1 \in DOMAIN buffer' /\ (i - 1) + 1 = i
    BY <1>2, <1>3, <1>6, <2>1
  <2>3. buffer'[i - 1] = buffer[i]
    BY <1>4, <2>2
  <2>4. ASSUME NEW j \in DOMAIN buffer', j > i - 1
        PROVE  buffer'[j][c] = 0
    <3>1. j + 1 \in 1..Len(buffer) /\ j + 1 > i
      BY <1>2, <1>3, <2>1, <2>4
    <3> QED
      BY <1>4, <2>1, <3>1
  <2> QED
    BY <2>1, <2>2, <2>3, <2>4 DEF LastIn
<1>7. 1 \in DOMAIN buffer
  BY <1>2
<1> QED
  BY <1>1, <1>2, <1>4, <1>5, <1>6, <1>7

\* The page merges a payload, and asks again for what its panel shows.
LEMMA HandleEventStep ==
  ASSUME IInv, HandleEvent
  PROVE  IInv'
<1> DEFINE news == Head(buffer)
           touched(c) == news[c] > 0 /\ (rows[c] > 0 \/ filter = "all")
           again == \E c \in Command : c = panel.id /\ news[c] > 0
           r == [kind |-> "detail", id |-> panel.id]
<1>1. /\ page = "live" /\ buffer # << >> /\ MayAsk
      /\ rows' = [c \in Command |-> IF touched(c) THEN news[c] ELSE rows[c]]
      /\ flight' = IF again THEN Asking(r) ELSE flight
      /\ buffer' = Tail(buffer)
      /\ UNCHANGED <<log, mark, changed, client, page, filter, panel, asked, setting>>
  BY DEF HandleEvent, database
<1>2. TypeOK /\ buffer \in Seq(Payload) /\ rows \in Payload /\ Len(buffer) \in Nat
      /\ BufferSize \in Nat /\ Version \subseteq Nat
  BY DashboardConstants DEF IInv, TypeOK, Version
<1>3. /\ buffer' \in Seq(Payload) /\ Len(buffer') = Len(buffer) - 1
      /\ news \in Payload
      /\ \A i \in DOMAIN buffer' : i + 1 \in DOMAIN buffer /\ buffer'[i] = buffer[i + 1]
  BY <1>1, <1>2, HeadTailProperties
<1>4. /\ rows' \in Payload
      /\ \A c \in Command : rows'[c] = IF news[c] > 0 /\ (rows[c] > 0 \/ filter = "all")
                                       THEN news[c] ELSE rows[c]
  BY <1>1, <1>2, <1>3 DEF Payload
<1>5. again => panel.id \in Command /\ r \in Request
  BY DEF Request
<1>6. r.kind = "detail" /\ r.id = panel.id
  OBVIOUS
<1>7. ASSUME NEW d \in Command
      PROVE  panel.id = d /\ news[d] > 0 => again
  OBVIOUS
<1> HIDE DEF again, r
<1>8. /\ flight' \subseteq [ask : Request, answered : BOOLEAN, answer : Payload]
      /\ flight \subseteq flight'
      /\ \A m \in flight' : m \in flight \/ (m.ask = r /\ m.answered = FALSE /\ m.answer = Nothing)
      /\ again => \E m \in flight' : m.ask = r /\ m.answered = FALSE
      /\ flight = {} => \A m, n \in flight' : m = n
      /\ \A kind : Answered(kind)' = Answered(kind)
      /\ RoomKept'
  <2>1. CASE again
    <3>1. flight' = Asking(r) /\ r \in Request /\ r.kind # "redact" /\ log' = log
      BY <1>1, <1>5, <1>6, <2>1
    <3>2. \A kind : Answered(kind)' = Answered(kind)
      BY <1>2, <3>1, Answers
    <3>3. RoomKept'
      BY <3>1, AskRoom
    <3> QED
      BY ZenonT(40), <1>2, <3>1, <3>2, <3>3, AskFacts
  <2>2. CASE ~again
    <3>1. flight' = flight /\ log' = log
      BY <1>1, <2>2
    <3> QED
      BY <2>2, <3>1 DEF IInv, RoomKept, Unanswered, Pending, Answered, TypeOK
  <2> QED
    BY <2>1, <2>2
<1>9. Pending("list")' = Pending("list") /\ Pending("detail") \subseteq Pending("detail")'
      /\ (again => \E m \in Pending("detail")' : m.ask.id = panel.id)
  BY <1>6, <1>8 DEF Pending
<1>10. ASSUME NEW c \in Command
       PROVE  /\ news = buffer[1] /\ 1 \in DOMAIN buffer
              /\ \A i \in LastIn(c)' : i + 1 \in LastIn(c)
              /\ \A i \in LastIn(c) : i # 1 => i - 1 \in LastIn(c)' /\ buffer'[i - 1] = buffer[i]
  BY <1>1, <1>2, BufferTail
<1> HIDE DEF news
<1>11. \A d \in Command : /\ Row(d)' = Row(d) /\ Row(d) \in Nat
                          /\ news[d] \in Nat /\ rows[d] \in Nat /\ (news[d] > 0 => Row(d) > 0)
  <2>1. \A d \in Command : Row(d)' = Row(d) /\ Row(d) \in Nat
    BY <1>1, <1>2, RowFacts DEF Row
  <2>2. \A d \in Command : news[d] \in Nat /\ rows[d] \in Nat
    BY <1>2, <1>3 DEF Payload
  <2> QED
    BY <1>10, <2>1, <2>2 DEF IInv, Seen
<1>12. TypeOK'
  BY <1>1, <1>2, <1>3, <1>4, <1>8 DEF TypeOK
<1>13. PageInOrder' /\ LoadIsCurrent'
  BY <1>1, <1>9 DEF IInv, PageInOrder, LoadIsCurrent
<1>14. OneRequest'
  BY <1>1, <1>8, <1>9 DEF IInv, OneRequest, MayAsk
<1>15. ASSUME NEW d \in Command
       PROVE  Seen(d)'
  <2>1. \A i \in DOMAIN buffer' : buffer'[i][d] > 0 => Row(d)' > 0
    BY <1>3, <1>11 DEF IInv, Seen
  <2>2. rows'[d] > 0 => Row(d)' > 0
    BY <1>4, <1>11 DEF IInv, Seen
  <2>3. \A m \in flight' : m.answer[d] > 0 => Row(d)' > 0
    BY <1>8, <1>11 DEF IInv, Seen, Nothing
  <2>4. \A m \in flight' : m.ask.kind # "list" /\ m.ask.id = d => Row(d)' > 0
    BY <1>6, <1>8, <1>11 DEF IInv, Seen
  <2> QED
    BY <1>1, <1>8, <1>11, <2>1, <2>2, <2>3, <2>4 DEF IInv, Seen
<1>16. FreshAll'
  <2> SUFFICES ASSUME Ready', NEW d \in Command
               PROVE  (RowsFresh(d) /\ ListFresh(d) /\ RedactFresh(d) /\ BufferFresh(d)
                         /\ PanelFresh(d) /\ DetailFresh(d))'
    BY DEF FreshAll
  <2>1. Ready /\ page' = "live" /\ flight = {}
    BY <1>1 DEF Ready, MayAsk
  <2>2. /\ RowsFresh(d) /\ BufferFresh(d) /\ PanelFresh(d)
        /\ \A kind : Answered(kind)' = {}
        /\ Pending("list") = {} /\ Pending("detail") = {}
    BY <1>8, <2>1 DEF IInv, FreshAll, Answered, Pending
  <2>3. Coming(d) /\ ~Coming(d)' => news[d] = Row(d) /\ 1 \in LastIn(d)
    <3> SUFFICES ASSUME Coming(d), ~Coming(d)'
                 PROVE  news[d] = Row(d) /\ 1 \in LastIn(d)
      OBVIOUS
    <3>1. PICK i \in LastIn(d) : buffer[i][d] = Row(d)
      BY <1>1 DEF Coming
    <3>2. i = 1
      BY <1>10, <1>11, <3>1 DEF Coming
    <3> QED
      BY <1>10, <3>1, <3>2
  <2>4. BufferFresh(d)'
    <3> SUFFICES ASSUME NEW i \in DOMAIN buffer', buffer'[i][d] > 0
                 PROVE  Coming(d)'
      BY DEF BufferFresh
    <3>1. i + 1 \in DOMAIN buffer /\ buffer[i + 1][d] > 0
      BY <1>3
    <3>2. Coming(d)
      BY <2>2, <3>1 DEF BufferFresh
    <3>3. 1 \notin LastIn(d)
      <4>1. i \in Nat /\ i + 1 > 1
        BY <1>3
      <4>2. buffer[i + 1][d] # 0
        BY <3>1
      <4> QED
        BY <3>1, <4>1, <4>2 DEF LastIn
    <3> QED
      BY <2>3, <3>2, <3>3
  <2>5. CASE news[d] > 0
    <3>1. Coming(d)' \/ news[d] = Row(d)
      BY <1>10, <2>2, <2>3, <2>5 DEF BufferFresh
    <3>2. RowsFresh(d)'
      BY <1>1, <1>4, <1>11, <2>1, <2>5, <3>1 DEF RowsFresh, Fresh, Late
    <3>3. PanelFresh(d)'
      BY <1>1, <1>7, <1>9, <2>5 DEF PanelFresh
    <3> QED
      BY <2>2, <2>4, <3>2, <3>3 DEF ListFresh, RedactFresh, DetailFresh
  <2>6. CASE news[d] = 0
    <3>1. Coming(d) => Coming(d)'
      BY <1>10, <2>3, <2>6 DEF LastIn
    <3>2. Late(d) => Late(d)'
      BY <2>1, <3>1 DEF Late
    <3>3. RowsFresh(d)' /\ PanelFresh(d)'
      BY <1>1, <1>4, <1>11, <2>2, <2>6, <3>2 DEF RowsFresh, PanelFresh, Fresh
    <3> QED
      BY <2>2, <2>4, <3>3 DEF ListFresh, RedactFresh, DetailFresh
  <2> QED
    BY <1>11, <2>5, <2>6
<1>17. Ended'
  <2> SUFFICES ASSUME "overtake" \notin setting, filter = "ended", NEW c \in Command
               PROVE  (/\ Pending("list") = {} /\ rows[c] > 0 => Row(c) > 1
                       /\ \A n \in Answered("list") : n.answer[c] > 0 => Row(c) > 1)'
    BY <1>1 DEF Ended
  <2>1. flight = {}
    BY <1>1 DEF MayAsk
  <2>2. Pending("list") = {} /\ Answered("list")' = {}
    BY <1>8, <2>1 DEF Pending, Answered
  <2>3. rows'[c] > 0 => rows[c] > 0
    BY <1>4, <1>11
  <2> QED
    BY <1>11, <2>2, <2>3 DEF IInv, Ended
<1>18. PayloadsAreCurrent'
  <2> SUFFICES ASSUME NEW c \in Command, NEW i \in LastIn(c)', c \notin changed,
                      setting \cap {"slow", "error"} = {}
               PROVE  buffer'[i][c] >= VersionIn(SubSeq(log, 1, mark), c)
    BY <1>1 DEF PayloadsAreCurrent
  <2>1. i + 1 \in LastIn(c) /\ buffer'[i] = buffer[i + 1]
    BY <1>3, <1>10 DEF LastIn
  <2> QED
    BY <2>1 DEF IInv, PayloadsAreCurrent
<1> QED
  BY <1>8, <1>12, <1>13, <1>14, <1>15, <1>16, <1>17, <1>18 DEF IInv

----------------------------------------------------------------------------
(* The whole.                                                              *)

\* A page that has not loaded knows nothing.
LEMMA InitIInv == Init => IInv
<1> SUFFICES ASSUME Init
             PROVE  IInv
  OBVIOUS
<1>1. /\ mark = Len(log) /\ changed = {} /\ client = FALSE /\ buffer = << >>
      /\ page = "boot" /\ rows = Nothing /\ filter = "all"
      /\ panel = [id |-> NoCommand, version |-> 0]
      /\ flight = {} /\ asked = 0 /\ setting \in Settings
  BY DEF Init, Show
<1>2. log \in Seq(Command) /\ Len(log) \in 0..1
  <2>1. PICK n \in 0..1 : log \in [1..n -> Command]
    BY DEF Init
  <2>2. n \in Nat
    BY <2>1
  <2>3. log \in Seq(Command)
    BY <2>1, <2>2
  <2>4. Len(log) = n
    <3>1. DOMAIN log = 1..n
      BY <2>1
    <3> QED
      BY <2>2, <2>3, <3>1
  <2> QED
    BY <2>3, <2>4
<1>3. MaxEvents \in Nat \ {0} /\ MaxAsked \in Nat /\ BufferSize \in Nat
  BY DashboardConstants
<1>4. /\ << >> \in Seq(Payload) /\ Len(<< >>) = 0
      /\ 0 \in Version /\ Nothing \in Payload
      /\ panel \in [id : Command \cup {NoCommand}, version : Version] /\ panel.id = NoCommand
  <2>1. 0 \in Version
    BY <1>3 DEF Version
  <2> QED
    BY <1>1, <2>1 DEF Nothing, Payload
<1>5. Unanswered = {} /\ \A kind : Pending(kind) = {} /\ Answered(kind) = {}
  BY <1>1 DEF Unanswered, Pending, Answered
<1>6. TypeOK
  <2>1. Len(log) <= MaxEvents /\ mark \in 0..Len(log) /\ asked \in 0..MaxAsked
    BY <1>1, <1>2, <1>3
  <2>2. changed \subseteq Command /\ client \in BOOLEAN /\ filter \in Filter
    BY <1>1 DEF Filter
  <2>3. page \in {"boot", "load", "connect", "live", "lost"}
    BY <1>1
  <2>4. buffer \in Seq(Payload) /\ Len(buffer) <= BufferSize
    BY <1>1, <1>3, <1>4
  <2>5. flight \subseteq [ask : Request, answered : BOOLEAN, answer : Payload]
    BY <1>1
  <2> QED
    BY <1>1, <1>2, <1>4, <2>1, <2>2, <2>3, <2>4, <2>5 DEF TypeOK
<1>7. RoomKept
  BY <1>1, <1>2, <1>3, <1>5, FS_EmptySet DEF RoomKept
<1>8. PageInOrder /\ OneRequest
  BY <1>1, <1>4, <1>5 DEF PageInOrder, OneRequest
<1>9. \A c \in Command : Seen(c)
  BY <1>1, <1>4, <1>5, DashboardConstants DEF Seen, Nothing
<1>10. LoadIsCurrent /\ FreshAll /\ Ended /\ PayloadsAreCurrent
  BY <1>1 DEF LoadIsCurrent, FreshAll, Ready, Ended, PayloadsAreCurrent, LastIn
<1> QED
  BY <1>6, <1>7, <1>8, <1>9, <1>10 DEF IInv

\* Every step preserves the inductive invariant.
LEMMA NextIInv ==
  ASSUME IInv, [Next]_vars
  PROVE  IInv'
<1>1. ASSUME NEW c \in Command, Record(c)
      PROVE  IInv'
  BY <1>1, RecordStep
<1>2. ASSUME NEW c \in Command, Open(c)
      PROVE  IInv'
  BY <1>2, OpenStep
<1>3. CASE Poll
  BY <1>3, PollStep
<1>4. CASE Publish
  BY <1>4, PublishStep
<1>5. ASSUME NEW m \in flight, Answer(m)
      PROVE  IInv'
  BY <1>5, AnswerStep
<1>6. ASSUME NEW m \in flight, ReceiveList(m)
      PROVE  IInv'
  BY <1>6, ReceiveListStep
<1>7. ASSUME NEW m \in flight, ReceiveDetail(m)
      PROVE  IInv'
  BY <1>7, ReceiveDetailStep
<1>8. ASSUME NEW m \in flight, ReceiveRedact(m)
      PROVE  IInv'
  BY <1>8, ReceiveRedactStep
<1>9. CASE Boot
  BY <1>9, BootStep
<1>10. CASE Redact
  BY <1>10, RedactStep
<1>11. CASE Close
  BY <1>11, CloseStep
<1>12. CASE Subscribe
  BY <1>12, SubscribeStep
<1>13. CASE Disconnect
  BY <1>13, DisconnectStep
<1>14. CASE HandleEvent
  BY <1>14, HandleEventStep
<1>15. ASSUME NEW f \in Filter, SetFilter(f)
       PROVE  IInv'
  BY <1>15, SetFilterStep
<1>16. CASE UNCHANGED vars
  <2>1. UNCHANGED <<log, mark, changed, client, buffer, page, rows, filter, panel, flight, asked, setting>>
    BY <1>16 DEF vars, database, broker, browser
  <2>2. /\ \A c \in Command : Seen(c)' <=> Seen(c)
        /\ FreshAll' <=> FreshAll
    BY <2>1 DEF Seen, FreshAll, Ready, RowsFresh, ListFresh, RedactFresh, BufferFresh, PanelFresh,
                DetailFresh, Fresh, Late, Coming, LastIn, Row, Pending, Answered
  <2> QED
    BY <2>1, <2>2 DEF IInv, TypeOK, RoomKept, Unanswered, PageInOrder, OneRequest, LoadIsCurrent,
                      Ended, PayloadsAreCurrent, LastIn, Row, Pending, Answered
<1> QED
  BY <1>1, <1>2, <1>3, <1>4, <1>5, <1>6, <1>7, <1>8, <1>9, <1>10, <1>11, <1>12, <1>13, <1>14,
     <1>15, <1>16 DEF Next

\* The parts of the inductive invariant say what the properties say.
LEMMA IInvImplies == IInv => PageIsTrue
<1> SUFFICES ASSUME IInv
             PROVE  PageIsTrue
  OBVIOUS
<1>1. NothingMissed
  <2> SUFFICES ASSUME setting = {}, page = "live", NEW c \in Command
               PROVE  \/ rows[c] = Row(c)
                      \/ rows[c] = 0 /\ filter # "all"
                      \/ Coming(c)
                      \/ \E m \in flight : m.ask.kind # "detail" /\ (m.answered => m.answer[c] = Row(c))
    BY DEF NothingMissed
  <2>1. RowsFresh(c)
    BY DEF IInv, FreshAll, Ready
  <2> QED
    BY <2>1 DEF RowsFresh, Fresh, Late, Pending
<1>2. PanelFollows
  <2> SUFFICES ASSUME setting = {}, page = "live", NEW c \in Command, panel.id = c
               PROVE  panel.version = Row(c) \/ Coming(c) \/ flight # {}
    BY DEF PanelFollows
  <2>1. PanelFresh(c)
    BY DEF IInv, FreshAll, Ready
  <2> QED
    BY <2>1 DEF PanelFresh, Fresh, Late, Pending
<1>3. FilterRespected
  BY DEF IInv, Ended, FilterRespected
<1> QED
  BY <1>1, <1>2, <1>3 DEF IInv, PageIsTrue

\* The inductive invariant holds of every behaviour.
THEOREM Invariance == Spec => []IInv
<1>1. Init => IInv
  BY InitIInv
<1>2. IInv /\ [Next]_vars => IInv'
  BY NextIInv
<1> QED
  BY <1>1, <1>2, PTL DEF Spec

\* Every variable of the database, the broker and the page keeps to its kind:
\* the channel never holds more than its capacity, the mark never passes the
\* end of the log, and a redaction under way has its room in the log.
THEOREM DashboardTyped == Spec => []TypeOK
<1>1. IInv => TypeOK
  BY DEF IInv
<1> QED
  BY <1>1, Invariance, PTL

\* What the page shows is what the database holds, or that is on its way; the
\* panel asks again for what changed under it; the filter for ended commands
\* shows no other; and no payload is older than what the broker has read
\* (sse.go, api.go, app.js).
THEOREM PageStaysTrue == Spec => []PageIsTrue
<1>1. IInv => PageIsTrue
  BY IInvImplies
<1> QED
  BY <1>1, Invariance, PTL

----------------------------------------------------------------------------
(* What catching up needs to be possible at all.                           *)

\* A page that loads has asked for its list.
ListAsked == page = "load" => flight # {}

\* The guards of the steps that are taken without a user, where they change
\* something.
CanGoOn ==
  \/ page = "boot" /\ MayAsk
  \/ page = "connect"
  \/ changed = {} /\ mark < Len(log)
  \/ changed # {} /\ Len(buffer) < BufferSize
  \/ page = "live" /\ buffer # << >> /\ MayAsk
  \/ \E m \in flight : ~m.answered /\ (m.ask.kind = "redact" => Quiet)
  \/ \E m \in flight : m.answered

\* A page that does not show a row as it is has a step to take, or the broker
\* or a handler has one for it: nobody waits for somebody who waits for them,
\* with the buffer full, a request on its way or rows half collected.
NeverStuck ==
  setting = {} /\ filter = "all" =>
    \A c \in Command : rows[c] # Row(c) => CanGoOn

\* The list is in flight until the page has it.
LEMMA ListAskedStep ==
  ASSUME IInv, ListAsked, [Next]_vars
  PROVE  ListAsked'
<1> SUFFICES ASSUME page' = "load"
             PROVE  flight' # {}
  BY DEF ListAsked
<1>1. CASE page # "load"
  <2>1. Boot
    BY <1>1 DEF Next, Record, Open, Poll, Publish, Answer, ReceiveList, ReceiveDetail,
                ReceiveRedact, Redact, Close, Subscribe, Disconnect, HandleEvent, SetFilter,
                vars, browser
  <2> QED
    BY <2>1 DEF Boot, Asking
<1>2. CASE page = "load"
  <2>1. /\ flight # {} /\ \A m \in flight : m.ask.kind = "list"
        /\ rows = Nothing /\ panel.id = NoCommand
    BY <1>2 DEF IInv, PageInOrder, ListAsked
  <2>2. ASSUME NEW m \in flight, Answer(m)
        PROVE  flight' # {}
    BY <2>2 DEF Answer
  <2>3. ASSUME NEW m \in flight, ReceiveList(m)
        PROVE  FALSE
    BY <1>2, <2>3 DEF ReceiveList
  <2>4. ASSUME NEW m \in flight, ReceiveDetail(m) \/ ReceiveRedact(m)
        PROVE  FALSE
    BY <2>1, <2>4 DEF ReceiveDetail, ReceiveRedact, Pending
  <2>5. ASSUME NEW c \in Command, Open(c)
        PROVE  FALSE
    BY <2>1, <2>5 DEF Open, Nothing
  <2>6. ~Boot /\ ~Redact /\ ~Close /\ ~Subscribe /\ ~Disconnect /\ ~HandleEvent
        /\ \A f \in Filter : ~SetFilter(f)
    BY <1>2, <2>1 DEF Boot, Redact, Close, Subscribe, Disconnect, HandleEvent, SetFilter
  <2>7. ASSUME \/ \E c \in Command : Record(c)
               \/ Poll \/ Publish \/ UNCHANGED vars
        PROVE  flight' = flight
    BY <2>7 DEF Record, Poll, Publish, vars, browser
  <2> QED
    BY <2>1, <2>2, <2>3, <2>4, <2>5, <2>6, <2>7 DEF Next
<1> QED
  BY <1>1, <1>2

\* The safety half of catching up: whatever happened before, a page that is
\* behind is not stuck there (sse.go, app.js).
THEOREM CatchingUpIsNeverStuck == Spec => []NeverStuck
<1>1. Init => ListAsked
  BY DEF Init, ListAsked
<1>2. IInv /\ ListAsked /\ [Next]_vars => ListAsked'
  BY ListAskedStep
<1>3. IInv /\ ListAsked => NeverStuck
  <2> SUFFICES ASSUME IInv, ListAsked, setting = {}, filter = "all",
                      NEW c \in Command, rows[c] # Row(c)
               PROVE  CanGoOn
    BY DEF NeverStuck
  <2>1. /\ page \in {"boot", "load", "connect", "live", "lost"} /\ page # "lost"
        /\ mark \in 0..Len(log) /\ Len(log) \in Nat /\ log \in Seq(Command)
        /\ \A m \in flight : m.answered \in BOOLEAN
    BY DEF IInv, TypeOK, PageInOrder
  <2>2. CASE page = "boot"
    BY <2>2 DEF IInv, PageInOrder, MayAsk, CanGoOn
  <2>3. CASE page = "load"
    <3>1. PICK m \in flight : m.ask.kind = "list"
      BY <2>3 DEF ListAsked, IInv, PageInOrder
    <3> QED
      BY <2>1, <3>1 DEF CanGoOn
  <2>4. CASE page = "connect"
    BY <2>4 DEF CanGoOn
  <2>5. CASE page = "live" /\ flight # {}
    BY <2>1, <2>5 DEF CanGoOn, Quiet
  <2>6. CASE page = "live" /\ flight = {}
    <3>1. Coming(c) /\ MayAsk
      BY <2>6 DEF IInv, FreshAll, Ready, RowsFresh, Fresh, Late, Pending, MayAsk
    <3>2. CASE buffer # << >>
      BY <2>6, <3>1, <3>2 DEF CanGoOn
    <3>3. CASE buffer = << >>
      <4>1. Len(buffer) < BufferSize /\ LastIn(c) = {}
        BY <3>3, DashboardConstants DEF LastIn
      <4>2. changed # {} \/ mark < Len(log)
        <5>1. (\E i \in DOMAIN log : i > mark /\ log[i] = c) \/ c \in changed
          BY <3>1, <4>1 DEF Coming
        <5> QED
          BY <2>1, <5>1
      <4> QED
        BY <4>1, <4>2 DEF CanGoOn
    <3> QED
      BY <3>2, <3>3
  <2> QED
    BY <2>1, <2>2, <2>3, <2>4, <2>5, <2>6
<1> QED
  BY <1>1, <1>2, <1>3, Invariance, PTL DEF Spec

=============================================================================
