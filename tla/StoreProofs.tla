----------------------------- MODULE StoreProofs -----------------------------
(***************************************************************************)
(* The derived tables, proved for any machines, events and refreshers.     *)
(*                                                                         *)
(* A row is a function of the set of its command's events (RowsInv), which *)
(* is why machines converge and redactions stick.  For the cache, the      *)
(* claim of CacheFollowsLog holds of every position a refresher may start  *)
(* from (CacheInv), not of the present watermark alone: a slow refresher   *)
(* may set the watermark back.                                             *)
(***************************************************************************)
EXTENDS StoreProperties, TLAPS

-----------------------------------------------------------------------------
(* The inductive invariant. *)

HasLatest(E) == E # {} => \E e \in E : \A f \in E : f.at <= e.at

HasFirst(L, c) ==
  Of(L, c) # {} => \E i \in DOMAIN L : L[i].cmd = c /\ \A j \in 1..i-1 : L[j].cmd # c

\* The CHOOSEs of recompute have something to choose.
ChoiceInv ==
  \A d \in Device : \A c \in Command :
    /\ HasFirst(log[d], c)
    /\ \A kinds \in SUBSET Kind : HasLatest(OfKind(Of(log[d], c), kinds))

\* Rows and index are what recompute makes of the whole log.
RowsInv ==
  \A d \in Device : \A c \in Command :
    IF Of(log[d], c) = {}
    THEN rows[d][c] = NoRow /\ index[d][c] = NoText
    ELSE rows[d][c] = recompute(log[d], c) /\ index[d][c] = rows[d][c].text

\* No refresher reads beyond the log.
BoundInv ==
  \A r \in Refresher : upTo[r] <= Len(log[DeviceOf[r]]) /\ from[r] <= Len(log[DeviceOf[r]])

IInv == TypeOK /\ ChoiceInv /\ RowsInv /\ BoundInv

\* Position w of the log of d has stepped over nothing.
StepsOverNothing(d, w) ==
  \A t \in Text \ {NoText} :
    /\ \A i \in w+1 .. Len(log[d]) : rows[d][log[d][i].cmd].text # t
    /\ ~Redacted(d, t)
    => cache[d][t] = RunsOf(d, t)

CacheInv ==
  /\ \A d \in Device : StepsOverNothing(d, watermark[d])
  /\ \A r \in Refresher : StepsOverNothing(DeviceOf[r], from[r])

\* The starts and imports of a command have one text: its id was not given
\* out twice.
OneText ==
  \A e, f \in Event :
    e.cmd = f.cmd /\ {e.kind, f.kind} \subseteq {"start", "import"} => e.text = f.text

\* A command ends once.
OneEnd ==
  \A e, f \in Event : e.cmd = f.cmd /\ e.kind = "end" /\ f.kind = "end" => e = f

-----------------------------------------------------------------------------
(* The operators. *)

\* An event adds itself to the set of its command and to no other.
LEMMA OfAppend ==
  ASSUME NEW L \in Seq(Event), NEW e \in Event, NEW c
  PROVE  Of(Append(L, e), c) = IF e.cmd = c THEN Of(L, c) \cup {e} ELSE Of(L, c)
<1> DEFINE A == Append(L, e)
<1>1. /\ Len(A) = Len(L) + 1 /\ DOMAIN A = 1..Len(L)+1 /\ DOMAIN L = 1..Len(L)
      /\ A[Len(L)+1] = e
      /\ \A i \in 1..Len(L) : A[i] = L[i]
      /\ Len(L) \in Nat
  BY SMT
<1>2. ASSUME NEW x PROVE x \in Of(A, c) <=> x \in Of(L, c) \/ (e.cmd = c /\ x = e)
  <2>1. x \in Of(A, c) <=> \E i \in 1..Len(L)+1 : A[i].cmd = c /\ x = A[i]
    BY <1>1 DEF Of
  <2>2. x \in Of(L, c) <=> \E i \in 1..Len(L) : L[i].cmd = c /\ x = L[i]
    BY <1>1 DEF Of
  <2>3. (\E i \in 1..Len(L)+1 : A[i].cmd = c /\ x = A[i]) <=>
        (\E i \in 1..Len(L) : A[i].cmd = c /\ x = A[i]) \/ (e.cmd = c /\ x = e)
    <3> HIDE DEF A
    <3> QED BY <1>1
  <2> HIDE DEF A
  <2> QED BY <1>1, <2>1, <2>2, <2>3
<1> QED BY <1>2

\* What is held of a command is what its row is made of.
LEMMA HeldIsOf ==
  ASSUME NEW d \in Device, NEW c \in Command, log[d] \in Seq(Event)
  PROVE  Held(d, c) = Of(log[d], c)
<1>1. \A i \in DOMAIN log[d] : log[d][i] \in Event
  BY SMT
<1> QED BY <1>1 DEF Held, Of

LEMMA HeldIsOfNext ==
  ASSUME NEW d \in Device, NEW c \in Command, log'[d] \in Seq(Event)
  PROVE  Held(d, c)' = Of(log'[d], c)
<1>1. \A i \in DOMAIN log'[d] : log'[d][i] \in Event
  BY SMT
<1> QED BY <1>1 DEF Held, Of

\* With something to choose, the latest event is one of the set.
LEMMA LatestIsOne ==
  ASSUME NEW E, E # {}, HasLatest(E)
  PROVE  Latest(E) \in E /\ \A f \in E : f.at <= Latest(E).at
BY DEF Latest, HasLatest

\* Another event leaves something to choose.
LEMMA LatestOfMore ==
  ASSUME NEW E \in SUBSET Event, NEW e \in Event, HasLatest(E)
  PROVE  HasLatest(E \cup {e})
<1>1. \A f \in Event : f.at \in Nat
  BY StoreConstants DEF EventRecord
<1>2. CASE E = {}
  BY <1>1, <1>2 DEF HasLatest
<1>3. CASE E # {}
  <2>1. PICK m \in E : \A f \in E : f.at <= m.at
    BY <1>3 DEF HasLatest
  <2>2. CASE m.at <= e.at
    <3>1. \A f \in E \cup {e} : f.at <= e.at
      BY <1>1, <2>1, <2>2
    <3> QED BY <3>1 DEF HasLatest
  <2>3. CASE ~(m.at <= e.at)
    <3>1. \A f \in E \cup {e} : f.at <= m.at
      BY <1>1, <2>1, <2>3
    <3> QED BY <2>1, <3>1 DEF HasLatest
  <2> QED BY <2>2, <2>3
<1> QED BY <1>2, <1>3

LEMMA FirstOfMore ==
  ASSUME NEW L \in Seq(Event), NEW e \in Event, NEW c, HasFirst(L, c)
  PROVE  HasFirst(Append(L, e), c)
<1> DEFINE A == Append(L, e)
<1>1. /\ DOMAIN L = 1..Len(L) /\ DOMAIN A = 1..Len(L)+1 /\ Len(L) \in Nat
      /\ \A i \in 1..Len(L) : A[i] = L[i]
      /\ A[Len(L)+1] = e
  OBVIOUS
<1> HIDE DEF A
<1>2. CASE Of(L, c) # {}
  <2>1. PICK i \in 1..Len(L) : L[i].cmd = c /\ \A j \in 1..i-1 : L[j].cmd # c
    BY <1>1, <1>2 DEF HasFirst
  <2>2. i \in DOMAIN A /\ A[i].cmd = c /\ \A j \in 1..i-1 : A[j].cmd # c
    BY <1>1, <2>1
  <2> QED BY <2>2 DEF HasFirst, A
<1>3. CASE Of(L, c) = {}
  <2>1. \A i \in 1..Len(L) : A[i].cmd # c
    BY <1>1, <1>3 DEF Of
  <2>2. Of(A, c) # {} => A[Len(L)+1].cmd = c
    BY <1>1, <2>1 DEF Of
  <2>3. Of(A, c) # {} => \E i \in DOMAIN A : A[i].cmd = c /\ \A j \in 1..i-1 : A[j].cmd # c
    BY <1>1, <2>1, <2>2
  <2> QED BY <2>3 DEF HasFirst, A
<1> QED BY <1>2, <1>3

\* recompute makes a row.
LEMMA RecomputeType ==
  ASSUME NEW L \in Seq(Event), NEW c \in Command, Of(L, c) # {},
         HasFirst(L, c),
         \A kinds \in SUBSET Kind : HasLatest(OfKind(Of(L, c), kinds))
  PROVE  recompute(L, c) \in Row
<1> DEFINE E == Of(L, c)
           begun == OfKind(E, {"start", "import"})
           ends == OfKind(E, {"end"})
<1>1. E \subseteq Event /\ Event \subseteq EventRecord
  BY StoreConstants DEF Of
<1>2. begun # {} => Latest(begun) \in begun
  BY LatestIsOne DEF Kind
<1>3. ends # {} => Latest(ends) \in ends
  BY LatestIsOne DEF Kind
<1>4. FirstHeard(L, c) \in Event
  BY DEF HasFirst, FirstHeard
<1>5. TextOf(E) \in Text
  BY <1>1, <1>2, StoreConstants DEF TextOf, OfKind, EventRecord
<1>6. StatusOf(E) \in Status
  BY DEF StatusOf, Status
<1>7. (IF begun = {} THEN FirstHeard(L, c).dev ELSE Latest(begun).dev) \in Device
  BY <1>1, <1>2, <1>4 DEF OfKind, EventRecord
<1>8. (IF begun = {} THEN 0 ELSE Latest(begun).num) \in Nat
  BY <1>1, <1>2 DEF OfKind, EventRecord
<1> QED BY <1>5, <1>6, <1>7, <1>8 DEF recompute, Row

\* An event of another command leaves the row alone: FirstHeard is the one
\* part of recompute that looks at the order of arrival.
LEMMA SameRow ==
  ASSUME NEW L \in Seq(Event), NEW e \in Event, NEW c, e.cmd # c, Of(L, c) # {}, HasFirst(L, c)
  PROVE  recompute(Append(L, e), c) = recompute(L, c)
<1> DEFINE A == Append(L, e)
           First(S, i) == i \in DOMAIN S /\ S[i].cmd = c /\ \A j \in 1..i-1 : S[j].cmd # c
<1>1. /\ DOMAIN L = 1..Len(L) /\ DOMAIN A = 1..Len(L)+1 /\ Len(L) \in Nat
      /\ \A i \in 1..Len(L) : A[i] = L[i]
      /\ A[Len(L)+1] = e
  OBVIOUS
<1>2. PICK i \in DOMAIN L : First(L, i)
  BY DEF HasFirst
<1> HIDE DEF A
<1>3. First(A, i)
  BY <1>1, <1>2
<1>4. \A j, k : First(L, j) /\ First(L, k) => j = k
  BY <1>1
<1>5. \A j, k : First(A, j) /\ First(A, k) => j = k
  BY <1>1
<1>6. (CHOOSE j \in DOMAIN L : L[j].cmd = c /\ \A k \in 1..j-1 : L[k].cmd # c) = i
  BY <1>2, <1>4
<1>7. (CHOOSE j \in DOMAIN A : A[j].cmd = c /\ \A k \in 1..j-1 : A[k].cmd # c) = i
  BY <1>3, <1>5
<1>8. FirstHeard(A, c) = FirstHeard(L, c)
  BY <1>1, <1>2, <1>6, <1>7 DEF FirstHeard
<1>9. Of(A, c) = Of(L, c)
  BY OfAppend DEF A
<1> QED BY <1>8, <1>9 DEF recompute, A

-----------------------------------------------------------------------------
(* Initial states. *)

LEMMA InitIInv == Init => IInv
<1> SUFFICES ASSUME Init PROVE IInv
  OBVIOUS
<1> USE StoreConstants DEF Init
<1>1. \A d \in Device, c \in Command : log[d] = <<>> /\ Of(log[d], c) = {}
  BY DEF Of
<1>2. TypeOK
  <2>1. <<>> \in Seq(Event) /\ Len(<<>>) = 0
    OBVIOUS
  <2>2. log \in [Device -> Seq(Event)] /\ \A d \in Device : Len(log[d]) = 0
    BY <2>1
  <2> QED BY <2>2 DEF TypeOK
<1>3. ChoiceInv
  BY <1>1 DEF ChoiceInv, HasFirst, HasLatest, OfKind
<1>4. RowsInv
  BY <1>1 DEF RowsInv
<1>5. BoundInv
  <2>1. Len(<<>>) = 0
    OBVIOUS
  <2> QED BY <2>1 DEF BoundInv
<1> QED BY <1>2, <1>3, <1>4, <1>5 DEF IInv

LEMMA InitCacheInv == Init => CacheInv
<1> SUFFICES ASSUME Init PROVE CacheInv
  OBVIOUS
<1>1. ASSUME NEW d \in Device, NEW w PROVE StepsOverNothing(d, w)
  BY <1>1 DEF Init, StepsOverNothing, RunsOf
<1> QED BY <1>1, StoreConstants DEF CacheInv

-----------------------------------------------------------------------------
(* An event is inserted. *)

LEMMA InsertChoice ==
  ASSUME IInv, NEW d \in Device, NEW e \in Event, Insert(d, e)
  PROVE  ChoiceInv'
<1> DEFINE L == log[d]
<1>1. log \in [Device -> Seq(Event)] /\ L \in Seq(Event) /\ log' = [log EXCEPT ![d] = Append(L, e)]
  BY DEF IInv, TypeOK, Insert
<1>2. ASSUME NEW q \in Device, NEW c \in Command
      PROVE /\ HasFirst(log'[q], c)
            /\ \A kinds \in SUBSET Kind : HasLatest(OfKind(Of(log'[q], c), kinds))
  <2>1. CASE q # d
    BY <1>1, <2>1 DEF IInv, ChoiceInv
  <2>2. CASE q = d
    <3>1. log'[q] = Append(L, e)
      BY <1>1, <2>2
    <3>2. Of(Append(L, e), c) = IF e.cmd = c THEN Of(L, c) \cup {e} ELSE Of(L, c)
      BY <1>1, OfAppend
    <3>3. HasFirst(L, c) /\ \A kinds \in SUBSET Kind : HasLatest(OfKind(Of(L, c), kinds))
      BY DEF IInv, ChoiceInv
    <3>4. HasFirst(Append(L, e), c)
      BY <1>1, <3>3, FirstOfMore
    <3>5. ASSUME NEW kinds \in SUBSET Kind
          PROVE HasLatest(OfKind(Of(Append(L, e), c), kinds))
      <4> DEFINE E == OfKind(Of(L, c), kinds)
      <4>1. OfKind(Of(Append(L, e), c), kinds) \in {E, E \cup {e}}
        BY <3>2 DEF OfKind
      <4>2. E \subseteq Event
        BY <1>1 DEF OfKind, Of
      <4> QED BY <3>3, <4>1, <4>2, LatestOfMore
    <3> QED BY <3>1, <3>4, <3>5
  <2> QED BY <2>1, <2>2
<1> QED BY <1>2 DEF ChoiceInv

LEMMA InsertIInv ==
  ASSUME IInv, NEW d \in Device, NEW e \in Event, Insert(d, e)
  PROVE  IInv'
<1> DEFINE L == Append(log[d], e)
<1>1. log \in [Device -> Seq(Event)] /\ log[d] \in Seq(Event) /\ e.cmd \in Command
  BY StoreConstants DEF IInv, TypeOK, EventRecord
<1>2. L \in Seq(Event) /\ Len(L) = Len(log[d]) + 1 /\ log' = [log EXCEPT ![d] = L]
  BY <1>1 DEF Insert
<1>3. ChoiceInv'
  BY InsertChoice
<1>4. \A c \in Command : Of(L, c) = IF e.cmd = c THEN Of(log[d], c) \cup {e} ELSE Of(log[d], c)
  BY <1>1, OfAppend
<1>5. recompute(L, e.cmd) \in Row
  <2>1. log'[d] = L
    BY <1>1, <1>2
  <2> QED BY <1>1, <1>2, <1>3, <1>4, <2>1, RecomputeType DEF ChoiceInv
<1>6. \A q \in Device : Len(log[q]) \in Nat /\ Len(log[q]) <= Len(log'[q])
  BY <1>1, <1>2
<1>7. TypeOK'
  <2>1. log' \in [Device -> Seq(Event)]
    BY <1>1, <1>2
  <2>2. rows' \in [Device -> [Command -> Row \cup {NoRow}]]
    BY <1>1, <1>5 DEF IInv, TypeOK, Insert
  <2>3. index' \in [Device -> [Command -> Text]]
    BY <1>1, <1>5 DEF IInv, TypeOK, Insert, Row
  <2>4. /\ UNCHANGED <<cache, watermark, stage, from, upTo, world>>
        /\ \A q \in Device : watermark[q] \in Nat /\ watermark[q] <= Len(log[q])
    BY DEF IInv, TypeOK, Insert, refresh
  <2> QED BY <1>6, <2>1, <2>2, <2>3, <2>4 DEF IInv, TypeOK
<1>8. RowsInv'
  <2>1. ASSUME NEW q \in Device, NEW c \in Command
        PROVE IF Of(log'[q], c) = {}
              THEN rows'[q][c] = NoRow /\ index'[q][c] = NoText
              ELSE rows'[q][c] = recompute(log'[q], c) /\ index'[q][c] = rows'[q][c].text
    <3>1. CASE q # d
      BY <1>1, <1>2, <3>1 DEF IInv, TypeOK, Insert, RowsInv
    <3>2. CASE q = d /\ c = e.cmd
      <4>1. log'[q] = L /\ Of(L, c) # {}
        BY <1>1, <1>2, <1>4, <3>2
      <4>2. rows'[q][c] = recompute(L, c) /\ index'[q][c] = recompute(L, c).text
        BY <3>2, <1>1 DEF IInv, TypeOK, Insert
      <4> QED BY <4>1, <4>2
    <3>3. CASE q = d /\ c # e.cmd
      <4>1. log'[q] = L /\ Of(L, c) = Of(log[d], c)
        BY <1>1, <1>2, <1>4, <3>3
      <4>2. rows'[q][c] = rows[q][c] /\ index'[q][c] = index[q][c]
        BY <3>3, <1>1 DEF IInv, TypeOK, Insert
      <4>3. Of(L, c) # {} => recompute(L, c) = recompute(log[d], c)
        <5>1. HasFirst(log[d], c)
          BY DEF IInv, ChoiceInv
        <5> QED BY <1>1, <3>3, <4>1, <5>1, SameRow
      <4> QED BY <3>3, <4>1, <4>2, <4>3 DEF IInv, RowsInv
    <3> QED BY <3>1, <3>2, <3>3
  <2> QED BY <2>1 DEF RowsInv
<1>9. BoundInv'
  BY <1>6, StoreConstants DEF IInv, TypeOK, BoundInv, Insert, refresh
<1> QED BY <1>3, <1>7, <1>8, <1>9 DEF IInv

-----------------------------------------------------------------------------
(* A refresher takes a step. *)

LEMMA RefreshIInv ==
  ASSUME IInv, NEW r \in Refresher,
         ReadWatermark(r) \/ FixUpTo(r) \/ RefreshCommandStats(r) \/ GiveUp(r)
  PROVE  IInv'
<1> DEFINE d == DeviceOf[r]
<1>1. d \in Device /\ \A q \in Refresher : DeviceOf[q] \in Device
  BY StoreConstants
<1>2. UNCHANGED <<log, rows, index, world>>
  BY DEF ReadWatermark, FixUpTo, RefreshCommandStats, GiveUp, tables
<1>3. ChoiceInv' /\ RowsInv'
  BY <1>2 DEF IInv, ChoiceInv, RowsInv
<1>4. \A q \in Device : Len(log[q]) \in Nat /\ watermark[q] \in Nat /\ watermark[q] <= Len(log[q])
  BY DEF IInv, TypeOK
<1>5. TypeOK' /\ BoundInv'
  <2> USE <1>1, <1>2, <1>4 DEF IInv, TypeOK, BoundInv
  <2>1. CASE ReadWatermark(r)
    BY <2>1 DEF ReadWatermark
  <2>2. CASE FixUpTo(r)
    BY <2>2 DEF FixUpTo, MaxRowID
  <2>3. CASE RefreshCommandStats(r)
    <3>1. ASSUME NEW t \in Text PROVE RunsOf(d, t) \subseteq [cmd : Command, row : Row]
      BY DEF RunsOf
    <3>2. cache' \in [Device -> [Text -> SUBSET [cmd : Command, row : Row]]]
      BY <2>3, <3>1 DEF RefreshCommandStats, Refreshed
    <3>3. /\ watermark' = [watermark EXCEPT ![d] = upTo[r]]
          /\ Return(r)
          /\ upTo[r] \in Nat /\ upTo[r] <= Len(log[d])
      BY <2>3 DEF RefreshCommandStats
    <3>4. watermark' \in [Device -> Nat] /\ \A q \in Device : watermark'[q] <= Len(log'[q])
      BY <3>3
    <3>5. /\ stage' \in [Refresher -> {"idle", "bound", "pass"}]
          /\ from' \in [Refresher -> Nat] /\ upTo' \in [Refresher -> Nat]
      BY <3>3 DEF Return
    <3>6. BoundInv'
      BY <3>3 DEF Return
    <3> QED BY <3>2, <3>4, <3>5, <3>6
  <2>4. CASE GiveUp(r)
    BY <2>4 DEF GiveUp, Return
  <2> QED BY <2>1, <2>2, <2>3, <2>4
<1> QED BY <1>3, <1>5 DEF IInv

LEMMA NextIInv == IInv /\ [Next]_vars => IInv'
<1> SUFFICES ASSUME IInv, [Next]_vars PROVE IInv'
  OBVIOUS
<1>1. ASSUME NEW d \in Device, NEW e \in Event, AppendEvent(d, e) PROVE IInv'
  BY <1>1, InsertIInv DEF AppendEvent
<1>2. ASSUME NEW d \in Device, NEW e \in Event, InsertRemoteEvent(d, e) PROVE IInv'
  BY <1>2, InsertIInv DEF InsertRemoteEvent
<1>3. ASSUME NEW r \in Refresher,
             ReadWatermark(r) \/ FixUpTo(r) \/ RefreshCommandStats(r) \/ GiveUp(r)
      PROVE IInv'
  BY <1>3, RefreshIInv
<1>4. CASE UNCHANGED vars
  <2>1. UNCHANGED <<log, rows, index, cache, watermark, stage, from, upTo, world>>
    BY <1>4 DEF vars, tables, refresh
  <2>2. TypeOK' /\ BoundInv'
    BY <2>1 DEF IInv, TypeOK, BoundInv
  <2>3. ChoiceInv' /\ RowsInv'
    BY <2>1 DEF IInv, ChoiceInv, RowsInv
  <2> QED BY <2>2, <2>3 DEF IInv
<1> QED BY <1>1, <1>2, <1>3, <1>4 DEF Next

-----------------------------------------------------------------------------
(* What the rows promise. *)

LEMMA IInvConverges == IInv => RowsConverge
<1> SUFFICES ASSUME IInv, NEW d \in Device, NEW q \in Device, NEW c \in Command,
                    Held(d, c) = Held(q, c),
                    HeldKind(d, c, {"start", "import"}) # {}
             PROVE  rows[d][c] = rows[q][c]
  BY DEF RowsConverge
<1>1. Of(log[d], c) = Held(d, c) /\ Of(log[q], c) = Held(d, c)
  BY HeldIsOf DEF IInv, TypeOK
<1>2. OfKind(Held(d, c), {"start", "import"}) # {}
  BY DEF HeldKind, OfKind
<1>3. Held(d, c) # {}
  BY <1>2 DEF OfKind
<1>4. rows[d][c] = recompute(log[d], c) /\ rows[q][c] = recompute(log[q], c)
  BY <1>1, <1>3 DEF IInv, RowsInv
<1> QED BY <1>1, <1>2, <1>4 DEF recompute

LEMMA IInvRedacts == IInv => RedactionSticks
<1> SUFFICES ASSUME IInv, NEW d \in Device, NEW c \in Command, HeldKind(d, c, {"redact"}) # {}
             PROVE  rows[d][c].text = RedactedMarker /\ index[d][c] = RedactedMarker
  BY DEF RedactionSticks
<1>1. Of(log[d], c) = Held(d, c)
  BY HeldIsOf DEF IInv, TypeOK
<1>2. OfKind(Held(d, c), {"redact"}) # {} /\ Held(d, c) # {}
  BY DEF HeldKind, OfKind
<1>3. rows[d][c] = recompute(log[d], c) /\ index[d][c] = rows[d][c].text
  BY <1>1, <1>2 DEF IInv, RowsInv
<1> QED BY <1>1, <1>2, <1>3 DEF recompute, TextOf

\* Type correctness.
THEOREM TypeCorrect == Spec => []TypeOK
<1>1. IInv => TypeOK
  BY DEF IInv
<1> QED BY <1>1, InitIInv, NextIInv, PTL DEF Spec

\* Machines that hold the same events of a command show the same row,
\* whatever order they arrived in.
THEOREM ArrivalOrderDoesNotMatter == Spec => []RowsConverge
BY InitIInv, NextIInv, IInvConverges, PTL DEF Spec

\* A redaction holds against every later or earlier event of its command.
THEOREM RedactionIsForGood == Spec => []RedactionSticks
BY InitIInv, NextIInv, IInvRedacts, PTL DEF Spec

\* When commands end once, no later event changes a reported result.
THEOREM ResultsStand == OneEnd /\ Spec => ResultIsFinal
<1> SUFFICES ASSUME OneEnd PROVE Spec => ResultIsFinal
  OBVIOUS
<1>1. ASSUME IInv, IInv', [Next]_vars, NEW d \in Device, NEW c \in Command,
             HeldKind(d, c, {"end"}) # {}
      PROVE  rows'[d][c].status = rows[d][c].status
  <2> DEFINE ends == OfKind(Of(log[d], c), {"end"})
             later == OfKind(Of(log'[d], c), {"end"})
  <2>1. log[d] \in Seq(Event) /\ log'[d] \in Seq(Event)
    BY <1>1 DEF IInv, TypeOK
  <2>2. Of(log[d], c) \subseteq Event /\ Of(log'[d], c) \subseteq Event
    BY <2>1 DEF Of
  <2>3. Of(log[d], c) \subseteq Of(log'[d], c)
    <3>1. CASE log'[d] = log[d]
      BY <3>1
    <3>2. ASSUME NEW e \in Event, log'[d] = Append(log[d], e)
          PROVE Of(log[d], c) \subseteq Of(log'[d], c)
      BY <2>1, <3>2, OfAppend
    <3>3. log'[d] = log[d] \/ \E e \in Event : log'[d] = Append(log[d], e)
      <4>1. ASSUME NEW q \in Device, NEW e \in Event, Insert(q, e)
            PROVE log'[d] = log[d] \/ \E f \in Event : log'[d] = Append(log[d], f)
        BY <1>1, <4>1 DEF IInv, TypeOK, Insert
      <4>2. ASSUME NEW r \in Refresher,
                   ReadWatermark(r) \/ FixUpTo(r) \/ RefreshCommandStats(r) \/ GiveUp(r)
            PROVE log' = log
        BY <4>2 DEF ReadWatermark, FixUpTo, RefreshCommandStats, GiveUp, tables
      <4>3. CASE UNCHANGED vars
        BY <4>3 DEF vars, tables
      <4> QED BY <1>1, <4>1, <4>2, <4>3 DEF Next, AppendEvent, InsertRemoteEvent
    <3> QED BY <3>1, <3>2, <3>3
  <2>4. ends # {}
    BY <1>1, <2>1, HeldIsOf DEF HeldKind, OfKind
  <2>5. ends = later
    <3>1. \A x \in Of(log'[d], c) : x.cmd = c
      BY DEF Of
    <3>2. ends \subseteq later
      BY <2>3 DEF OfKind
    <3>3. \A x, y \in later : x = y
      BY <2>2, <3>1 DEF OneEnd, OfKind
    <3> QED BY <2>4, <3>2, <3>3
  <2>6. Of(log[d], c) # {} /\ Of(log'[d], c) # {}
    BY <2>3, <2>4 DEF OfKind
  <2>7. rows[d][c] = recompute(log[d], c) /\ rows'[d][c] = recompute(log'[d], c)
    BY <1>1, <2>6 DEF IInv, RowsInv
  <2> QED BY <2>4, <2>5, <2>7 DEF recompute, StatusOf
<1>2. ASSUME IInv, IInv', [Next]_vars
      PROVE [\A d \in Device : \A c \in Command :
               HeldKind(d, c, {"end"}) # {} => rows'[d][c].status = rows[d][c].status]_rows
  BY <1>1, <1>2
<1> QED BY <1>2, InitIInv, NextIInv, PTL DEF Spec, ResultIsFinal

-----------------------------------------------------------------------------
(* What the cache promises. *)

\* What is redacted stays redacted.
LEMMA RedactedStays ==
  ASSUME IInv, IInv', NEW d \in Device, NEW e \in Event, Insert(d, e), NEW t,
         Redacted(d, t)
  PROVE  Redacted(d, t)'
<1>1. /\ log[d] \in Seq(Event) /\ log'[d] \in Seq(Event)
      /\ log'[d] = Append(log[d], e)
  BY DEF IInv, TypeOK, Insert
<1>2. \A c \in Command : Held(d, c) \subseteq Held(d, c)'
  <2>1. ASSUME NEW c \in Command PROVE Of(log[d], c) \subseteq Of(log'[d], c)
    BY <1>1, OfAppend
  <2> QED BY <1>1, <2>1, HeldIsOf, HeldIsOfNext
<1>3. PICK c \in Command :
        HeldKind(d, c, {"redact"}) # {} /\ \E f \in HeldKind(d, c, {"start", "import"}) : f.text = t
  BY DEF Redacted
<1>4. HeldKind(d, c, {"redact"})' # {}
  BY <1>2, <1>3 DEF HeldKind
<1>5. \E f \in HeldKind(d, c, {"start", "import"})' : f.text = t
  BY <1>2, <1>3 DEF HeldKind
<1> QED BY <1>4, <1>5 DEF Redacted

\* A command's text only changes when it is redacted, or was not known.
LEMMA TextIsKept ==
  ASSUME OneText, IInv, IInv', NEW d \in Device, NEW e \in Event, Insert(d, e),
         NEW t \in Text \ {NoText},
         rows[d][e.cmd] # NoRow,
         rows[d][e.cmd].text = t,
         rows'[d][e.cmd].text # t
  PROVE  Redacted(d, t)'
<1> DEFINE c == e.cmd
           E == Of(log[d], c)
           F == Of(log'[d], c)
           begun == OfKind(E, {"start", "import"})
           later == OfKind(F, {"start", "import"})
<1>1. /\ log[d] \in Seq(Event) /\ log'[d] \in Seq(Event)
      /\ log'[d] = Append(log[d], e)
      /\ c \in Command
  BY StoreConstants DEF IInv, TypeOK, Insert, EventRecord
<1>2. F = E \cup {e} /\ E \subseteq Event /\ F \subseteq Event
  BY <1>1, OfAppend DEF Of
<1>3. E # {} /\ rows[d][c] = recompute(log[d], c) /\ rows'[d][c] = recompute(log'[d], c)
  BY <1>1, <1>2 DEF IInv, RowsInv
<1>4. rows[d][c].text = TextOf(E) /\ rows'[d][c].text = TextOf(F)
  BY <1>3 DEF recompute
<1>5. HasLatest(begun) /\ HasLatest(later)
  BY <1>1 DEF IInv, ChoiceInv, Kind
<1>6. OfKind(E, {"redact"}) = {}
  BY <1>2, <1>4 DEF TextOf, OfKind
<1>7. begun # {} /\ TextOf(E) = Latest(begun).text
  BY <1>4, <1>6 DEF TextOf
<1>8. Latest(begun) \in begun
  BY <1>5, <1>7, LatestIsOne
<1>9. later # {} /\ Latest(later) \in later
  BY <1>2, <1>5, <1>8, LatestIsOne DEF OfKind
<1>10. \A x \in F : x.cmd = c
  BY DEF Of
<1>11. Latest(later).text = Latest(begun).text
  BY <1>2, <1>8, <1>9, <1>10 DEF OneText, OfKind
<1>12. OfKind(F, {"redact"}) # {}
  BY <1>4, <1>7, <1>9, <1>11 DEF TextOf
<1>13. Held(d, c)' = F
  BY <1>1, HeldIsOfNext
<1>14. Latest(begun) \in HeldKind(d, c, {"start", "import"})'
  BY <1>2, <1>8, <1>13 DEF HeldKind, OfKind
<1>15. HeldKind(d, c, {"redact"})' # {}
  BY <1>12, <1>13 DEF HeldKind, OfKind
<1> QED BY <1>1, <1>4, <1>7, <1>14, <1>15 DEF Redacted

LEMMA InsertStepsOver ==
  ASSUME OneText, IInv, IInv', NEW d \in Device, NEW e \in Event, Insert(d, e),
         NEW q \in Device, NEW w \in Nat, w <= Len(log[q]), StepsOverNothing(q, w)
  PROVE  StepsOverNothing(q, w)'
<1>1. /\ log \in [Device -> Seq(Event)] /\ log' = [log EXCEPT ![d] = Append(log[d], e)]
      /\ rows' = [rows EXCEPT ![d][e.cmd] = recompute(Append(log[d], e), e.cmd)]
      /\ rows \in [Device -> [Command -> Row \cup {NoRow}]]
      /\ cache' = cache
      /\ e.cmd \in Command
  BY StoreConstants DEF IInv, TypeOK, Insert, EventRecord
<1>2. CASE q # d
  <2>1. log'[q] = log[q] /\ rows'[q] = rows[q] /\ cache'[q] = cache[q]
    BY <1>1, <1>2
  <2> QED BY <2>1 DEF StepsOverNothing, Redacted, HeldKind, Held, RunsOf
<1>3. CASE q = d
  <2> SUFFICES ASSUME NEW t \in Text \ {NoText},
                      \A i \in w+1 .. Len(log'[d]) : rows'[d][log'[d][i].cmd].text # t,
                      ~Redacted(d, t)'
               PROVE  cache'[d][t] = RunsOf(d, t)'
    BY <1>3 DEF StepsOverNothing
  <2> DEFINE L == log[d]
  <2>1. /\ L \in Seq(Event) /\ Len(L) \in Nat /\ Len(log'[d]) = Len(L) + 1
        /\ \A i \in 1..Len(L) : log'[d][i] = L[i] /\ L[i] \in Event
        /\ log'[d][Len(L)+1] = e
    BY <1>1
  <2>2. rows'[d][e.cmd].text # t
    BY <1>3, <2>1
  <2>3. ~Redacted(d, t)
    BY RedactedStays
  <2>4. rows[d][e.cmd] # NoRow => rows[d][e.cmd].text # t
    BY <2>2, TextIsKept
  <2>5. \A c \in Command : c # e.cmd => rows'[d][c] = rows[d][c]
    BY <1>1
  <2>6. RunsOf(d, t)' = RunsOf(d, t)
    BY <2>2, <2>4, <2>5 DEF RunsOf
  <2>7. ASSUME NEW i \in w+1 .. Len(L) PROVE rows[d][L[i].cmd].text # t
    <3>1. i \in 1..Len(L) /\ i \in w+1 .. Len(log'[d]) /\ L[i].cmd \in Command
      <4>1. i \in 1..Len(L) /\ i \in w+1 .. Len(log'[d])
        BY <2>1
      <4>2. L[i] \in EventRecord
        BY <2>1, <4>1, StoreConstants
      <4> QED BY <4>1, <4>2 DEF EventRecord
    <3>2. CASE L[i].cmd = e.cmd
      <4>1. Of(L, e.cmd) # {}
        <5>1. i \in DOMAIN L
          BY <2>1, <3>1
        <5> QED BY <3>2, <5>1 DEF Of
      <4>2. rows[d][e.cmd] = recompute(L, e.cmd) /\ recompute(L, e.cmd) \in Row
        BY <1>1, <2>1, <4>1, RecomputeType DEF IInv, RowsInv, ChoiceInv
      <4> QED BY <2>4, <3>2, <4>2, StoreConstants
    <3>3. CASE L[i].cmd # e.cmd
      BY <2>1, <2>5, <3>1, <3>3
    <3> QED BY <3>2, <3>3
  <2>8. cache[d][t] = RunsOf(d, t)
    BY <1>3, <2>3, <2>7 DEF StepsOverNothing
  <2> QED BY <1>1, <2>6, <2>8
<1> QED BY <1>2, <1>3

\* A refresher's commit, for whichever position w: the one it sets, the one
\* the watermark was at, one that another refresher has read.
LEMMA RefreshStepsOver ==
  ASSUME IInv, CacheInv, NEW r \in Refresher, RefreshCommandStats(r),
         NEW q \in Device, NEW w \in Nat,
         StepsOverNothing(q, w) \/ (q = DeviceOf[r] /\ w = upTo[r])
  PROVE  StepsOverNothing(q, w)'
<1> DEFINE d == DeviceOf[r]
<1>1. /\ UNCHANGED <<log, rows, index>>
      /\ cache' = Refreshed(r)
      /\ d \in Device
      /\ cache \in [Device -> [Text -> SUBSET [cmd : Command, row : Row]]]
      /\ from[r] \in Nat /\ upTo[r] \in Nat
      /\ log[d] \in Seq(Event)
  BY StoreConstants DEF RefreshCommandStats, tables, IInv, TypeOK
<1>2. CASE q # d
  <2>1. cache'[q] = cache[q]
    BY <1>1, <1>2 DEF Refreshed
  <2>2. log'[q] = log[q] /\ rows'[q] = rows[q] /\ StepsOverNothing(q, w)
    BY <1>1, <1>2
  <2> QED BY <2>1, <2>2 DEF StepsOverNothing, Redacted, HeldKind, Held, RunsOf
<1>3. CASE q = d
  <2> SUFFICES ASSUME NEW t \in Text \ {NoText},
                      \A i \in w+1 .. Len(log[d]) : rows[d][log[d][i].cmd].text # t,
                      ~Redacted(d, t)
               PROVE  cache'[d][t] = RunsOf(d, t)
    BY <1>1, <1>3 DEF StepsOverNothing, Redacted, HeldKind, Held, RunsOf
  <2>1. cache'[d][t] = IF t \in Changed(r) THEN RunsOf(d, t)
                       ELSE IF from[r] = 0 THEN {} ELSE cache[d][t]
    BY <1>1 DEF Refreshed
  <2>2. CASE t \in Changed(r)
    BY <2>1, <2>2
  <2>3. CASE t \notin Changed(r) /\ from[r] = 0
    <3>1. RunsOf(d, t) = {}
      BY <2>3 DEF Changed, RunsOf
    <3> QED BY <2>1, <2>3, <3>1
  <2>4. CASE t \notin Changed(r) /\ from[r] # 0 /\ StepsOverNothing(q, w)
    BY <1>3, <2>1, <2>4 DEF StepsOverNothing
  <2>5. CASE t \notin Changed(r) /\ from[r] # 0 /\ w = upTo[r]
    <3>1. ASSUME NEW i \in from[r]+1 .. Len(log[d]) PROVE rows[d][log[d][i].cmd].text # t
      <4> DEFINE c == log[d][i].cmd
      <4>1. i \in 1..Len(log[d]) /\ i \in DOMAIN log[d] /\ Len(log[d]) \in Nat
        BY <1>1
      <4>2. log[d][i] \in Event /\ c \in Command
        BY <1>1, <4>1, StoreConstants DEF EventRecord
      <4>3. rows[d][c] # NoRow
        <5>1. Of(log[d], c) # {}
          BY <4>1 DEF Of
        <5>2. rows[d][c] = recompute(log[d], c) /\ recompute(log[d], c) \in Row
          BY <1>1, <4>2, <5>1, RecomputeType DEF IInv, RowsInv, ChoiceInv
        <5> QED BY <5>2, StoreConstants
      <4>4. CASE i \in w+1 .. Len(log[d])
        BY <4>4
      <4>5. CASE i \notin w+1 .. Len(log[d])
        <5>1. i \in from[r]+1 .. upTo[r]
          BY <1>1, <2>5, <4>1, <4>5
        <5> QED BY <2>5, <4>2, <4>3, <5>1 DEF Changed
      <4> QED BY <4>4, <4>5
    <3>2. StepsOverNothing(d, from[r])
      BY DEF CacheInv
    <3>3. cache[d][t] = RunsOf(d, t)
      BY <3>1, <3>2 DEF StepsOverNothing
    <3> QED BY <2>1, <2>5, <3>3
  <2> QED BY <1>3, <2>2, <2>3, <2>4, <2>5
<1> QED BY <1>2, <1>3

LEMMA NextCacheInv ==
  ASSUME OneText, IInv, IInv', CacheInv, [Next]_vars
  PROVE  CacheInv'
<1>1. /\ \A q \in Device : watermark[q] \in Nat /\ watermark[q] <= Len(log[q])
      /\ \A r \in Refresher : /\ DeviceOf[r] \in Device
                              /\ from[r] \in Nat /\ upTo[r] \in Nat
                              /\ from[r] <= Len(log[DeviceOf[r]])
      /\ watermark \in [Device -> Nat] /\ from \in [Refresher -> Nat]
      /\ \A q \in Device : Len(log[q]) \in Nat
  BY StoreConstants DEF IInv, TypeOK, BoundInv
<1>2. ASSUME NEW d \in Device, NEW e \in Event, Insert(d, e) PROVE CacheInv'
  <2>1. UNCHANGED <<watermark, from>>
    BY <1>2 DEF Insert, refresh
  <2> QED BY <1>1, <1>2, <2>1, InsertStepsOver DEF CacheInv
<1>3. ASSUME UNCHANGED <<log, rows, cache>>, NEW q, NEW w, StepsOverNothing(q, w)
      PROVE  StepsOverNothing(q, w)'
  BY <1>3 DEF StepsOverNothing, Redacted, HeldKind, Held, RunsOf
<1>4. \A q \in Device : StepsOverNothing(q, 0)
  BY <1>1 DEF CacheInv, StepsOverNothing
<1>5. ASSUME NEW r \in Refresher, ReadWatermark(r) PROVE CacheInv'
  <2>1. UNCHANGED <<log, rows, cache, watermark>> /\ from' = [from EXCEPT ![r] = watermark[DeviceOf[r]]]
    BY <1>5 DEF ReadWatermark, tables
  <2>2. \A q \in Refresher : StepsOverNothing(DeviceOf[q], from'[q])
    BY <1>1, <2>1 DEF CacheInv
  <2> QED BY <1>1, <1>3, <2>1, <2>2 DEF CacheInv
<1>6. ASSUME NEW r \in Refresher, FixUpTo(r) PROVE CacheInv'
  <2>1. UNCHANGED <<log, rows, cache, watermark, from>>
    BY <1>6 DEF FixUpTo, tables
  <2> QED BY <1>1, <1>3, <2>1 DEF CacheInv
<1>7. ASSUME NEW r \in Refresher, RefreshCommandStats(r) PROVE CacheInv'
  <2>1. /\ watermark' = [watermark EXCEPT ![DeviceOf[r]] = upTo[r]]
        /\ from' = [from EXCEPT ![r] = 0]
    BY <1>7 DEF RefreshCommandStats, Return
  <2>2. ASSUME NEW q \in Device, NEW w \in Nat, w = watermark'[q]
        PROVE  StepsOverNothing(q, w)'
    <3>1. StepsOverNothing(q, w) \/ (q = DeviceOf[r] /\ w = upTo[r])
      BY <1>1, <2>1, <2>2 DEF CacheInv
    <3> QED BY <1>7, <3>1, RefreshStepsOver
  <2>3. ASSUME NEW q \in Refresher, NEW w \in Nat, w = from'[q]
        PROVE  StepsOverNothing(DeviceOf[q], w)'
    <3>1. StepsOverNothing(DeviceOf[q], w)
      BY <1>1, <1>4, <2>1, <2>3 DEF CacheInv
    <3> QED BY <1>1, <1>7, <3>1, RefreshStepsOver
  <2>4. /\ \A q \in Device : watermark'[q] \in Nat
        /\ \A q \in Refresher : from'[q] \in Nat
    BY DEF IInv, TypeOK
  <2> QED BY <2>2, <2>3, <2>4 DEF CacheInv
<1>8. ASSUME NEW r \in Refresher, GiveUp(r) PROVE CacheInv'
  <2>1. UNCHANGED <<log, rows, cache, watermark>> /\ from' = [from EXCEPT ![r] = 0]
    BY <1>8 DEF GiveUp, Return, tables
  <2>2. \A q \in Refresher : StepsOverNothing(DeviceOf[q], from'[q])
    BY <1>1, <1>4, <2>1 DEF CacheInv
  <2> QED BY <1>1, <1>3, <2>1, <2>2 DEF CacheInv
<1>9. CASE UNCHANGED vars
  <2>1. UNCHANGED <<log, rows, cache, watermark, from>>
    BY <1>9 DEF vars, tables, refresh
  <2> QED BY <1>1, <1>3, <2>1 DEF CacheInv
<1> QED BY <1>2, <1>5, <1>6, <1>7, <1>8, <1>9 DEF Next, AppendEvent, InsertRemoteEvent

\* When an id stands for one command text, the incremental refresh steps over
\* no event, however many refreshers run and however they overtake each other.
THEOREM RefreshStepsOverNothing == OneText /\ Spec => []CacheFollowsLog
<1> SUFFICES ASSUME OneText PROVE Spec => []CacheFollowsLog
  OBVIOUS
<1>1. CacheInv => CacheFollowsLog
  BY DEF CacheInv, CacheFollowsLog, StepsOverNothing, Pending
<1>2. IInv /\ IInv' /\ CacheInv /\ [Next]_vars => CacheInv'
  BY NextCacheInv
<1> QED BY <1>1, <1>2, InitIInv, InitCacheInv, NextIInv, PTL DEF Spec

=============================================================================
